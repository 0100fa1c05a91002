------------------------- MODULE ChannelReorderProofs -------------------------
(***************************************************************************)
(* The safety of ChannelReorder for any slots, channels and senders.       *)
(* First the planner, which is an algorithm: it always ends, and each of   *)
(* its writes leaves a copy of every channel in another slot.  Then the    *)
(* job that carries a plan out over a link that loses writes and answers:  *)
(* at every moment each channel has a slot that no write on the way will   *)
(* hit.  Last the rows of the stored messages and the sends.  A recursive  *)
(* function is reasoned about by the least turn at which a claim fails.    *)
(***************************************************************************)
EXTENDS ChannelReorder, FiniteSetTheorems, TLAPS

-------------------------------------------------------------------------------
\* Least and greatest elements, and the course of the planner.

\* A set of numbers that has an element has a least one.
LEMMA LeastExists ==
    ASSUME NEW T \in SUBSET Nat, T # {}
    PROVE  \E x \in T : \A y \in T : x <= y
<1> DEFINE I == {1 .. n : n \in T}
<1>1. IsWellFoundedOn(StrictSubsetOrdering(Nat), FiniteSubsetsOf(Nat))
  BY FS_StrictSubsetOrderingWellFounded
<1>2. I \subseteq FiniteSubsetsOf(Nat) /\ I # {}
  <2>1. \A n \in T : IsFiniteSet(1 .. n)
    BY FS_Interval
  <2>2. ASSUME NEW X \in I
        PROVE  X \in FiniteSubsetsOf(Nat)
    <3>1. PICK n \in T : X = 1 .. n
      OBVIOUS
    <3>2. X \in SUBSET Nat
      BY <3>1
    <3>3. IsFiniteSet(X)
      BY <3>1, <2>1
    <3> QED BY <3>2, <3>3 DEF FiniteSubsetsOf
  <2>3. I # {}
    OBVIOUS
  <2> QED BY <2>2, <2>3
<1>3. PICK X \in I : \A Y \in I : ~(<<Y, X>> \in StrictSubsetOrdering(Nat))
  BY <1>1, <1>2, WFMin
<1>4. PICK x \in T : X = 1 .. x
  OBVIOUS
<1>5. ASSUME NEW y \in T, y < x
      PROVE  FALSE
  <2>1. 1 .. y \subseteq 1 .. x /\ x \in 1 .. x /\ x \notin 1 .. y
    BY <1>5
  <2>2. <<1 .. y, X>> \in StrictSubsetOrdering(Nat)
    BY <2>1, <1>4 DEF StrictSubsetOrdering
  <2> QED BY <2>2, <1>3
<1> QED BY <1>4, <1>5

\* What Min returns.
LEMMA MinIsLeast ==
    ASSUME NEW T \in SUBSET Nat, T # {}
    PROVE  Min(T) \in T /\ \A y \in T : Min(T) <= y
BY LeastExists DEF Min

\* What Max returns, of a set with a bound.
LEMMA MaxIsGreatest ==
    ASSUME NEW n \in Nat, NEW T \in SUBSET (0 .. n), T # {}
    PROVE  Max(T) \in T /\ \A y \in T : y <= Max(T)
<1> DEFINE U == {n - y : y \in T}
<1>1. U \in SUBSET Nat /\ U # {}
  <2>1. \A y \in T : y \in Nat /\ n - y \in Nat
    OBVIOUS
  <2> QED BY <2>1, ZenonT(20)
<1>2. PICK u \in U : \A y \in U : u <= y
  BY <1>1, LeastExists
<1>3. PICK x \in T : u = n - x
  OBVIOUS
<1>4. \A y \in T : x >= y
  <2> SUFFICES ASSUME NEW y \in T PROVE x >= y
    OBVIOUS
  <2>1. n - y \in U
    OBVIOUS
  <2> QED BY <2>1, <1>2, <1>3
<1> QED BY <1>4 DEF Max

\* The states that one turn of the planner's loop leads to.
turned(now, goal, C) == {turn(now, goal, c) : c \in C}

\* f is the course of the planner, up to turn m.
Trail(f, now, goal, m) ==
    f = [i \in 0 .. m |-> IF i = 0 THEN {begun(now, goal)} ELSE turned(now, goal, f[i - 1])]

\* The planner's course is defined up to every turn.
LEMMA TrailExists ==
    ASSUME NEW now, NEW goal, NEW m \in Nat
    PROVE  \E f : Trail(f, now, goal, m)
<1> DEFINE T == {k \in Nat : ~ \E f : Trail(f, now, goal, k)}
<1> SUFFICES ASSUME T # {} PROVE FALSE
  OBVIOUS
<1>1. PICK k \in T : \A j \in T : k <= j
  BY LeastExists
<1>2. CASE k = 0
  <2> DEFINE f == [i \in 0 .. 0 |-> {begun(now, goal)}]
  <2>1. Trail(f, now, goal, 0)
    BY DEF Trail
  <2> QED BY <2>1, <1>2
<1>3. CASE k # 0
  <2>1. k - 1 \in Nat /\ k - 1 \notin T
    BY <1>1, <1>3
  <2>2. PICK f : Trail(f, now, goal, k - 1)
    BY <2>1
  <2> DEFINE g == [i \in 0 .. k |-> IF i = k THEN turned(now, goal, f[k - 1])
                                    ELSE f[i]]
  <2>3. ASSUME NEW i \in 0 .. k
        PROVE  g[i] = IF i = 0 THEN {begun(now, goal)}
                      ELSE turned(now, goal, g[i - 1])
    <3>0. f = [j \in 0 .. (k - 1) |-> IF j = 0 THEN {begun(now, goal)}
                                     ELSE turned(now, goal, f[j - 1])]
      BY <2>2 DEF Trail
    <3>1. CASE i = 0
      BY <3>0, <3>1, <2>1
    <3>2. CASE i = k
      BY <3>2, <1>3, <2>1
    <3>3. CASE i # 0 /\ i # k
      <4>1. i \in 0 .. (k - 1) /\ i - 1 \in 0 .. (k - 1) /\ i - 1 # k
        BY <3>3, <2>1
      <4>2. g[i] = f[i] /\ g[i - 1] = f[i - 1]
        BY <4>1, <3>3
      <4>3. f[i] = turned(now, goal, f[i - 1])
        BY <3>0, <3>3, <4>1
      <4> QED BY <4>2, <4>3, <3>3
    <3> QED BY <3>1, <3>2, <3>3
  <2>4. Trail(g, now, goal, k)
    BY <2>3 DEF Trail
  <2> QED BY <2>4
<1> QED BY <1>2, <1>3

\* There is only one course.
LEMMA TrailUnique ==
    ASSUME NEW now, NEW goal, NEW m \in Nat, NEW f, NEW g,
           Trail(f, now, goal, m), Trail(g, now, goal, m)
    PROVE  f = g
<1> DEFINE T == {k \in 0 .. m : f[k] # g[k]}
<1>1. /\ f = [i \in 0 .. m |-> IF i = 0 THEN {begun(now, goal)} ELSE turned(now, goal, f[i - 1])]
      /\ g = [i \in 0 .. m |-> IF i = 0 THEN {begun(now, goal)} ELSE turned(now, goal, g[i - 1])]
  BY DEF Trail
<1>2. ASSUME T # {} PROVE FALSE
  <2>1. T \in SUBSET Nat
    OBVIOUS
  <2>2. PICK k \in T : \A j \in T : k <= j
    BY <2>1, <1>2, LeastExists
  <2>3. k # 0
    BY <1>1
  <2>4. k - 1 \in 0 .. m /\ k - 1 \notin T
    BY <2>2, <2>3
  <2>5. f[k - 1] = g[k - 1]
    BY <2>4
  <2> QED BY <2>5, <2>3, <1>1
<1> QED BY <1>1, <1>2

\* The bound of the planner's loop.
limit(goal) == (Cardinality(DOMAIN goal) + 1) * 4 + 8

\* What a plan is.
LEMMA PlanUnfolded ==
    ASSUME NEW now, NEW goal, NEW f, limit(goal) \in Nat, Trail(f, now, goal, limit(goal))
    PROVE  Plan(now, goal) = CHOOSE c \in f[limit(goal)] : TRUE
<1> DEFINE lim == (Cardinality(DOMAIN goal) + 1) * 4 + 8
           course[i \in 0 .. lim] ==
               IF i = 0 THEN {begun(now, goal)}
               ELSE {turn(now, goal, c) : c \in course[i - 1]}
<1>1. Plan(now, goal) = CHOOSE c \in course[lim] : TRUE
  BY DEF Plan
<1>2. lim = limit(goal)
  BY DEF limit
<1>3. f = [i \in 0 .. lim |-> IF i = 0 THEN {begun(now, goal)}
                            ELSE {turn(now, goal, c) : c \in f[i - 1]}]
  BY <1>2 DEF Trail, turned
<1>4. \A g : g = [i \in 0 .. lim |-> IF i = 0 THEN {begun(now, goal)}
                            ELSE {turn(now, goal, c) : c \in g[i - 1]}] => g = f
  <2> SUFFICES ASSUME NEW g, g = [i \in 0 .. lim |-> IF i = 0 THEN {begun(now, goal)}
                            ELSE {turn(now, goal, c) : c \in g[i - 1]}]
               PROVE g = f
    OBVIOUS
  <2>1. Trail(g, now, goal, lim)
    BY DEF Trail, turned
  <2> QED BY <2>1, <1>2, TrailUnique
<1> HIDE DEF lim
<1>5. course = f
  BY <1>3, <1>4
<1> QED BY <1>1, <1>2, <1>5

-------------------------------------------------------------------------------
\* The planner: what it starts from, and what it writes next.

\* The slots hold every channel of K, and nothing but these.
Table(now, K) ==
    /\ now \in [Slot -> K \cup {Empty, Unknown}]
    /\ \A x \in K : \E s \in Slot : now[s] = x

\* A goal names channels of K; carried out, it leaves each of them somewhere.
Aim(now, goal, K) ==
    /\ goal \in [DOMAIN goal -> K \cup {Empty}] /\ DOMAIN goal \subseteq Slot
    /\ \A x \in K : \/ \E s \in DOMAIN goal : goal[s] = x
                    \/ \E t \in Slot \ DOMAIN goal : now[t] = x

\* A write that leaves a copy of every channel of K in another slot.
Spares(now, w, K) ==
    /\ w.slot \in Slot /\ w.value \in K \cup {Empty}
    /\ \A x \in K : \E t \in Slot \ {w.slot} : now[t] = x

\* The slots are a finite set of numbers.
LEMMA SlotsFinite ==
    /\ IsFiniteSet(Slot) /\ Slot \subseteq 0 .. LastSlot /\ LastSlot \in Nat
    /\ \A T \in SUBSET Slot : T \in SUBSET Nat /\ T \in SUBSET (0 .. LastSlot) /\ IsFiniteSet(T)
<1>1. LastSlot \in Nat
  BY SlotAssumption
<1>2. IsFiniteSet(1 .. LastSlot)
  BY <1>1, FS_Interval
<1>3. \A T \in SUBSET Slot : IsFiniteSet(T)
  BY <1>2, FS_Subset DEF Slot
<1> QED BY <1>1, <1>2, <1>3 DEF Slot

\* What the next write of a plan is.
Doing(p, w) ==
    \/ /\ pending(p) = {} /\ w = [kind |-> "done"]
    \/ \E s \in pending(p) :
        /\ safeToOverwrite(p, s) /\ p.goal[s] # Empty
        /\ w = [kind |-> "place", slot |-> s, value |-> p.goal[s]]
    \/ \E s \in pending(p) :
        /\ safeToOverwrite(p, s) /\ p.goal[s] = Empty
        /\ \A t \in pending(p) : safeToOverwrite(p, t) => p.goal[t] = Empty
        /\ w = [kind |-> "clear", slot |-> s, value |-> Empty]
    \/ \E s \in Slot \ DOMAIN p.goal, b \in pending(p) :
        /\ \A t \in pending(p) : ~safeToOverwrite(p, t)
        /\ p.now[s] = Empty
        /\ p.goal[b] = Empty => \A t \in pending(p) : p.goal[t] = Empty
        /\ w = [kind |-> "scratch", slot |-> s, value |-> p.now[b]]
    \/ w = [kind |-> "NO_FREE_SLOT"]

\* nextReorderWrite: what it returns is one of the five outcomes of Doing.
LEMMA NextWriteIs ==
    ASSUME NEW p, DOMAIN p.goal \subseteq Slot
    PROVE  Doing(p, NextWrite(p))
<1> DEFINE safe == {s \in pending(p) : safeToOverwrite(p, s)}
           place == {s \in safe : p.goal[s] # Empty}
           stuck == {s \in pending(p) : p.goal[s] # Empty}
           blocked == IF stuck # {} THEN Min(stuck) ELSE Min(pending(p))
           free == {s \in Slot \ DOMAIN p.goal : p.now[s] = Empty}
           w == NextWrite(p)
<1>1. w = CASE pending(p) = {} -> [kind |-> "done"]
          [] place # {} -> [kind |-> "place", slot |-> Min(place), value |-> p.goal[Min(place)]]
          [] place = {} /\ safe # {} -> [kind |-> "clear", slot |-> Min(safe), value |-> Empty]
          [] safe = {} /\ pending(p) # {} /\ free # {} ->
                [kind |-> "scratch", slot |-> Max(free), value |-> p.now[blocked]]
          [] OTHER -> [kind |-> "NO_FREE_SLOT"]
  BY DEF NextWrite
<1>2. /\ pending(p) \in SUBSET Slot /\ safe \in SUBSET Slot /\ place \in SUBSET Slot
      /\ stuck \in SUBSET Slot /\ free \in SUBSET Slot
  BY DEF pending
<1>3. \A T \in SUBSET Slot : T # {} => Min(T) \in T /\ Max(T) \in T
  BY SlotsFinite, MinIsLeast, MaxIsGreatest
<1>4. CASE pending(p) = {}
  <2>1. w = [kind |-> "done"]
    BY <1>1, <1>4, Zenon
  <2> QED BY <2>1, <1>4 DEF Doing
<1>5. CASE place # {}
  <2>1. pending(p) # {}
    BY <1>5
  <2>2. w = [kind |-> "place", slot |-> Min(place), value |-> p.goal[Min(place)]]
    BY <1>1, <1>5, <2>1
  <2>3. Min(place) \in place
    BY <1>2, <1>3, <1>5
  <2> QED BY <2>2, <2>3 DEF Doing
<1>6. CASE place = {} /\ safe # {}
  <2>1. pending(p) # {}
    BY <1>6
  <2>2. w = [kind |-> "clear", slot |-> Min(safe), value |-> Empty]
    BY <1>1, <1>6, <2>1
  <2>3. Min(safe) \in safe
    BY <1>2, <1>3, <1>6
  <2>4. \A t \in safe : p.goal[t] = Empty
    BY <1>6
  <2> QED BY <2>2, <2>3, <2>4 DEF Doing
<1>7. CASE safe = {} /\ pending(p) # {} /\ free # {}
  <2>1. w = [kind |-> "scratch", slot |-> Max(free), value |-> p.now[blocked]]
    BY <1>1, <1>7
  <2>2. Max(free) \in free
    BY <1>2, <1>3, <1>7
  <2>3. blocked \in pending(p) /\ (p.goal[blocked] = Empty => stuck = {})
    BY <1>2, <1>3, <1>7
  <2> HIDE DEF blocked
  <2>4. Max(free) \in Slot \ DOMAIN p.goal /\ p.now[Max(free)] = Empty
    BY <2>2
  <2>5. \A t \in pending(p) : ~safeToOverwrite(p, t)
    BY <1>7
  <2>6. p.goal[blocked] = Empty => \A t \in pending(p) : p.goal[t] = Empty
    BY <2>3
  <2> QED BY <2>1, <2>3, <2>4, <2>5, <2>6 DEF Doing
<1>8. CASE safe = {} /\ pending(p) # {} /\ free = {}
  <2>1. w = [kind |-> "NO_FREE_SLOT"]
    BY <1>1, <1>8
  <2> QED BY <2>1 DEF Doing
<1> QED BY <1>4, <1>5, <1>6, <1>7, <1>8

-------------------------------------------------------------------------------
\* A write of the planner spares a copy of every channel.

\* safeToOverwrite: a slot it accepts is not the only one with a channel that is
\* still needed.
LEMMA SpareCopy ==
    ASSUME NEW p, NEW K, K \subseteq Channel, Table(p.now, K), Aim(p.now, p.goal, K),
           NEW s \in DOMAIN p.goal, safeToOverwrite(p, s), NEW x \in K
    PROVE  \E t \in Slot \ {s} : p.now[t] = x
<1>1. s \in Slot /\ x # Empty /\ x # Unknown
  BY ValueAssumption DEF Aim
<1>2. PICK t \in Slot : p.now[t] = x
  BY DEF Table
<1>3. CASE p.now[s] # x
  BY <1>2, <1>3
<1>4. CASE p.now[s] = x /\ copies(p, x) > 1
  <2> DEFINE C == {t2 \in Slot : p.now[t2] = x}
  <2>1. Cardinality(C) > 1
    BY <1>4 DEF copies
  <2>2. C # {s}
    <3>1. Cardinality({s}) = 1
      BY FS_Singleton
    <3> QED BY <2>1, <3>1
  <2>3. s \in C
    BY <1>1, <1>4
  <2> QED BY <2>2, <2>3
<1>5. CASE p.now[s] = x /\ ~wanted(p, x)
  <2>1. \E u \in Slot \ DOMAIN p.goal : p.now[u] = x
    BY <1>5 DEF Aim, wanted
  <2> QED BY <2>1
<1> QED BY <1>1, <1>3, <1>4, <1>5 DEF safeToOverwrite

\* safeToOverwrite: what it protects is a channel, not an empty slot.
LEMMA UnsafeIsChannel ==
    ASSUME NEW p, NEW K, Table(p.now, K), NEW s \in Slot, ~safeToOverwrite(p, s)
    PROVE  p.now[s] \in K
BY DEF safeToOverwrite, Table

\* A plan never writes over the last copy of a channel.
LEMMA WriteSpares ==
    ASSUME NEW p, NEW w, NEW K, K \subseteq Channel, Table(p.now, K), Aim(p.now, p.goal, K),
           Doing(p, w), w.kind \notin {"done", "NO_FREE_SLOT"}
    PROVE  Spares(p.now, w, K)
<1>1. ASSUME NEW s \in pending(p), safeToOverwrite(p, s), w.slot = s, w.value \in K \cup {Empty}
      PROVE  Spares(p.now, w, K)
  <2>1. s \in DOMAIN p.goal /\ s \in Slot
    BY DEF pending, Aim
  <2>2. \A x \in K : \E t \in Slot \ {s} : p.now[t] = x
    BY <1>1, <2>1, SpareCopy
  <2> QED BY <1>1, <2>1, <2>2 DEF Spares
<1>2. \A s \in pending(p) : s \in DOMAIN p.goal /\ s \in Slot /\ p.goal[s] \in K \cup {Empty}
  BY DEF pending, Aim
<1>3. ASSUME NEW s \in pending(p), safeToOverwrite(p, s),
             w = [kind |-> "place", slot |-> s, value |-> p.goal[s]]
      PROVE  Spares(p.now, w, K)
  BY <1>1, <1>2, <1>3
<1>4. ASSUME NEW s \in pending(p), safeToOverwrite(p, s),
             w = [kind |-> "clear", slot |-> s, value |-> Empty]
      PROVE  Spares(p.now, w, K)
  BY <1>1, <1>4
<1>5. ASSUME NEW s \in Slot \ DOMAIN p.goal, NEW b \in pending(p), ~safeToOverwrite(p, b),
             p.now[s] = Empty,
             w = [kind |-> "scratch", slot |-> s, value |-> p.now[b]]
      PROVE  Spares(p.now, w, K)
  <2>1. p.now[b] \in K
    BY <1>2, <1>5, UnsafeIsChannel
  <2>2. \A x \in K : x # Empty
    BY ValueAssumption
  <2>3. \A x \in K : \E t \in Slot \ {s} : p.now[t] = x
    BY <1>5, <2>2 DEF Table
  <2> QED BY <1>5, <2>1, <2>3 DEF Spares
<1>6. \/ w.kind = "done"
      \/ \E s \in pending(p) : safeToOverwrite(p, s)
            /\ w = [kind |-> "place", slot |-> s, value |-> p.goal[s]]
      \/ \E s \in pending(p) : safeToOverwrite(p, s)
            /\ w = [kind |-> "clear", slot |-> s, value |-> Empty]
      \/ \E s \in Slot \ DOMAIN p.goal, b \in pending(p) :
            /\ ~safeToOverwrite(p, b) /\ p.now[s] = Empty
            /\ w = [kind |-> "scratch", slot |-> s, value |-> p.now[b]]
      \/ w.kind = "NO_FREE_SLOT"
  BY DEF Doing
<1> QED BY <1>3, <1>4, <1>5, <1>6

\* What a write does to the slots.
put(now, w) == [now EXCEPT ![w.slot] = w.value]

\* A write that spares the channels leaves them all in the slots.
LEMMA TableKept ==
    ASSUME NEW now, NEW w, NEW K, Table(now, K), Spares(now, w, K)
    PROVE  Table(put(now, w), K)
<1>1. put(now, w) \in [Slot -> K \cup {Empty, Unknown}]
  BY DEF Table, Spares, put
<1>2. \A t \in Slot \ {w.slot} : put(now, w)[t] = now[t]
  BY DEF Table, put
<1>3. \A x \in K : \E t \in Slot : put(now, w)[t] = x
  BY <1>2 DEF Spares
<1> QED BY <1>1, <1>3 DEF Table

\* A state of the planner.
IsPlan(c) == c = [now |-> c.now, goal |-> c.goal, writes |-> c.writes, safe |-> c.safe,
                  end |-> c.end]

\* The goal after a write: a slot that is borrowed is to be cleared.
aimed(p, w) == IF w.kind = "scratch" THEN borrow(p.goal, w.slot) ELSE p.goal

\* What a write makes of the planner's state.
LEMMA AdvanceIs ==
    ASSUME NEW p, IsPlan(p), NEW w
    PROVE  Advance(p, w) = [now |-> put(p.now, w), goal |-> aimed(p, w), writes |-> p.writes,
                            safe |-> p.safe, end |-> p.end]
<1>1. p = [now |-> p.now, goal |-> p.goal, writes |-> p.writes, safe |-> p.safe, end |-> p.end]
  BY DEF IsPlan
<1>2. Advance(p, w) = [p EXCEPT !.now = put(p.now, w), !.goal = aimed(p, w)]
  BY DEF Advance, put, aimed
<1>3. DOMAIN p = {"now", "goal", "writes", "safe", "end"}
  BY <1>1
<1> DEFINE q == [p EXCEPT !.now = put(p.now, w)]
<1>4. q = [now |-> put(p.now, w), goal |-> p.goal, writes |-> p.writes,
           safe |-> p.safe, end |-> p.end]
  BY <1>1, <1>3
<1>5. DOMAIN q = {"now", "goal", "writes", "safe", "end"}
  BY <1>4
<1>6. Advance(p, w) = [q EXCEPT !.goal = aimed(p, w)]
  BY <1>2
<1> HIDE DEF q
<1> QED BY <1>4, <1>5, <1>6

\* After a write the goal still leaves every channel somewhere.
LEMMA AimKept ==
    ASSUME NEW p, NEW w, NEW K, K \subseteq Channel, Table(p.now, K), Aim(p.now, p.goal, K),
           Doing(p, w), w.kind \notin {"done", "NO_FREE_SLOT"}
    PROVE  Aim(put(p.now, w), aimed(p, w), K)
<1>1. CASE w.kind # "scratch"
  <2>1. w.slot \in DOMAIN p.goal
    BY <1>1 DEF Doing, pending
  <2>2. aimed(p, w) = p.goal
    BY <1>1 DEF aimed
  <2>3. \A t \in Slot \ DOMAIN p.goal : put(p.now, w)[t] = p.now[t]
    BY <2>1 DEF Table, put
  <2> QED BY <2>2, <2>3 DEF Aim
<1>2. CASE w.kind = "scratch"
  <2>1. w.slot \in Slot \ DOMAIN p.goal /\ p.now[w.slot] = Empty
    BY <1>2 DEF Doing
  <2>2. aimed(p, w) = [s \in DOMAIN p.goal \cup {w.slot} |->
                            IF s = w.slot THEN Empty ELSE p.goal[s]]
    BY <1>2 DEF aimed, borrow
  <2> DEFINE g == [s \in DOMAIN p.goal \cup {w.slot} |-> IF s = w.slot THEN Empty ELSE p.goal[s]]
  <2>3. g \in [DOMAIN g -> K \cup {Empty}] /\ DOMAIN g \subseteq Slot
    BY <2>1 DEF Aim
  <2>4. ASSUME NEW x \in K
        PROVE  \/ \E s \in DOMAIN g : g[s] = x
               \/ \E t \in Slot \ DOMAIN g : put(p.now, w)[t] = x
    <3>1. x # Empty
      BY ValueAssumption
    <3>2. CASE \E s \in DOMAIN p.goal : p.goal[s] = x
      BY <3>2, <2>1
    <3>3. ASSUME NEW t \in Slot \ DOMAIN p.goal, p.now[t] = x
          PROVE  t \in Slot \ DOMAIN g /\ put(p.now, w)[t] = x
      <4>1. t # w.slot
        BY <3>1, <3>3, <2>1
      <4>2. put(p.now, w)[t] = p.now[t]
        BY <4>1 DEF Table, put
      <4> QED BY <4>1, <4>2, <3>3
    <3> QED BY <3>2, <3>3 DEF Aim
  <2> QED BY <2>2, <2>3, <2>4 DEF Aim
<1> QED BY <1>1, <1>2

-------------------------------------------------------------------------------
\* Sequences of writes.

\* A write of a channel of K, or of nothing.
Write(K) == [slot : Slot, value : K \cup {Empty}]

\* The writes lead from b through the tables n, and each of them spares K.
Traced(n, writes, b, K) ==
    /\ n[0] = b
    /\ \A i \in 1 .. Len(writes) :
        n[i] = put(n[i - 1], writes[i]) /\ Spares(n[i - 1], writes[i], K)

\* The writes lead from b to e, and each of them spares K.
Leads(b, writes, e, K) ==
    /\ writes \in Seq(Write(K))
    /\ \E n : Traced(n, writes, b, K) /\ n[Len(writes)] = e

\* One write more.
LEMMA LeadsOn ==
    ASSUME NEW b, NEW writes, NEW e, NEW K, Leads(b, writes, e, K), NEW w, Spares(e, w, K)
    PROVE  Leads(b, Append(writes, [slot |-> w.slot, value |-> w.value]), put(e, w), K)
<1> DEFINE x == [slot |-> w.slot, value |-> w.value]
           l == Len(writes)
           ws == Append(writes, x)
<1>1. x \in Write(K) /\ put(e, x) = put(e, w) /\ Spares(e, x, K)
  BY DEF Write, Spares, put
<1>2. /\ ws \in Seq(Write(K)) /\ l \in Nat /\ Len(ws) = l + 1 /\ ws[l + 1] = x
      /\ \A i \in 1 .. l : ws[i] = writes[i]
  BY <1>1 DEF Leads
<1>3. PICK n : Traced(n, writes, b, K) /\ n[l] = e
  BY DEF Leads
<1> HIDE DEF x, l, ws
<1> DEFINE m == [i \in 0 .. (l + 1) |-> IF i = l + 1 THEN put(e, x) ELSE n[i]]
<1>4. m[0] = b
  BY <1>3, <1>2 DEF Traced
<1>5. ASSUME NEW i \in 1 .. Len(ws)
      PROVE  m[i] = put(m[i - 1], ws[i]) /\ Spares(m[i - 1], ws[i], K)
  <2>1. CASE i = l + 1
    <3>1. m[i] = put(e, x) /\ m[i - 1] = n[l]
      BY <1>2, <2>1
    <3> QED BY <3>1, <1>1, <1>2, <1>3, <2>1
  <2>2. CASE i # l + 1
    <3>1. i \in 1 .. l /\ i - 1 \in 0 .. l /\ i - 1 # l + 1 /\ i \in 0 .. (l + 1)
          /\ i - 1 \in 0 .. (l + 1)
      BY <1>2, <2>2
    <3>2. m[i] = n[i] /\ m[i - 1] = n[i - 1]
      BY <3>1, <2>2
    <3>3. n[i] = put(n[i - 1], writes[i]) /\ Spares(n[i - 1], writes[i], K)
      BY <1>3, <3>1 DEF Traced, l
    <3> QED BY <3>1, <3>2, <3>3, <1>2
  <2> QED BY <2>1, <2>2
<1>6. m[Len(ws)] = put(e, x)
  BY <1>2
<1> HIDE DEF m
<1>7. Leads(b, ws, put(e, x), K)
  BY <1>2, <1>4, <1>5, <1>6 DEF Leads, Traced
<1> QED BY <1>7, <1>1 DEF ws, x

\* No writes yet.
LEMMA LeadsStart ==
    ASSUME NEW b, NEW K
    PROVE  Leads(b, <<>>, b, K)
<1> DEFINE n == [i \in {0} |-> b]
<1>1. Traced(n, <<>>, b, K) /\ n[Len(<<>>)] = b
  BY DEF Traced
<1> QED BY <1>1 DEF Leads

\* The first of the writes that are left, and the others.
LEMMA LeadsHead ==
    ASSUME NEW b, NEW writes, NEW e, NEW K, Leads(b, writes, e, K), writes # <<>>
    PROVE  /\ Head(writes) \in Write(K) /\ Spares(b, Head(writes), K)
           /\ Leads(put(b, Head(writes)), Tail(writes), e, K)
<1> DEFINE l == Len(writes)
           ws == Tail(writes)
           x == Head(writes)
<1>1. /\ l \in Nat /\ l # 0 /\ ws \in Seq(Write(K)) /\ Len(ws) = l - 1
      /\ x = writes[1] /\ x \in Write(K)
      /\ \A i \in 1 .. (l - 1) : ws[i] = writes[i + 1]
  BY DEF Leads
<1>2. PICK n : Traced(n, writes, b, K) /\ n[l] = e
  BY DEF Leads
<1> DEFINE m == [i \in 0 .. (l - 1) |-> n[i + 1]]
<1>3. n[0] = b /\ n[1] = put(n[0], writes[1]) /\ Spares(n[0], writes[1], K)
  <2>1. 1 \in 1 .. l /\ 1 - 1 = 0
    BY <1>1
  <2> QED BY <1>2, <2>1 DEF Traced
<1> HIDE DEF l, ws, x
<1>4. m[0] = put(b, x)
  BY <1>1, <1>3
<1>5. ASSUME NEW i \in 1 .. Len(ws)
      PROVE  m[i] = put(m[i - 1], ws[i]) /\ Spares(m[i - 1], ws[i], K)
  <2>1. i + 1 \in 1 .. l /\ i \in 0 .. (l - 1) /\ i - 1 \in 0 .. (l - 1) /\ (i - 1) + 1 = i
        /\ (i + 1) - 1 = i /\ i \in 1 .. (l - 1)
    BY <1>1
  <2>2. n[i + 1] = put(n[i], writes[i + 1]) /\ Spares(n[i], writes[i + 1], K)
    BY <1>2, <2>1 DEF Traced, l
  <2>3. m[i] = n[i + 1] /\ m[i - 1] = n[i]
    BY <2>1
  <2> QED BY <2>1, <2>2, <2>3, <1>1
<1>6. m[Len(ws)] = e
  <2>1. l - 1 \in 0 .. (l - 1) /\ (l - 1) + 1 = l
    BY <1>1
  <2> QED BY <1>1, <1>2, <2>1
<1> HIDE DEF m
<1>7. Leads(put(b, x), ws, e, K)
  BY <1>1, <1>4, <1>5, <1>6 DEF Leads, Traced
<1> QED BY <1>1, <1>3, <1>7 DEF x, ws

-------------------------------------------------------------------------------
\* Every write of the planner leaves it less to do.

\* A channel can be put where it is to go.
placeable(p) == \E s \in pending(p) : safeToOverwrite(p, s) /\ p.goal[s] # Empty

\* What is left to be done: a slot of the goal weighs more than a borrowed one, and
\* a plan that must borrow first has two steps more to go.
Burden(p, D) ==
    4 * Cardinality(pending(p) \cap D) + Cardinality(pending(p) \ D)
    + (IF placeable(p) THEN 0 ELSE 2)

\* The slots a plan was to fill, and those it has borrowed since.
Extends(p, goal) ==
    /\ DOMAIN goal \subseteq DOMAIN p.goal
    /\ \A s \in DOMAIN goal : p.goal[s] = goal[s]
    /\ \A s \in DOMAIN p.goal \ DOMAIN goal : p.goal[s] = Empty

\* The pending slots can be counted.
LEMMA PendingFinite ==
    ASSUME NEW p, DOMAIN p.goal \subseteq Slot, NEW D
    PROVE  /\ pending(p) \subseteq Slot
           /\ IsFiniteSet(pending(p) \cap D) /\ Cardinality(pending(p) \cap D) \in Nat
           /\ IsFiniteSet(pending(p) \ D) /\ Cardinality(pending(p) \ D) \in Nat
<1>1. pending(p) \subseteq Slot
  BY DEF pending
<1>2. IsFiniteSet(pending(p) \cap D) /\ IsFiniteSet(pending(p) \ D)
  BY <1>1, SlotsFinite
<1> QED BY <1>1, <1>2, FS_CardinalityType

\* The burden is a natural number.
LEMMA BurdenNat ==
    ASSUME NEW p, DOMAIN p.goal \subseteq Slot, NEW D
    PROVE  Burden(p, D) \in Nat
<1> DEFINE a == Cardinality(pending(p) \cap D)
           b == Cardinality(pending(p) \ D)
<1>1. a \in Nat /\ b \in Nat
  BY PendingFinite
<1> HIDE DEF a, b
<1>2. 4 * a + b + 0 \in Nat /\ 4 * a + b + 2 \in Nat
  BY <1>1
<1>3. Burden(p, D) = 4 * a + b + (IF placeable(p) THEN 0 ELSE 2)
  BY DEF Burden, a, b
<1> QED BY <1>2, <1>3

\* Every turn that writes leaves less to be done.
LEMMA BurdenFalls ==
    ASSUME NEW p, NEW q, NEW w, NEW K, K \subseteq Channel, NEW goal, Table(p.now, K),
           Aim(p.now, p.goal, K), Extends(p, goal), Doing(p, w),
           w.kind \notin {"done", "NO_FREE_SLOT"},
           q.now = put(p.now, w), q.goal = aimed(p, w)
    PROVE  Burden(q, DOMAIN goal) < Burden(p, DOMAIN goal)
<1> DEFINE D == DOMAIN goal
           a == Cardinality(pending(p) \cap D)
           b == Cardinality(pending(p) \ D)
           a1 == Cardinality(pending(q) \cap D)
           b1 == Cardinality(pending(q) \ D)
<1>1. DOMAIN p.goal \subseteq Slot /\ DOMAIN q.goal \subseteq Slot
  <2>1. Aim(put(p.now, w), aimed(p, w), K)
    BY AimKept
  <2> QED BY <2>1 DEF Aim
<1>2. /\ a \in Nat /\ b \in Nat /\ a1 \in Nat /\ b1 \in Nat
      /\ IsFiniteSet(pending(p) \cap D) /\ IsFiniteSet(pending(p) \ D)
      /\ pending(p) \subseteq Slot
  BY <1>1, PendingFinite
<1>3. /\ Burden(p, D) = 4 * a + b + (IF placeable(p) THEN 0 ELSE 2)
      /\ Burden(q, D) = 4 * a1 + b1 + (IF placeable(q) THEN 0 ELSE 2)
  BY DEF Burden
<1>4. ASSUME NEW s \in pending(p), w.slot = s, w.value = p.goal[s], w.kind # "scratch"
      PROVE  /\ s \in D => a1 = a - 1 /\ b1 = b
             /\ s \notin D => a1 = a /\ b1 = b - 1
  <2>1. s \in DOMAIN p.goal /\ s \in Slot
    BY <1>1 DEF pending
  <2>2. q.goal = p.goal
    BY <1>4 DEF aimed
  <2>3. q.now[s] = p.goal[s] /\ \A t \in Slot \ {s} : q.now[t] = p.now[t]
    BY <1>4, <2>1 DEF put, Table
  <2>4. pending(q) = pending(p) \ {s}
    BY <1>1, <2>1, <2>2, <2>3 DEF pending
  <2>5. CASE s \in D
    <3>1. pending(q) \cap D = (pending(p) \cap D) \ {s} /\ pending(q) \ D = pending(p) \ D
          /\ s \in pending(p) \cap D
      BY <2>4, <2>5
    <3>2. Cardinality((pending(p) \cap D) \ {s}) = a - 1
      BY <3>1, <1>2, FS_RemoveElement
    <3> QED BY <3>1, <3>2, <2>5
  <2>6. CASE s \notin D
    <3>1. pending(q) \ D = (pending(p) \ D) \ {s} /\ pending(q) \cap D = pending(p) \cap D
          /\ s \in pending(p) \ D
      BY <2>4, <2>6
    <3>2. Cardinality((pending(p) \ D) \ {s}) = b - 1
      BY <3>1, <1>2, FS_RemoveElement
    <3> QED BY <3>1, <3>2, <2>6
  <2> QED BY <2>5, <2>6
<1>5. CASE \E s \in pending(p) : safeToOverwrite(p, s) /\ p.goal[s] # Empty
            /\ w = [kind |-> "place", slot |-> s, value |-> p.goal[s]]
  <2>1. PICK s \in pending(p) : safeToOverwrite(p, s) /\ p.goal[s] # Empty
            /\ w = [kind |-> "place", slot |-> s, value |-> p.goal[s]]
    BY <1>5
  <2>2. s \in D
    BY <2>1 DEF Extends, pending
  <2>3. placeable(p)
    BY <2>1 DEF placeable
  <2>4. a1 = a - 1 /\ b1 = b
    BY <1>4, <2>1, <2>2
  <2> HIDE DEF a, b, a1, b1, D
  <2> QED BY <1>2, <1>3, <2>3, <2>4 DEF D
<1>6. CASE \E s \in pending(p) : safeToOverwrite(p, s) /\ p.goal[s] = Empty
            /\ (\A t \in pending(p) : safeToOverwrite(p, t) => p.goal[t] = Empty)
            /\ w = [kind |-> "clear", slot |-> s, value |-> Empty]
  <2>1. PICK s \in pending(p) : safeToOverwrite(p, s) /\ p.goal[s] = Empty
            /\ (\A t \in pending(p) : safeToOverwrite(p, t) => p.goal[t] = Empty)
            /\ w = [kind |-> "clear", slot |-> s, value |-> Empty]
    BY <1>6
  <2>2. ~placeable(p)
    BY <2>1 DEF placeable
  <2>3. (a1 = a - 1 /\ b1 = b) \/ (a1 = a /\ b1 = b - 1)
    BY <1>4, <2>1
  <2> HIDE DEF a, b, a1, b1, D
  <2> QED BY <1>2, <1>3, <2>2, <2>3 DEF D
<1>7. CASE \E s \in Slot \ DOMAIN p.goal, c \in pending(p) :
            /\ \A t \in pending(p) : ~safeToOverwrite(p, t)
            /\ p.now[s] = Empty
            /\ p.goal[c] = Empty => \A t \in pending(p) : p.goal[t] = Empty
            /\ w = [kind |-> "scratch", slot |-> s, value |-> p.now[c]]
  <2>1. PICK s \in Slot \ DOMAIN p.goal, c \in pending(p) :
            /\ \A t \in pending(p) : ~safeToOverwrite(p, t)
            /\ p.now[s] = Empty
            /\ p.goal[c] = Empty => \A t \in pending(p) : p.goal[t] = Empty
            /\ w = [kind |-> "scratch", slot |-> s, value |-> p.now[c]]
    BY <1>7
  <2>2. ~placeable(p)
    BY <2>1 DEF placeable
  <2>3. c \in Slot /\ c \in DOMAIN p.goal /\ p.now[c] \in K /\ p.now[c] # Empty /\ p.now[c] # Unknown
        /\ s # c
    <3>1. c \in Slot /\ c \in DOMAIN p.goal
      BY <1>1 DEF pending
    <3>2. p.now[c] \in K
      BY <2>1, <3>1, UnsafeIsChannel
    <3> QED BY <3>1, <3>2, <2>1, ValueAssumption
  <2>4. q.goal = [t \in DOMAIN p.goal \cup {s} |-> IF t = s THEN Empty ELSE p.goal[t]]
    BY <2>1 DEF aimed, borrow
  <2>5. q.now[s] = p.now[c] /\ \A t \in Slot \ {s} : q.now[t] = p.now[t]
    BY <2>1 DEF put, Table
  <2>6. pending(q) = pending(p) \cup {s} /\ s \notin pending(p) /\ s \notin D
    <3>1. s \notin pending(p) /\ s \notin D
      BY <2>1 DEF pending, Extends
    <3>2. s \in pending(q)
      BY <2>3, <2>4, <2>5 DEF pending
    <3>3. \A t \in Slot \ {s} : t \in pending(q) <=> t \in pending(p)
      BY <2>4, <2>5 DEF pending
    <3> QED BY <3>1, <3>2, <3>3, <1>1 DEF pending
  <2>7. a1 = a /\ b1 = b + 1
    <3>1. pending(q) \cap D = pending(p) \cap D /\ pending(q) \ D = (pending(p) \ D) \cup {s}
          /\ s \notin pending(p) \ D
      BY <2>6
    <3>2. Cardinality((pending(p) \ D) \cup {s}) = b + 1
      BY <3>1, <1>2, FS_AddElement
    <3> QED BY <3>1, <3>2
  <2>8. p.goal[c] # Empty
    <3> SUFFICES ASSUME p.goal[c] = Empty PROVE FALSE
      OBVIOUS
    <3>1. copies(p, p.now[c]) <= 1 /\ wanted(p, p.now[c])
      <4>1. ~(copies(p, p.now[c]) > 1) /\ wanted(p, p.now[c])
        BY <2>1 DEF safeToOverwrite
      <4>2. copies(p, p.now[c]) \in Nat
        <5>1. IsFiniteSet({t \in Slot : p.now[t] = p.now[c]})
          BY SlotsFinite
        <5> QED BY <5>1, FS_CardinalityType DEF copies
      <4> QED BY <4>1, <4>2
    <3>2. PICK u \in DOMAIN p.goal : p.goal[u] = p.now[c]
      BY <3>1 DEF wanted
    <3>3. u \notin pending(p) /\ u \in Slot
      BY <3>2, <2>1, <2>3, <1>1
    <3>4. p.now[u] = p.now[c] /\ u # c
      BY <3>2, <3>3 DEF pending
    <3> DEFINE C == {t \in Slot : p.now[t] = p.now[c]}
    <3>5. IsFiniteSet(C) /\ {u, c} \subseteq C
      BY <3>3, <3>4, <2>3, SlotsFinite
    <3>6. Cardinality({u, c}) = 2
      <4>1. {u, c} = {u} \cup {c} /\ c \notin {u}
        BY <3>4
      <4>2. IsFiniteSet({u}) /\ Cardinality({u}) = 1
        BY FS_Singleton
      <4>3. Cardinality({u} \cup {c}) = 1 + 1
        BY <4>1, <4>2, FS_AddElement
      <4> QED BY <4>1, <4>3
    <3>7. Cardinality({u, c}) <= Cardinality(C) /\ Cardinality(C) \in Nat
      BY <3>5, FS_Subset, FS_CardinalityType
    <3> QED BY <3>1, <3>6, <3>7 DEF copies
  <2>9. placeable(q)
    <3>1. c \in pending(q) /\ q.goal[c] # Empty
      BY <2>3, <2>4, <2>6, <2>8
    <3> DEFINE C == {t \in Slot : q.now[t] = q.now[c]}
    <3>2. q.now[c] = p.now[c] /\ q.now[s] = p.now[c]
      BY <2>3, <2>5
    <3>5. IsFiniteSet(C) /\ {s, c} \subseteq C
      BY <3>2, <2>3, SlotsFinite
    <3>6. Cardinality({s, c}) = 2
      <4>1. {s, c} = {s} \cup {c} /\ c \notin {s}
        BY <2>3
      <4>2. IsFiniteSet({s}) /\ Cardinality({s}) = 1
        BY FS_Singleton
      <4>3. Cardinality({s} \cup {c}) = 1 + 1
        BY <4>1, <4>2, FS_AddElement
      <4> QED BY <4>1, <4>3
    <3>7. Cardinality({s, c}) <= Cardinality(C) /\ Cardinality(C) \in Nat
      BY <3>5, FS_Subset, FS_CardinalityType
    <3>8. copies(q, q.now[c]) > 1
      BY <3>6, <3>7 DEF copies
    <3> QED BY <3>1, <3>8 DEF placeable, safeToOverwrite
  <2> HIDE DEF a, b, a1, b1, D
  <2> QED BY <1>2, <1>3, <2>2, <2>7, <2>9 DEF D
<1> QED BY <1>5, <1>6, <1>7 DEF Doing

-------------------------------------------------------------------------------
\* The planner ends, and is sound.

\* A plan that is not finished.
Open == "PLAN_DID_NOT_CONVERGE"

\* The slots that are not in the goal are as they were; the borrowed ones were empty.
Untouched(c, now, goal) ==
    \A s \in Slot \ DOMAIN goal :
        /\ s \in DOMAIN c.goal => now[s] = Empty
        /\ s \notin DOMAIN c.goal => c.now[s] = now[s]

\* What holds of the planner's state after every turn.
Fit(c, now, goal, K) ==
    /\ IsPlan(c) /\ Table(c.now, K) /\ Aim(c.now, c.goal, K) /\ Extends(c, goal)
    /\ Leads(now, c.writes, c.now, K)
    /\ c.safe = TRUE /\ c.end \in {Open, "done", "NO_FREE_SLOT"}
    /\ Untouched(c, now, goal) /\ (c.end = "done" => pending(c) = {})

\* What i turns have taken off the burden.
Spent(c, i, now, goal) ==
    c.end = Open => Burden(c, DOMAIN goal) + i <= Burden(begun(now, goal), DOMAIN goal)

\* The planner's first state.
LEMMA BegunFits ==
    ASSUME NEW now, NEW goal, NEW K, Table(now, K), Aim(now, goal, K)
    PROVE  /\ Fit(begun(now, goal), now, goal, K)
           /\ Spent(begun(now, goal), 0, now, goal)
<1> DEFINE c == begun(now, goal)
<1>1. c.now = now /\ c.goal = goal /\ c.writes = <<>> /\ c.safe = TRUE /\ c.end = Open
  BY DEF begun, Open
<1>2. IsPlan(c)
  BY DEF IsPlan, begun
<1>3. Leads(now, <<>>, now, K)
  BY LeadsStart
<1>4. Extends(c, goal)
  BY <1>1 DEF Extends
<1>5. Burden(c, DOMAIN goal) \in Nat
  BY <1>1, BurdenNat DEF Aim
<1> HIDE DEF c
<1>6. Fit(c, now, goal, K)
  <2>1. Untouched(c, now, goal)
    BY <1>1 DEF Untouched
  <2>2. c.end # "done"
    BY <1>1 DEF Open
  <2> QED BY <1>1, <1>2, <1>3, <1>4, <2>1, <2>2 DEF Fit
<1>7. Spent(c, 0, now, goal)
  BY <1>5 DEF Spent, c
<1> QED BY <1>6, <1>7 DEF c

\* verifyPlan finds nothing missing while the slots hold every channel.
LEMMA KeepsHolds ==
    ASSUME NEW now, NEW goal, NEW e, NEW K, K \subseteq Channel, Table(now, K), Table(e, K)
    PROVE  keeps(now, goal, e) = TRUE
<1> SUFFICES ASSUME NEW s \in Slot, now[s] \in Channel
             PROVE  now[s] \in Range(e)
  BY DEF keeps
<1>1. now[s] \in K
  BY ValueAssumption DEF Table
<1> QED BY <1>1 DEF Table, Range

\* One turn of the planner's loop.
LEMMA TurnFits ==
    ASSUME NEW c, NEW now, NEW goal, NEW K, K \subseteq Channel, Table(now, K), NEW i \in Nat,
           Fit(c, now, goal, K), Spent(c, i, now, goal)
    PROVE  /\ Fit(turn(now, goal, c), now, goal, K)
           /\ Burden(begun(now, goal), DOMAIN goal) \in Nat
                => Spent(turn(now, goal, c), i + 1, now, goal)
<1> DEFINE w == NextWrite(c)
           d == turn(now, goal, c)
           D == DOMAIN goal
<1>1. d = IF c.end # Open THEN c
          ELSE IF w.kind \in {"done", "NO_FREE_SLOT"} THEN [c EXCEPT !.end = w.kind]
          ELSE [Advance(c, w) EXCEPT
                  !.writes = Append(@, [slot |-> w.slot, value |-> w.value]),
                  !.safe = @ /\ keeps(now, goal, Advance(c, w).now)]
  BY DEF turn, Open
<1>2. /\ IsPlan(c) /\ Table(c.now, K) /\ Aim(c.now, c.goal, K) /\ Extends(c, goal)
      /\ Leads(now, c.writes, c.now, K)
      /\ c.safe = TRUE /\ c.end \in {Open, "done", "NO_FREE_SLOT"}
      /\ DOMAIN c.goal \subseteq Slot /\ Untouched(c, now, goal)
  BY DEF Fit, Aim
<1>3. Doing(c, w)
  BY <1>2, NextWriteIs
<1>4. CASE c.end # Open
  BY <1>1, <1>4 DEF Spent
<1>5. CASE c.end = Open /\ w.kind \in {"done", "NO_FREE_SLOT"}
  <2>1. d = [c EXCEPT !.end = w.kind]
    BY <1>1, <1>5
  <2>2. c = [now |-> c.now, goal |-> c.goal, writes |-> c.writes, safe |-> c.safe, end |-> c.end]
    BY <1>2 DEF IsPlan
  <2> HIDE DEF d, w
  <2>3. d = [now |-> c.now, goal |-> c.goal, writes |-> c.writes, safe |-> c.safe, end |-> w.kind]
    BY <2>1, <2>2
  <2>4. /\ d.now = c.now /\ d.goal = c.goal /\ d.writes = c.writes /\ d.safe = c.safe
        /\ d.end = w.kind /\ IsPlan(d)
    BY <2>3 DEF IsPlan
  <2>5. Extends(d, goal)
    BY <1>2, <2>4 DEF Extends
  <2>6. Fit(d, now, goal, K)
    <3>1. Untouched(d, now, goal)
      BY <1>2, <2>4 DEF Untouched
    <3>2. w.kind = "done" => pending(c) = {}
      BY <1>3 DEF Doing
    <3>3. pending(d) = pending(c)
      BY <2>4 DEF pending
    <3> QED BY <1>2, <1>5, <2>4, <2>5, <3>1, <3>2, <3>3 DEF Fit
  <2>7. Spent(d, i + 1, now, goal)
    BY <1>5, <2>4 DEF Spent, Open
  <2> QED BY <2>6, <2>7 DEF d
<1>6. CASE c.end = Open /\ w.kind \notin {"done", "NO_FREE_SLOT"}
  <2> DEFINE e == put(c.now, w)
             g == aimed(c, w)
             x == [slot |-> w.slot, value |-> w.value]
             a == Advance(c, w)
  <2>1. a = [now |-> e, goal |-> g, writes |-> c.writes, safe |-> c.safe, end |-> c.end]
    BY <1>2, AdvanceIs
  <2>2. Spares(c.now, w, K) /\ Aim(e, g, K)
    BY <1>2, <1>3, <1>6, WriteSpares, AimKept
  <2>3. Table(e, K)
    BY <1>2, <2>2, TableKept
  <2>4. keeps(now, goal, e) = TRUE
    BY <2>3, KeepsHolds
  <2>5. Leads(now, Append(c.writes, x), e, K)
    BY <1>2, <2>2, LeadsOn
  <2>6. d = [a EXCEPT !.writes = Append(@, x), !.safe = @ /\ keeps(now, goal, a.now)]
    BY <1>1, <1>6
  <2> HIDE DEF d, w, e, g, x, a
  <2>7. d = [a EXCEPT !.writes = Append(c.writes, x), !.safe = TRUE]
    <3>1. a.now = e /\ a.writes = c.writes /\ a.safe = TRUE
      BY <2>1, <1>2
    <3> QED BY <2>6, <3>1, <2>4
  <2>8. d = [now |-> e, goal |-> g, writes |-> Append(c.writes, x), safe |-> TRUE, end |-> Open]
    <3> DEFINE a1 == [a EXCEPT !.writes = Append(c.writes, x)]
    <3>1. a1 = [now |-> e, goal |-> g, writes |-> Append(c.writes, x), safe |-> c.safe, end |-> c.end]
      BY <2>1, SMTT(30)
    <3>2. d = [a1 EXCEPT !.safe = TRUE]
      BY <2>7
    <3> HIDE DEF a1
    <3> QED BY <3>1, <3>2, <1>6
  <2>9. /\ d.now = e /\ d.goal = g /\ d.writes = Append(c.writes, x) /\ d.safe = TRUE
        /\ d.end = Open /\ IsPlan(d)
    BY <2>8 DEF IsPlan
  <2>10. Extends(d, goal)
    <3>1. CASE w.kind # "scratch"
      <4>1. d.goal = c.goal
        BY <2>9, <3>1 DEF g, aimed
      <4> QED BY <4>1, <1>2 DEF Extends
    <3>2. CASE w.kind = "scratch"
      <4>1. w.slot \notin DOMAIN c.goal
        BY <3>2, <1>3 DEF Doing
      <4>2. d.goal = [s \in DOMAIN c.goal \cup {w.slot} |->
                        IF s = w.slot THEN Empty ELSE c.goal[s]]
        BY <2>9, <3>2 DEF g, aimed, borrow
      <4> QED BY <4>1, <4>2, <1>2 DEF Extends
    <3> QED BY <3>1, <3>2
  <2>11. Fit(d, now, goal, K)
    <3>1. d.end # "done"
      BY <2>9 DEF Open
    <3>2. Untouched(d, now, goal)
      <4>1. ASSUME w.kind # "scratch"
            PROVE  Untouched(d, now, goal)
        <5>1. w.slot \in DOMAIN c.goal
          BY <4>1, <1>3, <1>6 DEF Doing, pending
        <5>2. \A s \in Slot \ DOMAIN c.goal : d.now[s] = c.now[s]
          BY <5>1, <1>2, <2>9 DEF e, put, Table
        <5>3. d.goal = c.goal
          BY <4>1, <2>9 DEF g, aimed
        <5> QED BY <5>2, <5>3, <1>2 DEF Untouched
      <4>2. ASSUME w.kind = "scratch"
            PROVE  Untouched(d, now, goal)
        <5>1. w.slot \in Slot \ DOMAIN c.goal /\ c.now[w.slot] = Empty
          BY <4>2, <1>3 DEF Doing
        <5>2. \A s \in Slot \ {w.slot} : d.now[s] = c.now[s]
          BY <1>2, <2>9 DEF e, put, Table
        <5>3. DOMAIN d.goal = DOMAIN c.goal \cup {w.slot}
          BY <4>2, <2>9 DEF g, aimed, borrow
        <5> QED BY <5>1, <5>2, <5>3, <1>2 DEF Untouched, Extends
      <4> QED BY <4>1, <4>2
    <3> QED BY <2>2, <2>3, <2>5, <2>9, <2>10, <3>1, <3>2 DEF Fit
  <2>12. Burden(d, D) < Burden(c, D)
    BY <1>2, <1>3, <1>6, <2>9, BurdenFalls DEF e, g
  <2>13. Burden(d, D) \in Nat /\ Burden(c, D) \in Nat
    <3>1. DOMAIN d.goal \subseteq Slot
      BY <2>11 DEF Fit, Aim
    <3> QED BY <3>1, <1>2, BurdenNat
  <2>14. ASSUME Burden(begun(now, goal), D) \in Nat
         PROVE  Spent(d, i + 1, now, goal)
    <3>1. Burden(c, D) + i <= Burden(begun(now, goal), D)
      BY <1>6 DEF Spent
    <3> HIDE DEF D
    <3>2. Burden(d, D) + (i + 1) <= Burden(begun(now, goal), D)
      BY <3>1, <2>12, <2>13, <2>14
    <3> QED BY <3>2 DEF Spent, D
  <2> QED BY <2>11, <2>14 DEF d
<1> QED BY <1>4, <1>5, <1>6, <1>2

\* The bound of the loop exceeds the burden the planner starts with.
LEMMA BurdenBounded ==
    ASSUME NEW now, NEW goal, DOMAIN goal \subseteq Slot
    PROVE  /\ limit(goal) \in Nat
           /\ Burden(begun(now, goal), DOMAIN goal) \in Nat
           /\ Burden(begun(now, goal), DOMAIN goal) < limit(goal)
<1> DEFINE D == DOMAIN goal
           p == begun(now, goal)
           n == Cardinality(D)
           a == Cardinality(pending(p) \cap D)
           b == Cardinality(pending(p) \ D)
<1>1. IsFiniteSet(D) /\ n \in Nat
  BY SlotsFinite, FS_CardinalityType
<1>2. p.goal = goal /\ pending(p) \subseteq D
  BY DEF begun, pending
<1>3. a \in Nat /\ a <= n
  <2>1. pending(p) \cap D \in SUBSET D
    OBVIOUS
  <2> QED BY <1>1, <1>2, <2>1, FS_Subset, FS_CardinalityType
<1>4. b = 0
  <2>1. pending(p) \ D = {}
    BY <1>2
  <2> QED BY <2>1, FS_EmptySet
<1>5. Burden(p, D) \in Nat
  BY <1>2, BurdenNat
<1>6. Burden(p, D) = 4 * a + b + (IF placeable(p) THEN 0 ELSE 2)
  BY DEF Burden
<1>7. limit(goal) = (n + 1) * 4 + 8
  BY DEF limit
<1> HIDE DEF n, a, b, D, p
<1>8. limit(goal) \in Nat
  BY <1>1, <1>7
<1>9. Burden(p, D) <= 4 * a + 2
  BY <1>3, <1>4, <1>6
<1>10. Burden(p, D) < limit(goal)
  BY <1>1, <1>3, <1>5, <1>7, <1>9
<1> QED BY <1>5, <1>8, <1>10 DEF p, D

\* The planner always ends, never refuses its own plan, and every write it plans
\* leaves a copy of each channel somewhere else.
LEMMA PlanFits ==
    ASSUME NEW now, NEW goal, NEW K, K \subseteq Channel, Table(now, K), Aim(now, goal, K)
    PROVE  LET p == Plan(now, goal)
           IN  Fit(p, now, goal, K) /\ p.end # Open
<1> DEFINE l == limit(goal)
           B == Burden(begun(now, goal), DOMAIN goal)
<1>1. DOMAIN goal \subseteq Slot
  BY DEF Aim
<1>2. l \in Nat /\ B \in Nat /\ B < l
  BY <1>1, BurdenBounded
<1>3. PICK f : Trail(f, now, goal, l)
  BY <1>2, TrailExists
<1> HIDE DEF l, B
<1> DEFINE Good(i) == \E c : f[i] = {c} /\ Fit(c, now, goal, K) /\ Spent(c, i, now, goal)
           T == {i \in 0 .. l : ~Good(i)}
<1>4. \A i \in 0 .. l : f[i] = IF i = 0 THEN {begun(now, goal)} ELSE turned(now, goal, f[i - 1])
  BY <1>3, <1>2 DEF Trail
<1>5. ASSUME T # {} PROVE FALSE
  <2>1. T \in SUBSET Nat
    OBVIOUS
  <2>2. PICK i \in T : \A j \in T : i <= j
    BY <1>5, <2>1, LeastExists
  <2>3. CASE i = 0
    <3>1. f[0] = {begun(now, goal)}
      BY <1>4, <1>2
    <3> QED BY <3>1, <2>2, <2>3, BegunFits
  <2>4. CASE i # 0
    <3>1. i - 1 \in 0 .. l /\ i - 1 \notin T /\ i - 1 \in Nat /\ (i - 1) + 1 = i
      <4>1. i \in 0 .. l /\ i \in Nat /\ i - 1 \in Nat /\ i - 1 \in 0 .. l /\ (i - 1) + 1 = i
        BY <2>2, <2>4, <1>2
      <4>2. ~(i <= i - 1)
        BY <4>1
      <4> QED BY <4>1, <4>2, <2>2
    <3>2. PICK c : f[i - 1] = {c} /\ Fit(c, now, goal, K) /\ Spent(c, i - 1, now, goal)
      BY <3>1
    <3>3. f[i] = {turn(now, goal, c)}
      <4>1. f[i] = turned(now, goal, {c})
        BY <1>4, <2>2, <2>4, <3>2
      <4> QED BY <4>1 DEF turned
    <3>4. Fit(turn(now, goal, c), now, goal, K) /\ Spent(turn(now, goal, c), (i - 1) + 1, now, goal)
      BY <3>1, <3>2, <1>2, TurnFits DEF B
    <3> QED BY <3>1, <3>3, <3>4, <2>2
  <2> QED BY <2>3, <2>4
<1>6. PICK c : f[l] = {c} /\ Fit(c, now, goal, K) /\ Spent(c, l, now, goal)
  BY <1>5, <1>2
<1>7. Plan(now, goal) = c
  <2>1. Plan(now, goal) = CHOOSE x \in f[l] : TRUE
    BY <1>2, <1>3, PlanUnfolded DEF l
  <2> QED BY <2>1, <1>6
<1>8. c.end # Open
  <2>1. Burden(c, DOMAIN goal) \in Nat
    BY <1>6, BurdenNat DEF Fit, Aim
  <2>2. c.end = Open => Burden(c, DOMAIN goal) + l <= B
    BY <1>6 DEF Spent, B
  <2> QED BY <2>1, <2>2, <1>2
<1> QED BY <1>6, <1>7, <1>8

\* planReorderWrites, verifyPlan: whatever the slots hold and wherever they are
\* to go, the planner ends within its bound, verifyPlan never refuses what it
\* planned, each write leaves a copy of every channel in another slot, and a plan
\* that is carried out leaves the goal where it names a slot and every other
\* slot as it was, the borrowed ones cleared.
THEOREM PlannerSound ==
    ASSUME NEW now, NEW goal, NEW K, K \subseteq Channel, Table(now, K), Aim(now, goal, K)
    PROVE  LET p == Plan(now, goal)
           IN  /\ p.end \in {"done", "NO_FREE_SLOT"} /\ p.safe
               /\ Leads(now, p.writes, p.now, K)
               /\ p.end = "done" =>
                    p.now = [s \in Slot |-> IF s \in DOMAIN goal THEN goal[s] ELSE now[s]]
<1> DEFINE p == Plan(now, goal)
<1>1. Fit(p, now, goal, K) /\ p.end # Open
  BY PlanFits
<1> HIDE DEF p
<1>2. ASSUME p.end = "done"
      PROVE  p.now = [s \in Slot |-> IF s \in DOMAIN goal THEN goal[s] ELSE now[s]]
  <2>1. /\ Table(p.now, K) /\ Extends(p, goal) /\ Untouched(p, now, goal) /\ pending(p) = {}
        /\ DOMAIN goal \subseteq Slot
    BY <1>1, <1>2 DEF Fit, Aim
  <2>2. \A s \in DOMAIN p.goal : p.now[s] = p.goal[s]
    BY <2>1 DEF pending
  <2>3. ASSUME NEW s \in Slot
        PROVE  p.now[s] = IF s \in DOMAIN goal THEN goal[s] ELSE now[s]
    <3>1. CASE s \in DOMAIN goal
      BY <2>1, <2>2, <3>1 DEF Extends
    <3>2. CASE s \in DOMAIN p.goal \ DOMAIN goal
      BY <2>1, <2>2, <3>2 DEF Extends, Untouched
    <3>3. CASE s \notin DOMAIN p.goal
      <4>1. s \notin DOMAIN goal
        BY <2>1, <3>3 DEF Extends
      <4> QED BY <2>1, <3>3, <4>1 DEF Untouched
    <3> QED BY <3>1, <3>2, <3>3
  <2> QED BY <2>1, <2>3 DEF Table
<1> QED BY <1>1, <1>2 DEF Fit, p

-------------------------------------------------------------------------------
\* Where an order puts the channels, and where it sends their rows.

\* The slots that are in use.
used(table) == {s \in Slot : table[s] # Empty}

\* An order of the used slots names each of them once, and fits the device.
LEMMA OrderIs ==
    ASSUME NEW table, NEW order \in SetToSeqs(used(table))
    PROVE  /\ order \in Seq(Slot) /\ Len(order) \in Nat /\ DOMAIN order = 1 .. Len(order)
           /\ DOMAIN order \subseteq Slot /\ ToSet(order) = used(table)
           /\ Cardinality(DOMAIN order) = Cardinality(used(table))
           /\ \A i, j \in DOMAIN order : i # j => order[i] # order[j]
<1> DEFINE U == used(table)
           n == Cardinality(U)
<1>1. U \subseteq Slot /\ IsFiniteSet(U)
  BY SlotsFinite DEF used
<1>2. n \in Nat
  BY <1>1, FS_CardinalityType
<1>3. order \in [1 .. n -> U] /\ \A i, j \in 1 .. n : i # j => order[i] # order[j]
  BY DEF SetToSeqs
<1> HIDE DEF U, n
<1>4. order \in Seq(Slot) /\ Len(order) = n /\ DOMAIN order = 1 .. n
  BY <1>1, <1>2, <1>3
<1>5. n <= LastSlot
  <2>1. Cardinality(U) <= Cardinality(Slot)
    BY <1>1, SlotsFinite, FS_Subset
  <2>2. Cardinality(Slot) = LastSlot
    BY SlotAssumption, FS_Interval DEF Slot
  <2> QED BY <2>1, <2>2 DEF n
<1>6. IsFiniteSet(1 .. n) /\ Cardinality(1 .. n) = n
  BY <1>2, FS_Interval
<1>7. order \in Injection(1 .. n, U)
  BY <1>3 DEF Injection, IsInjective
<1>8. order \in Surjection(1 .. n, U)
  <2>1. Cardinality(1 .. n) = Cardinality(U) <=> order \in Surjection(1 .. n, U)
    BY <1>1, <1>7, FS_Injection
  <2> QED BY <2>1, <1>6 DEF n
<1>9. ToSet(order) = U
  BY <1>8, <1>4, <1>3 DEF Surjection, ToSet
<1> QED BY <1>3, <1>4, <1>5, <1>6, <1>9, <1>2, SlotAssumption DEF U, n, Slot

\* The layout that is asked for holds the channels there were, and no others.
LEMMA LayoutIs ==
    ASSUME NEW table \in [Slot -> Value], NEW order \in SetToSeqs(used(table))
    PROVE  /\ Layout(table, order) \in [Slot -> Value]
           /\ Range(Layout(table, order)) \subseteq Range(table) \cup {Empty}
           /\ \A x \in Range(table) \cap Channel :
                \E k \in Slot : Layout(table, order)[k] = x
<1> DEFINE L == Layout(table, order)
<1>1. /\ Len(order) \in Nat /\ DOMAIN order = 1 .. Len(order) /\ DOMAIN order \subseteq Slot
      /\ ToSet(order) = used(table)
  BY OrderIs
<1>2. L = [s \in Slot |-> IF s <= Len(order) THEN table[order[s]] ELSE Empty]
  BY DEF Layout
<1>3. \A k \in DOMAIN order : order[k] \in Slot
  BY <1>1 DEF ToSet, used
<1>4. \A s \in Slot : s <= Len(order) <=> s \in DOMAIN order
  BY <1>1 DEF Slot
<1>5. \A s \in Slot : L[s] = IF s \in DOMAIN order THEN table[order[s]] ELSE Empty
  BY <1>2, <1>4
<1>6. \A s \in Slot : L[s] \in Value /\ L[s] \in Range(table) \cup {Empty}
  BY <1>5, <1>3 DEF Range, Value
<1>7. L \in [Slot -> Value]
  BY <1>2, <1>6
<1>8. ASSUME NEW x \in Range(table) \cap Channel
      PROVE  \E k \in Slot : L[k] = x
  <2>1. PICK s \in Slot : table[s] = x
    BY DEF Range
  <2>2. s \in ToSet(order)
    BY <2>1, <1>1, ValueAssumption DEF used
  <2>3. PICK k \in DOMAIN order : order[k] = s
    BY <2>2 DEF ToSet
  <2> QED BY <2>1, <2>3, <1>1, <1>5
<1>9. Range(L) \subseteq Range(table) \cup {Empty}
  BY <1>6, <1>7 DEF Range
<1> QED BY <1>7, <1>8, <1>9

\* How many slots of S come before s.
rankIn(S, s) == Cardinality({x \in S : x < s})

\* The ranks of the elements of a set of slots are all the numbers below its size.
LEMMA RankIs ==
    ASSUME NEW S \in SUBSET Slot, NEW n, n = Cardinality(S)
    PROVE  /\ n \in Nat
           /\ \A s \in S : rankIn(S, s) \in 0 .. (n - 1)
           /\ \A r \in 0 .. (n - 1) : \E s \in S : rankIn(S, s) = r
           /\ \A s, t \in S : rankIn(S, s) = rankIn(S, t) => s = t
<1>1. IsFiniteSet(S) /\ n \in Nat /\ S \subseteq Nat
  BY SlotsFinite, FS_CardinalityType
<1>2. ASSUME NEW s \in S
      PROVE  rankIn(S, s) \in 0 .. (n - 1)
  <2> DEFINE B == {x \in S : x < s}
  <2>1. B \in SUBSET (S \ {s}) /\ IsFiniteSet(S \ {s}) /\ Cardinality(S \ {s}) = n - 1
    <3>1. IsFiniteSet(S \ {s}) /\ Cardinality(S \ {s}) = n - 1
      BY <1>1, FS_RemoveElement
    <3>2. \A x \in B : x # s
      BY <1>1
    <3> QED BY <3>1, <3>2
  <2>2. IsFiniteSet(B) /\ Cardinality(B) <= n - 1
    BY <2>1, FS_Subset
  <2>3. Cardinality(B) \in Nat
    BY <2>2, FS_CardinalityType
  <2> QED BY <2>2, <2>3, <1>1 DEF rankIn
<1>3. ASSUME NEW s \in S, NEW t \in S, s < t
      PROVE  rankIn(S, s) < rankIn(S, t)
  <2> DEFINE B == {x \in S : x < s}
             C == {x \in S : x < t}
  <2>1. IsFiniteSet(C) /\ B \in SUBSET C /\ s \in C /\ s \notin B
    <3>1. \A x \in S : x \in Nat
      BY <1>1
    <3>2. C \in SUBSET S
      OBVIOUS
    <3>3. IsFiniteSet(C)
      BY <1>1, <3>2, FS_Subset
    <3> QED BY <3>1, <3>3, <1>3
  <2>2. Cardinality(B) <= Cardinality(C) /\ IsFiniteSet(B) /\ (Cardinality(C) = Cardinality(B) => C = B)
    BY <2>1, FS_Subset
  <2>3. Cardinality(B) \in Nat /\ Cardinality(C) \in Nat
    BY <2>1, <2>2, FS_CardinalityType
  <2>4. Cardinality(B) # Cardinality(C)
    BY <2>1, <2>2
  <2> HIDE DEF B, C
  <2>5. Cardinality(B) < Cardinality(C)
    BY <2>2, <2>3, <2>4
  <2> QED BY <2>5 DEF B, C, rankIn
<1> DEFINE f == [s \in S |-> rankIn(S, s)]
           R == 0 .. (n - 1)
<1>4. f \in Injection(S, R)
  <2>1. f \in [S -> R]
    BY <1>2
  <2>2. ASSUME NEW a \in S, NEW b \in S, f[a] = f[b]
        PROVE  a = b
    <3>1. a \in Nat /\ b \in Nat /\ rankIn(S, a) = rankIn(S, b) /\ rankIn(S, a) \in Int
      BY <1>1, <1>2, <2>2
    <3>2. ~(a < b) /\ ~(b < a)
      BY <3>1, <1>3
    <3> QED BY <3>1, <3>2
  <2>3. IsInjective(f)
    BY <2>2 DEF IsInjective
  <2> QED BY <2>1, <2>3 DEF Injection
<1>5. IsFiniteSet(R) /\ Cardinality(R) = n
  <2>1. n - 1 \in Int
    BY <1>1
  <2>2. /\ IsFiniteSet(0 .. (n - 1))
        /\ Cardinality(0 .. (n - 1)) = IF 0 > n - 1 THEN 0 ELSE (n - 1) - 0 + 1
    BY <2>1, FS_Interval
  <2> HIDE DEF R
  <2>3. (IF 0 > n - 1 THEN 0 ELSE (n - 1) - 0 + 1) = n
    BY <1>1
  <2> QED BY <2>2, <2>3 DEF R
<1> HIDE DEF f, R
<1>6. f \in Surjection(S, R)
  BY <1>4, <1>5, FS_Injection
<1>7. \A r \in R : \E s \in S : f[s] = r
  BY <1>6 DEF Surjection
<1>8. \A s, t \in S : f[s] = f[t] => s = t
  BY <1>4 DEF Injection, IsInjective
<1> QED BY <1>1, <1>2, <1>7, <1>8 DEF f, R

\* Where completeChannelMoves sends the rows of a slot.
LEMMA MovesIs ==
    ASSUME NEW table \in [Slot -> Value], NEW order \in SetToSeqs(used(table)), NEW s \in Slot
    PROVE  /\ Moves(order)[s] \in Slot
           /\ Layout(table, order)[Moves(order)[s]] = table[s]
<1> DEFINE V == ToSet(order) \ DOMAIN order
           F == DOMAIN order \ ToSet(order)
<1>1. /\ Len(order) \in Nat /\ DOMAIN order = 1 .. Len(order) /\ DOMAIN order \subseteq Slot
      /\ ToSet(order) = used(table) /\ Cardinality(DOMAIN order) = Cardinality(used(table))
  BY OrderIs
<1>2. Moves(order)[s] =
        IF s \in ToSet(order) THEN CHOOSE k \in DOMAIN order : order[k] = s
        ELSE IF s \in F
        THEN CHOOSE v \in V : Cardinality({x \in V : x < v}) = Cardinality({x \in F : x < s})
        ELSE s
  BY DEF Moves
<1>3. \A k \in Slot : Layout(table, order)[k] = IF k \in DOMAIN order THEN table[order[k]] ELSE Empty
  BY <1>1 DEF Layout, Slot
<1>4. CASE s \in ToSet(order)
  <2>1. \E k \in DOMAIN order : order[k] = s
    BY <1>4 DEF ToSet
  <2>2. Moves(order)[s] \in DOMAIN order /\ order[Moves(order)[s]] = s
    BY <2>1, <1>2, <1>4
  <2> QED BY <2>2, <1>1, <1>3
<1>5. CASE s \notin ToSet(order) /\ s \in F
  <2>1. Cardinality(V) = Cardinality(F) /\ V \in SUBSET Slot /\ F \in SUBSET Slot
    <3> DEFINE A == ToSet(order)
               B == DOMAIN order
    <3>1. A \in SUBSET Slot /\ B \in SUBSET Slot /\ IsFiniteSet(A) /\ IsFiniteSet(B)
          /\ Cardinality(A) = Cardinality(B)
      BY <1>1, SlotsFinite DEF used
    <3> HIDE DEF A, B
    <3>2. Cardinality(A \ B) = Cardinality(A) - Cardinality(A \cap B)
      BY <3>1, FS_Difference
    <3>3. Cardinality(B \ A) = Cardinality(B) - Cardinality(B \cap A)
      BY <3>1, FS_Difference
    <3>4. A \cap B = B \cap A
      OBVIOUS
    <3> QED BY <3>1, <3>2, <3>3, <3>4 DEF A, B
  <2> HIDE DEF V, F
  <2>2. rankIn(F, s) \in 0 .. (Cardinality(F) - 1)
    BY <2>1, <1>5, RankIs
  <2>3. \E v \in V : rankIn(V, v) = rankIn(F, s)
    BY <2>1, <2>2, RankIs
  <2>4. Moves(order)[s] = CHOOSE v \in V : rankIn(V, v) = rankIn(F, s)
    BY <1>2, <1>5 DEF rankIn
  <2>5. Moves(order)[s] \in V
    BY <2>3, <2>4
  <2>6. Moves(order)[s] \in Slot /\ Moves(order)[s] \notin DOMAIN order
    BY <2>1, <2>5 DEF V
  <2> QED BY <2>6, <1>1, <1>3, <1>5 DEF used
<1>6. CASE s \notin ToSet(order) /\ s \notin F
  <2>1. Moves(order)[s] = s /\ s \notin DOMAIN order
    BY <1>2, <1>6
  <2> QED BY <2>1, <1>1, <1>3, <1>6 DEF used
<1> QED BY <1>4, <1>5, <1>6

\* completeChannelMoves returns a permutation: every slot has rows sent to it.
LEMMA MovesOnto ==
    ASSUME NEW table \in [Slot -> Value], NEW order \in SetToSeqs(used(table)), NEW t \in Slot
    PROVE  \E s \in Slot : Moves(order)[s] = t
<1> DEFINE A == ToSet(order)
           B == DOMAIN order
           V == A \ B
           F == B \ A
<1>1. /\ A = used(table) /\ A \in SUBSET Slot /\ B \in SUBSET Slot
      /\ Cardinality(A) = Cardinality(B) /\ IsFiniteSet(A) /\ IsFiniteSet(B)
  <2>1. /\ ToSet(order) = used(table) /\ DOMAIN order \subseteq Slot
        /\ Cardinality(DOMAIN order) = Cardinality(used(table))
    BY OrderIs
  <2>2. used(table) \in SUBSET Slot
    BY DEF used
  <2> QED BY <2>1, <2>2, SlotsFinite
<1>2. \A s \in Slot : Moves(order)[s] =
        IF s \in A THEN CHOOSE k \in B : order[k] = s
        ELSE IF s \in F
        THEN CHOOSE v \in V : Cardinality({x \in V : x < v}) = Cardinality({x \in F : x < s})
        ELSE s
  BY DEF Moves
<1>3. CASE t \in B
  <2>1. order[t] \in A /\ \A k \in B : order[k] = order[t] => k = t
    <3>1. \A i, j \in DOMAIN order : i # j => order[i] # order[j]
      BY OrderIs
    <3> QED BY <1>3, <3>1 DEF ToSet
  <2>2. (CHOOSE k \in B : order[k] = order[t]) = t
    BY <1>3, <2>1
  <2>3. Moves(order)[order[t]] = t /\ order[t] \in Slot
    BY <1>1, <1>2, <2>1, <2>2
  <2> QED BY <2>3
<1>4. CASE t \in V
  <2>1. Cardinality(V) = Cardinality(F) /\ V \in SUBSET Slot /\ F \in SUBSET Slot
    <3> HIDE DEF A, B
    <3>2. Cardinality(A \ B) = Cardinality(A) - Cardinality(A \cap B)
      BY <1>1, FS_Difference
    <3>3. Cardinality(B \ A) = Cardinality(B) - Cardinality(B \cap A)
      BY <1>1, FS_Difference
    <3>4. A \cap B = B \cap A
      OBVIOUS
    <3> QED BY <1>1, <3>2, <3>3, <3>4
  <2>2. \A s \in F : Moves(order)[s] = CHOOSE v \in V : rankIn(V, v) = rankIn(F, s)
    BY <1>1, <1>2 DEF rankIn
  <2> HIDE DEF V, F
  <2>3. rankIn(V, t) \in 0 .. (Cardinality(F) - 1)
    BY <1>4, <2>1, RankIs
  <2>4. PICK s \in F : rankIn(F, s) = rankIn(V, t)
    BY <2>1, <2>3, RankIs
  <2>5. \A v \in V : rankIn(V, v) = rankIn(F, s) => v = t
    BY <1>4, <2>1, <2>4, RankIs
  <2>6. (CHOOSE v \in V : rankIn(V, v) = rankIn(F, s)) = t
    BY <1>4, <2>4, <2>5
  <2> QED BY <2>1, <2>2, <2>4, <2>6
<1>5. CASE t \notin B /\ t \notin V
  <2>1. Moves(order)[t] = t
    BY <1>2, <1>5
  <2> QED BY <2>1
<1> QED BY <1>3, <1>4, <1>5

\* The rows of the mirror that the remap transaction has moved make up a table.
LEMMA MovedIs ==
    ASSUME NEW table \in [Slot -> Value], NEW order \in SetToSeqs(used(table)),
           NEW rowsOf \in [Slot -> Value]
    PROVE  moved(rowsOf, Moves(order)) \in [Slot -> Value]
<1>1. ASSUME NEW t \in Slot
      PROVE  rowsOf[CHOOSE s \in Slot : Moves(order)[s] = t] \in Value
  BY MovesOnto
<1> QED BY <1>1 DEF moved

-------------------------------------------------------------------------------
\* The job: what it knows of the device, and what it may write.

\* A write; the steps of a job that has planned; such a job; one that reads.
AnyWrite == [slot : Slot, value : Value]
Plans == {"writing", "confirming", "remapping", "committed", "undoing", "checking"}
PlannedJob == [pc : Plans, order : Seq(Slot), original : [Slot -> Value],
               believed : [Slot -> Value \cup {Unknown}], todo : Seq(AnyWrite),
               tries : {0, 1}, failed : BOOLEAN]
Reading == [pc |-> "reading"]

\* The channels a device has.
channelsOf(dev) == Range(dev) \cap Channel
\* No write on the link is for slot t.
Quiet(wr, t) == \A i \in DOMAIN wr : wr[i].slot # t

\* Every channel has a copy that no write on the link is about to hit.
Spared(dev, wr) ==
    /\ wr \in Seq(Write(channelsOf(dev)))
    /\ \A x \in channelsOf(dev) : \E t \in Slot : dev[t] = x /\ Quiet(wr, t)

\* What b says of the slots in S is true and stays true.
Mirrors(b, dev, wr, S) ==
    \A t \in S : b[t] = Unknown \/ (b[t] = dev[t] /\ Quiet(wr, t))

\* A job that waits for its write: what it believes of the other slots is true, they
\* hold every channel, and the writes that are left spare every channel too.
Writing(j, dev, wr) ==
    LET w == Head(j.todo)
    IN  /\ j.todo # <<>> /\ w \in Write(channelsOf(dev))
        /\ Mirrors(j.believed, dev, wr, Slot \ {w.slot})
        /\ j.believed[w.slot] = w.value
        /\ \A x \in channelsOf(dev) : \E t \in Slot \ {w.slot} : j.believed[t] = x
        /\ \E e : Leads(j.believed, Tail(j.todo), e, channelsOf(dev))

\* A job that has made its last write: it knows every channel's slot.
Written(j, dev, wr) ==
    /\ wr = <<>> /\ Mirrors(j.believed, dev, wr, Slot)
    /\ Table(j.believed, channelsOf(dev))

\* A job that has planned.
Running(j, dev, wr) ==
    /\ j \in PlannedJob /\ channelsOf(j.original) = channelsOf(dev)
    /\ j.order \in SetToSeqs(used(j.original))
    /\ j.pc \in {"writing", "undoing"} => Writing(j, dev, wr)
    /\ j.pc \in {"confirming", "remapping", "committed"} => Written(j, dev, wr)
    /\ j.pc \in {"remapping", "committed"} => dev = Layout(j.original, j.order)

\* A job.
JobOK(j, dev, wr) == j = Idle \/ j = Reading \/ Running(j, dev, wr)

DevOK(dev) == dev \in [Slot -> Value]

\* A device holds its channels.
LEMMA DeviceTable ==
    ASSUME NEW dev, DevOK(dev)
    PROVE  Table(dev, channelsOf(dev))
BY DEF DevOK, Table, channelsOf, Range, Value

\* What is known for certain is nothing but channels of the device.
LEMMA MirrorTable ==
    ASSUME NEW b, NEW dev, NEW wr, DevOK(dev), Mirrors(b, dev, wr, Slot), b \in [Slot -> Value \cup {Unknown}]
    PROVE  b \in [Slot -> channelsOf(dev) \cup {Empty, Unknown}]
BY DeviceTable DEF Mirrors, Table

\* A job that knows the device sends the next of its writes.
Issues(dev, wr, j, j1, wr1) ==
    /\ j \in PlannedJob /\ Mirrors(j.believed, dev, wr, Slot) /\ j.todo # <<>>
    /\ \E e : Leads(j.believed, j.todo, e, channelsOf(dev))
    /\ j1 = [j EXCEPT !.believed = put(@, Head(j.todo))] /\ wr1 = Append(wr, Head(j.todo))

\* What it is then like.
Issued(dev, j, j1, wr1) ==
    /\ j1 \in PlannedJob /\ Writing(j1, dev, wr1) /\ Spared(dev, wr1)
    /\ \A f \in {"pc", "order", "original", "todo", "tries", "failed"} : j1[f] = j[f]

\* Writing the next of the planned writes.
LEMMA IssueKeeps ==
    ASSUME NEW dev, NEW wr, NEW j, NEW j1, NEW wr1, DevOK(dev), Spared(dev, wr),
           Issues(dev, wr, j, j1, wr1)
    PROVE  Issued(dev, j, j1, wr1)
<1>a. /\ j \in PlannedJob /\ Mirrors(j.believed, dev, wr, Slot) /\ j.todo # <<>>
      /\ j1 = [j EXCEPT !.believed = put(@, Head(j.todo))] /\ wr1 = Append(wr, Head(j.todo))
  BY DEF Issues
<1>b. PICK e : Leads(j.believed, j.todo, e, channelsOf(dev))
  BY DEF Issues
<1> DEFINE K == channelsOf(dev)
           w == Head(j.todo)
           b == j.believed
<1>1. w \in Write(K) /\ Spares(b, w, K) /\ Leads(put(b, w), Tail(j.todo), e, K)
  BY <1>a, <1>b, LeadsHead
<1>2. w \in AnyWrite /\ K \subseteq Channel
  BY <1>1 DEF Write, AnyWrite, channelsOf, Value
<1>3. w.slot \in Slot /\ w.value \in Value /\ w.value \in K \cup {Empty}
  BY <1>1, <1>2 DEF Write, AnyWrite
<1>4. b \in [Slot -> Value \cup {Unknown}]
  BY <1>a DEF PlannedJob
<1>5. put(b, w) \in [Slot -> Value \cup {Unknown}]
  BY <1>3, <1>4 DEF put
<1>6. /\ j1 \in PlannedJob /\ j1.believed = put(b, w)
      /\ \A f \in {"pc", "order", "original", "todo", "tries", "failed"} : j1[f] = j[f]
  <2> HIDE DEF w, b
  <2>1. j1 = [j EXCEPT !.believed = put(b, w)]
    BY <1>a DEF w, b
  <2>2. j1.believed = put(b, w)
    BY <1>a, <2>1 DEF PlannedJob
  <2>3. \A f \in {"pc", "order", "original", "todo", "tries", "failed"} : j1[f] = j[f]
    BY <1>a, <2>1 DEF PlannedJob
  <2>4. j1 \in PlannedJob
    BY <1>a, <2>1, <1>5 DEF PlannedJob
  <2> QED BY <2>2, <2>3, <2>4
<1>7. /\ wr \in Seq(Write(K)) /\ wr1 \in Seq(Write(K)) /\ DOMAIN wr1 = 1 .. (Len(wr) + 1)
      /\ Len(wr) \in Nat /\ wr1[Len(wr) + 1] = w /\ \A i \in 1 .. Len(wr) : wr1[i] = wr[i]
      /\ DOMAIN wr = 1 .. Len(wr)
  <2>1. wr \in Seq(Write(K))
    BY DEF Spared
  <2> HIDE DEF w, K
  <2> QED BY <1>a, <2>1, <1>1 DEF w
<1>8. ASSUME NEW t \in Slot \ {w.slot}, Quiet(wr, t)
      PROVE  Quiet(wr1, t)
  <2> HIDE DEF w
  <2> QED BY <1>7, <1>8 DEF Quiet
<1>9. \A t \in Slot \ {w.slot} : put(b, w)[t] = b[t]
  BY <1>4 DEF put
<1>10. Mirrors(put(b, w), dev, wr1, Slot \ {w.slot})
  BY <1>a, <1>8, <1>9 DEF Mirrors
<1>11. ASSUME NEW x \in K
       PROVE  \E t \in Slot \ {w.slot} : b[t] = x
  BY <1>1 DEF Spares
<1>12. Writing(j1, dev, wr1)
  <2>1. j1.todo = j.todo
    BY <1>6
  <2>2. put(b, w)[w.slot] = w.value
    BY <1>3, <1>4 DEF put
  <2>3. \A x \in K : \E t \in Slot \ {w.slot} : put(b, w)[t] = x
    BY <1>9, <1>11
  <2> QED BY <1>a, <1>1, <1>6, <1>10, <2>1, <2>2, <2>3 DEF Writing
<1>13. Spared(dev, wr1)
  <2>1. ASSUME NEW x \in K
        PROVE  \E t \in Slot : dev[t] = x /\ Quiet(wr1, t)
    <3>1. PICK t \in Slot \ {w.slot} : b[t] = x
      BY <1>11
    <3>2. x # Unknown
      BY <1>2, ValueAssumption
    <3>3. dev[t] = x /\ Quiet(wr, t)
      BY <1>a, <3>1, <3>2 DEF Mirrors
    <3> QED BY <3>3, <1>8
  <2> QED BY <2>1, <1>7 DEF Spared
<1> QED BY <1>6, <1>12, <1>13 DEF Issued

\* A job sends its write again.
Repeats(wr, j, j1, wr1) ==
    j1.believed = j.believed /\ j1.todo = j.todo /\ wr1 = Append(wr, Head(j.todo))

\* What it is then like.
Repeated(dev, j1, wr1) == Writing(j1, dev, wr1) /\ Spared(dev, wr1)

\* Writing the same once more.
LEMMA ReissueKeeps ==
    ASSUME NEW dev, NEW wr, NEW j, NEW j1, NEW wr1, DevOK(dev), Spared(dev, wr),
           Writing(j, dev, wr), Repeats(wr, j, j1, wr1)
    PROVE  Repeated(dev, j1, wr1)
<1> DEFINE K == channelsOf(dev)
           w == Head(j.todo)
           b == j.believed
<1>1. w \in Write(K)
  BY DEF Writing
<1>2. K \subseteq Channel
  BY DEF channelsOf
<1>7. /\ wr \in Seq(Write(K)) /\ wr1 \in Seq(Write(K)) /\ DOMAIN wr1 = 1 .. (Len(wr) + 1)
      /\ Len(wr) \in Nat /\ wr1[Len(wr) + 1] = w /\ \A i \in 1 .. Len(wr) : wr1[i] = wr[i]
      /\ DOMAIN wr = 1 .. Len(wr)
  <2>1. wr \in Seq(Write(K))
    BY DEF Spared
  <2> HIDE DEF w, K
  <2> QED BY <2>1, <1>1 DEF w, Repeats
<1>8. ASSUME NEW t \in Slot \ {w.slot}, Quiet(wr, t)
      PROVE  Quiet(wr1, t)
  <2> HIDE DEF w
  <2> QED BY <1>7, <1>8 DEF Quiet
<1>9. Mirrors(b, dev, wr, Slot \ {w.slot}) /\ \A x \in K : \E t \in Slot \ {w.slot} : b[t] = x
  BY DEF Writing
<1>10. Mirrors(b, dev, wr1, Slot \ {w.slot})
  BY <1>8, <1>9 DEF Mirrors
<1>12. Writing(j1, dev, wr1)
  BY <1>10 DEF Writing, Repeats
<1>13. Spared(dev, wr1)
  <2>1. ASSUME NEW x \in K
        PROVE  \E t \in Slot : dev[t] = x /\ Quiet(wr1, t)
    <3>1. PICK t \in Slot \ {w.slot} : b[t] = x
      BY <1>9
    <3>2. x # Unknown
      BY <1>2, ValueAssumption
    <3>3. dev[t] = x /\ Quiet(wr, t)
      BY <3>1, <3>2, <1>9 DEF Mirrors
    <3> QED BY <3>3, <1>8
  <2> QED BY <2>1, <1>7 DEF Spared
<1> QED BY <1>12, <1>13 DEF Repeated

-------------------------------------------------------------------------------
\* A rollback.

\* A job goes on, to the same end.
Keeps(j, wr) ==
    /\ Running(j, device, wr) /\ Spared(device, wr)
    /\ j.original = job.original /\ j.order = job.order

\* The slots that differ from the layout to be restored can be given it back.
LEMMA RestoreAims ==
    ASSUME NEW original \in [Slot -> Value], NEW b, NEW K, Table(b, K),
           K = channelsOf(original)
    PROVE  Aim(b, [s \in {t \in Slot : b[t] # original[t]} |-> original[s]], K)
<1> DEFINE D == {t \in Slot : b[t] # original[t]}
           g == [s \in D |-> original[s]]
<1>1. DOMAIN g = D /\ D \subseteq Slot
  OBVIOUS
<1>2. \A s \in D : g[s] = original[s] /\ original[s] \in K \cup {Empty}
  BY DEF channelsOf, Range, Value
<1>3. ASSUME NEW x \in K
      PROVE  \/ \E s \in D : g[s] = x
             \/ \E t \in Slot \ D : b[t] = x
  <2>1. PICK s \in Slot : original[s] = x
    BY DEF channelsOf, Range
  <2> QED BY <2>1
<1>4. g \in [DOMAIN g -> K \cup {Empty}]
  BY <1>2
<1> HIDE DEF g
<1> QED BY <1>1, <1>3, <1>4 DEF Aim, g

\* The writes of a plan are writes.
LEMMA WritesAreWrites ==
    ASSUME NEW K, K \subseteq Channel, NEW ws \in Seq(Write(K))
    PROVE  ws \in Seq(AnyWrite)
<1>1. Write(K) \subseteq AnyWrite
  BY DEF Write, AnyWrite, Value
<1> QED BY <1>1

\* A rollback may start from whatever is known for certain, as long as that
\* includes every channel.
LEMMA RollbackKeeps ==
    ASSUME DevOK(device), Spared(device, wire), Running(job, device, wire),
           NEW b \in [Slot -> Value \cup {Unknown}],
           Mirrors(b, device, wire, Slot),
           \A x \in channelsOf(device) : \E t \in Slot : b[t] = x,
           rollbackChannelReorder(b)
    PROVE  Keeps(job', wire') /\ job'.pc \in {"undoing", "checking"}
<1> DEFINE K == channelsOf(device)
           D == {s \in Slot : b[s] # job.original[s]}
           g == [s \in D |-> job.original[s]]
           p == Plan(b, g)
           j == [job EXCEPT !.pc = "undoing", !.believed = b, !.todo = p.writes, !.tries = 0]
<1>1. /\ job \in PlannedJob /\ job.original \in [Slot -> Value] /\ K = channelsOf(job.original)
      /\ K \subseteq Channel /\ job.order \in SetToSeqs(used(job.original))
  BY DEF Running, PlannedJob, channelsOf
<1>2. Table(b, K)
  BY MirrorTable DEF Table
<1>3. Aim(b, g, K)
  BY <1>1, <1>2, RestoreAims
<1>4. Fit(p, b, g, K)
  BY <1>1, <1>2, <1>3, PlanFits
<1>5. Leads(b, p.writes, p.now, K) /\ p.writes \in Seq(Write(K))
  BY <1>4 DEF Fit, Leads
<1>6. p.writes \in Seq(AnyWrite)
  BY <1>1, <1>5, WritesAreWrites
<1>7. IF p.writes = <<>> \/ p.end # "done"
      THEN /\ job' = [j EXCEPT !.pc = "checking", !.failed = p.end # "done"]
           /\ UNCHANGED wire
      ELSE issue(j)
  <2>1. undo(b, D)
    BY DEF rollbackChannelReorder
  <2> QED BY <2>1 DEF undo
<1> HIDE DEF p, g, D, K
<1>8. /\ j \in PlannedJob /\ j.original = job.original /\ j.order = job.order
      /\ j.believed = b /\ j.todo = p.writes /\ j.pc = "undoing"
  <2>1. "undoing" \in Plans /\ 0 \in {0, 1}
    BY DEF Plans
  <2>2. j \in PlannedJob
    BY <1>1, <1>6, <2>1 DEF PlannedJob
  <2>3. /\ j.original = job.original /\ j.order = job.order
        /\ j.believed = b /\ j.todo = p.writes /\ j.pc = "undoing"
    BY <1>1 DEF PlannedJob
  <2> QED BY <2>2, <2>3
<1> HIDE DEF j
<1>9. CASE p.writes = <<>> \/ p.end # "done"
  <2> DEFINE j1 == [j EXCEPT !.pc = "checking", !.failed = p.end # "done"]
  <2>1. job' = j1 /\ wire' = wire
    BY <1>7, <1>9
  <2>2. (p.end # "done") \in BOOLEAN /\ "checking" \in Plans
    BY DEF Plans
  <2>3. j1 \in PlannedJob
    BY <1>8, <2>2 DEF PlannedJob
  <2>4. j1.original = job.original /\ j1.order = job.order /\ j1.pc = "checking"
    BY <1>8 DEF PlannedJob
  <2> HIDE DEF j1
  <2>5. Running(j1, device, wire)
    BY <1>1, <2>3, <2>4 DEF Running, K
  <2> QED BY <2>1, <2>4, <2>5 DEF Keeps
<1>10. CASE p.writes # <<>> /\ p.end = "done"
  <2>1. job' = [j EXCEPT !.believed = put(@, Head(j.todo))] /\ wire' = Append(wire, Head(j.todo))
    BY <1>7, <1>10 DEF issue, put
  <2>2. /\ job' \in PlannedJob /\ Writing(job', device, wire') /\ Spared(device, wire')
        /\ \A f \in {"pc", "order", "original", "todo", "tries", "failed"} : job'[f] = j[f]
    <3>1. /\ Mirrors(j.believed, device, wire, Slot) /\ j.todo # <<>>
          /\ Leads(j.believed, j.todo, p.now, channelsOf(device))
      BY <1>5, <1>8, <1>10 DEF K
    <3>2. Issues(device, wire, j, job', wire')
      BY <3>1, <1>8, <2>1 DEF Issues
    <3>3. Issued(device, j, job', wire')
      BY <3>2, IssueKeeps
    <3> QED BY <3>3 DEF Issued
  <2>3. job'.pc = "undoing" /\ job'.order = job.order /\ job'.original = job.original
    BY <1>8, <2>2
  <2>4. Running(job', device, wire')
    BY <1>1, <2>2, <2>3 DEF Running, K
  <2> QED BY <2>2, <2>3, <2>4 DEF Keeps
<1> QED BY <1>9, <1>10

-------------------------------------------------------------------------------
\* The state of a job.

\* The device, the link and the job.
Core == DevOK(device) /\ Spared(device, wire) /\ JobOK(job, device, wire)

\* A job whose pc is past the reading has the shape of one.
LEMMA PlannedIsRunning ==
    ASSUME Core, job.pc \notin {"idle", "reading"}
    PROVE  Running(job, device, wire) /\ job \in PlannedJob /\ planned
BY DEF Core, JobOK, Idle, Reading, Running, planned, running

\* writeAndVerify: the read-back shows the value, and the job goes on to the next write.
LEMMA VerifiedKeeps ==
    ASSUME Core, WriteVerified
    PROVE  /\ Keeps(job', wire')
           /\ job'.pc \in {"writing", "undoing", "confirming", "checking"}
<1> DEFINE K == channelsOf(device)
           j == [job EXCEPT !.todo = Tail(@), !.tries = 0]
<1>1. Running(job, device, wire) /\ job \in PlannedJob /\ job.pc \in {"writing", "undoing"}
  BY PlannedIsRunning DEF WriteVerified, writing
<1>2. Writing(job, device, wire) /\ wire = <<>> /\ device[current.slot] = current.value
  BY <1>1 DEF WriteVerified, Running
<1>3. IF j.todo = <<>>
      THEN /\ job' = [j EXCEPT !.pc = IF @ = "writing" THEN "confirming" ELSE "checking"]
           /\ UNCHANGED wire
      ELSE issue(j)
  BY DEF WriteVerified
<1>4. /\ job.todo # <<>> /\ current \in Write(K)
      /\ Mirrors(job.believed, device, wire, Slot \ {current.slot})
      /\ job.believed[current.slot] = current.value
      /\ \A x \in K : \E t \in Slot \ {current.slot} : job.believed[t] = x
      /\ \E e : Leads(job.believed, Tail(job.todo), e, K)
  BY <1>2 DEF Writing, current
<1>5. Mirrors(job.believed, device, wire, Slot)
  BY <1>2, <1>4 DEF Mirrors, Quiet
<1>6. Tail(job.todo) \in Seq(AnyWrite)
  BY <1>1, <1>4 DEF PlannedJob
<1>7. /\ j \in PlannedJob /\ j.original = job.original /\ j.order = job.order /\ j.pc = job.pc
      /\ j.believed = job.believed /\ j.todo = Tail(job.todo)
  <2>1. 0 \in {0, 1}
    OBVIOUS
  <2> QED BY <1>1, <1>6, <2>1 DEF PlannedJob
<1> HIDE DEF j, K
<1>8. channelsOf(job.original) = channelsOf(device) /\ job.order \in SetToSeqs(used(job.original))
  BY <1>1 DEF Running
<1>9. CASE j.todo = <<>>
  <2> DEFINE pc1 == IF j.pc = "writing" THEN "confirming" ELSE "checking"
  <2>1. job' = [j EXCEPT !.pc = pc1] /\ wire' = wire
    BY <1>3, <1>9
  <2>2. pc1 \in {"confirming", "checking"} /\ pc1 \in Plans
    BY DEF Plans
  <2> HIDE DEF pc1
  <2>3. /\ job' \in PlannedJob /\ job'.pc = pc1 /\ job'.original = j.original
        /\ job'.order = j.order /\ job'.believed = j.believed
    BY <1>7, <2>1, <2>2 DEF PlannedJob
  <2>4. Table(job.believed, K)
    <3>1. job.believed \in [Slot -> Value \cup {Unknown}]
      BY <1>1 DEF PlannedJob
    <3>2. job.believed \in [Slot -> K \cup {Empty, Unknown}]
      BY <3>1, <1>5, MirrorTable DEF Core, K
    <3> QED BY <3>2, <1>4 DEF Table
  <2>5. Written(job', device, wire')
    BY <1>2, <1>5, <1>7, <2>1, <2>3, <2>4 DEF Written, K
  <2>6. Running(job', device, wire')
    BY <1>7, <1>8, <2>2, <2>3, <2>5 DEF Running
  <2> QED BY <1>7, <2>1, <2>2, <2>3, <2>6 DEF Keeps, Core
<1>10. CASE j.todo # <<>>
  <2>1. job' = [j EXCEPT !.believed = put(@, Head(j.todo))] /\ wire' = Append(wire, Head(j.todo))
    BY <1>3, <1>10 DEF issue, put
  <2>2. Issues(device, wire, j, job', wire')
    BY <1>4, <1>5, <1>7, <1>10, <2>1 DEF Issues, K
  <2>3. Issued(device, j, job', wire')
    BY <2>2, IssueKeeps DEF Core
  <2>4. /\ job' \in PlannedJob /\ job'.pc = job.pc /\ job'.order = job.order
        /\ job'.original = job.original
        /\ Writing(job', device, wire') /\ Spared(device, wire')
    BY <2>3, <1>7 DEF Issued
  <2>5. Running(job', device, wire')
    BY <1>1, <1>8, <2>4 DEF Running
  <2> QED BY <1>1, <2>4, <2>5 DEF Keeps
<1> QED BY <1>9, <1>10

\* writeAndVerify: an attempt fails, so the write is sent again, or the job undoes what it
\* wrote, or it gives up the rollback.
LEMMA AttemptKeeps ==
    ASSUME Core, job.pc \in {"writing", "undoing"}, NEW v \in Value \cup {Unknown},
           v = Unknown \/ (wire = <<>> /\ v = device[current.slot]), attemptFails(v)
    PROVE  /\ Keeps(job', wire')
           /\ job'.pc \in {"writing", "undoing", "checking"}
<1> DEFINE K == channelsOf(device)
           b == [job.believed EXCEPT ![current.slot] = v]
<1>1. /\ Running(job, device, wire) /\ job \in PlannedJob
      /\ DevOK(device) /\ Spared(device, wire)
  BY PlannedIsRunning DEF Core
<1>2. Writing(job, device, wire)
  BY <1>1 DEF Running
<1>3. /\ job.todo # <<>> /\ current \in Write(K)
      /\ Mirrors(job.believed, device, wire, Slot \ {current.slot})
      /\ job.believed[current.slot] = current.value
      /\ \A x \in K : \E t \in Slot \ {current.slot} : job.believed[t] = x
  BY <1>2 DEF Writing, current
<1>4. channelsOf(job.original) = channelsOf(device) /\ job.order \in SetToSeqs(used(job.original))
  BY <1>1 DEF Running
<1>5. job.believed \in [Slot -> Value \cup {Unknown}] /\ current.slot \in Slot
  BY <1>1, <1>3 DEF PlannedJob, Write
<1>6. /\ b \in [Slot -> Value \cup {Unknown}] /\ b[current.slot] = v
      /\ \A t \in Slot \ {current.slot} : b[t] = job.believed[t]
  BY <1>5
<1>7. IF job.tries = 0 THEN issue([job EXCEPT !.tries = 1])
      ELSE IF job.pc = "writing" THEN rollbackChannelReorder(b)
      ELSE /\ job' = [job EXCEPT !.pc = "checking", !.believed = b, !.failed = TRUE]
           /\ UNCHANGED wire
  BY DEF attemptFails
<1> HIDE DEF b, K
<1>8. CASE job.tries = 0
  <2> DEFINE j == [job EXCEPT !.tries = 1]
  <2>1. job' = [j EXCEPT !.believed[Head(j.todo).slot] = Head(j.todo).value]
        /\ wire' = Append(wire, Head(j.todo))
    BY <1>7, <1>8 DEF issue
  <2>2. /\ j \in PlannedJob /\ j.todo = job.todo /\ j.believed = job.believed /\ j.pc = job.pc
        /\ j.order = job.order /\ j.original = job.original
    BY <1>1 DEF PlannedJob
  <2> HIDE DEF j
  <2>3. [j.believed EXCEPT ![Head(j.todo).slot] = Head(j.todo).value] = j.believed
    BY <1>3, <1>5, <2>2 DEF current
  <2>4. job' = j
    <3>1. job' = [j EXCEPT !.believed = j.believed]
      BY <2>1, <2>3
    <3> QED BY <3>1, <2>2 DEF PlannedJob
  <2>5. wire' = Append(wire, Head(job.todo))
    BY <2>1, <2>2
  <2>6. Writing(job', device, wire') /\ Spared(device, wire')
    <3>1. Repeats(wire, job, job', wire')
      BY <2>2, <2>4, <2>5 DEF Repeats
    <3>2. Repeated(device, job', wire')
      BY <1>1, <1>2, <3>1, ReissueKeeps
    <3> QED BY <3>2 DEF Repeated
  <2>7. Running(job', device, wire')
    BY <1>4, <2>2, <2>4, <2>6 DEF Running
  <2> QED BY <2>2, <2>4, <2>6, <2>7 DEF Keeps
<1>9. CASE job.tries # 0 /\ job.pc = "writing"
  <2>1. rollbackChannelReorder(b)
    BY <1>7, <1>9
  <2>2. Mirrors(b, device, wire, Slot)
    <3>1. b[current.slot] = Unknown \/ (b[current.slot] = device[current.slot] /\ Quiet(wire, current.slot))
      BY <1>6 DEF Quiet
    <3> QED BY <1>3, <1>6, <3>1 DEF Mirrors
  <2>3. \A x \in channelsOf(device) : \E t \in Slot : b[t] = x
    BY <1>3, <1>6 DEF K
  <2> QED BY <1>1, <1>6, <2>1, <2>2, <2>3, RollbackKeeps
<1>10. CASE job.tries # 0 /\ job.pc # "writing"
  <2>1. job' = [job EXCEPT !.pc = "checking", !.believed = b, !.failed = TRUE] /\ wire' = wire
    BY <1>7, <1>10
  <2>2. "checking" \in Plans /\ TRUE \in BOOLEAN
    BY DEF Plans
  <2>3. job' \in PlannedJob
    BY <1>1, <1>6, <2>1, <2>2 DEF PlannedJob
  <2>4. job'.pc = "checking" /\ job'.original = job.original /\ job'.order = job.order
    BY <1>1, <2>1 DEF PlannedJob
  <2>5. Running(job', device, wire')
    BY <1>4, <2>3, <2>4 DEF Running
  <2> QED BY <1>1, <2>1, <2>4, <2>5 DEF Keeps
<1> QED BY <1>8, <1>9, <1>10

-------------------------------------------------------------------------------
\* The link, and the steps after the last write.

\* The write at the head of the link is carried out, or is lost.
LEMMA LandingKeeps ==
    ASSUME NEW dev, NEW wr, NEW dev1, DevOK(dev), Spared(dev, wr), wr # <<>>,
           dev1 = [dev EXCEPT ![Head(wr).slot] = Head(wr).value] \/ dev1 = dev
    PROVE  /\ DevOK(dev1) /\ Spared(dev1, Tail(wr)) /\ channelsOf(dev1) = channelsOf(dev)
           /\ \A b, S : S \subseteq Slot /\ Mirrors(b, dev, wr, S) => Mirrors(b, dev1, Tail(wr), S)
<1> DEFINE K == channelsOf(dev)
           w == Head(wr)
           ws == Tail(wr)
<1>1. /\ wr \in Seq(Write(K)) /\ ws \in Seq(Write(K)) /\ w \in Write(K) /\ w = wr[1]
      /\ Len(wr) \in Nat /\ DOMAIN wr = 1 .. Len(wr) /\ 1 \in DOMAIN wr
      /\ DOMAIN ws = 1 .. (Len(wr) - 1) /\ \A i \in 1 .. (Len(wr) - 1) : ws[i] = wr[i + 1]
  <2>1. wr \in Seq(Write(K))
    BY DEF Spared
  <2> HIDE DEF K
  <2> QED BY <2>1
<1>2. dev \in [Slot -> Value] /\ w.slot \in Slot /\ w.value \in K \cup {Empty} /\ w.value \in Value
  <2>1. K \subseteq Channel
    BY DEF channelsOf
  <2> QED BY <1>1, <2>1 DEF DevOK, Write, Value
<1>3. dev1 \in [Slot -> Value] /\ \A t \in Slot \ {w.slot} : dev1[t] = dev[t]
  BY <1>2
<1>4. \A t \in Slot : Quiet(wr, t) => t # w.slot /\ Quiet(ws, t)
  <2> SUFFICES ASSUME NEW t \in Slot, Quiet(wr, t) PROVE t # w.slot /\ Quiet(ws, t)
    OBVIOUS
  <2>1. \A i \in DOMAIN wr : wr[i].slot # t
    BY DEF Quiet
  <2> HIDE DEF K, w, ws
  <2>2. t # w.slot
    BY <1>1, <2>1
  <2>3. \A i \in DOMAIN ws : i + 1 \in DOMAIN wr /\ ws[i] = wr[i + 1]
    BY <1>1
  <2>4. Quiet(ws, t)
    BY <2>1, <2>3 DEF Quiet
  <2> QED BY <2>2, <2>4
<1>5. \A x \in K : \E t \in Slot : dev1[t] = x /\ Quiet(ws, t)
  BY <1>3, <1>4 DEF Spared
<1>6. channelsOf(dev1) = K
  <2>1. \A x \in K : x \in channelsOf(dev1)
    BY <1>3, <1>5 DEF channelsOf, Range
  <2>2. ASSUME NEW x \in channelsOf(dev1)
        PROVE  x \in K
    <3>1. PICK t \in Slot : dev1[t] = x
      BY <1>3 DEF channelsOf, Range
    <3>2. x \in Channel /\ x # Empty
      BY ValueAssumption DEF channelsOf
    <3>3. dev1[t] = dev[t] \/ dev1[t] = w.value
      BY <1>2
    <3> QED BY <3>1, <3>2, <3>3, <1>2 DEF channelsOf, Range
  <2> QED BY <2>1, <2>2
<1>7. \A b, S : S \subseteq Slot /\ Mirrors(b, dev, wr, S) => Mirrors(b, dev1, ws, S)
  BY <1>3, <1>4 DEF Mirrors
<1>8. DevOK(dev1) /\ Spared(dev1, ws)
  BY <1>1, <1>3, <1>5, <1>6 DEF DevOK, Spared
<1> QED BY <1>6, <1>7, <1>8

\* What the link does.
LEMMA LinkKeeps ==
    ASSUME Core, WriteLands \/ WriteLost
    PROVE  /\ Core' /\ UNCHANGED job /\ wire # <<>>
           /\ channelsOf(device') = channelsOf(device)
<1>1. /\ wire # <<>> /\ wire' = Tail(wire) /\ job' = job
      /\ device' = [device EXCEPT ![Head(wire).slot] = Head(wire).value] \/ device' = device
  BY DEF WriteLands, WriteLost
<1>2. /\ DevOK(device') /\ Spared(device', wire') /\ channelsOf(device') = channelsOf(device)
      /\ \A b, S : S \subseteq Slot /\ Mirrors(b, device, wire, S) => Mirrors(b, device', wire', S)
  BY <1>1, LandingKeeps DEF Core
<1>3. ASSUME Running(job, device, wire)
      PROVE  Running(job, device', wire')
  <2>1. ASSUME Writing(job, device, wire)
        PROVE  Writing(job, device', wire')
    BY <2>1, <1>2 DEF Writing
  <2>2. job.pc \notin {"confirming", "remapping", "committed"}
    BY <1>1, <1>3 DEF Running, Written
  <2> QED BY <1>2, <1>3, <2>1, <2>2 DEF Running
<1>4. JobOK(job', device', wire')
  BY <1>1, <1>3 DEF Core, JobOK
<1> QED BY <1>1, <1>2, <1>4 DEF Core

\* A rollback after the last write.
LEMMA WrittenRollback ==
    ASSUME Core, job.pc \in {"confirming", "remapping", "committed"},
           rollbackChannelReorder(job.believed)
    PROVE  Keeps(job', wire') /\ job'.pc \in {"undoing", "checking"}
<1>1. Running(job, device, wire) /\ job \in PlannedJob /\ DevOK(device) /\ Spared(device, wire)
  BY PlannedIsRunning DEF Core
<1>2. Written(job, device, wire)
  BY <1>1 DEF Running
<1>3. /\ Mirrors(job.believed, device, wire, Slot)
      /\ \A x \in channelsOf(device) : \E t \in Slot : job.believed[t] = x
      /\ job.believed \in [Slot -> Value \cup {Unknown}]
  BY <1>1, <1>2 DEF Written, Table, PlannedJob
<1> QED BY <1>1, <1>3, RollbackKeeps

\* The read-back of the whole table.
LEMMA ConfirmKeeps ==
    ASSUME Core, Confirm
    PROVE  Keeps(job', wire') /\ job'.pc \in {"remapping", "undoing", "checking"}
<1>1. /\ Running(job, device, wire) /\ job \in PlannedJob /\ DevOK(device) /\ Spared(device, wire)
      /\ job.pc = "confirming" /\ wire = <<>>
  BY PlannedIsRunning DEF Core, Confirm
<1>2. CASE device = Layout(job.original, job.order)
  <2>1. job' = [job EXCEPT !.pc = "remapping"] /\ wire' = wire
    BY <1>2 DEF Confirm
  <2>2. /\ job' \in PlannedJob /\ job'.pc = "remapping" /\ job'.original = job.original
        /\ job'.order = job.order /\ job'.believed = job.believed
    <3>1. "remapping" \in Plans
      BY DEF Plans
    <3> QED BY <3>1, <2>1, <1>1 DEF PlannedJob
  <2>3. Written(job', device, wire')
    BY <1>1, <2>1, <2>2 DEF Running, Written
  <2>4. Running(job', device, wire')
    BY <1>1, <1>2, <2>2, <2>3 DEF Running
  <2> QED BY <1>1, <2>1, <2>2, <2>4 DEF Keeps
<1>3. CASE device # Layout(job.original, job.order)
  <2>1. rollbackChannelReorder(device)
    BY <1>3 DEF Confirm
  <2>2. device \in [Slot -> Value \cup {Unknown}] /\ Mirrors(device, device, wire, Slot)
    BY <1>1 DEF DevOK, Mirrors, Quiet
  <2>3. \A x \in channelsOf(device) : \E t \in Slot : device[t] = x
    BY <1>1, DeviceTable DEF Table
  <2> QED BY <1>1, <2>1, <2>2, <2>3, RollbackKeeps
<1> QED BY <1>2, <1>3

\* The rows are committed.
LEMMA CommitKeeps ==
    ASSUME Core, RemapCommits
    PROVE  /\ Keeps(job', wire') /\ job'.pc = "committed" /\ wire = <<>>
           /\ device = Layout(job.original, job.order)
<1>1. /\ Running(job, device, wire) /\ job \in PlannedJob /\ DevOK(device) /\ Spared(device, wire)
      /\ job.pc = "remapping"
  BY PlannedIsRunning DEF Core, RemapCommits
<1>2. Written(job, device, wire) /\ device = Layout(job.original, job.order)
  BY <1>1 DEF Running
<1>3. job' = [job EXCEPT !.pc = "committed"] /\ wire' = wire
  BY DEF RemapCommits
<1>4. /\ job' \in PlannedJob /\ job'.pc = "committed" /\ job'.original = job.original
      /\ job'.order = job.order /\ job'.believed = job.believed
  <2>1. "committed" \in Plans
    BY DEF Plans
  <2> QED BY <2>1, <1>1, <1>3 DEF PlannedJob
<1>5. Written(job', device, wire')
  BY <1>2, <1>3, <1>4 DEF Written
<1>6. Running(job', device, wire')
  BY <1>1, <1>2, <1>4, <1>5 DEF Running
<1> QED BY <1>1, <1>2, <1>3, <1>4, <1>6 DEF Keeps, Written

\* The tables are read: the job has nothing to do, or plans and sends its first write;
\* the plan is never refused as unsafe.
LEMMA ReadKeeps ==
    ASSUME Core, ReadTables
    PROVE  /\ wire = <<>> /\ job.pc = "reading"
           /\ \/ finish("unchanged", stay) /\ wire' = wire
              \/ /\ Running(job', device, wire') /\ Spared(device, wire')
                 /\ job'.pc = "writing" /\ job'.original = device
                 /\ UNCHANGED <<result, send>>
<1> DEFINE K == channelsOf(device)
<1>1. PICK order \in SetToSeqs({s \in Slot : device[s] # Empty}) :
        \E p \in {Plan(device, Goal(device, Layout(device, order)))} :
            /\ order # <<>>
            /\ IF p.writes = <<>> \/ p.end = "NO_FREE_SLOT"
               THEN finish("unchanged", stay) /\ UNCHANGED wire
               ELSE IF p.end # "done" \/ ~p.safe
               THEN finish("unsafe", stay) /\ UNCHANGED wire
               ELSE /\ issue([pc |-> "writing", order |-> order, original |-> device,
                              believed |-> device, todo |-> p.writes, tries |-> 0,
                              failed |-> FALSE])
                    /\ UNCHANGED <<result, send>>
  BY DEF ReadTables
<1> DEFINE L == Layout(device, order)
           g == Goal(device, L)
           p == Plan(device, g)
           j == [pc |-> "writing", order |-> order, original |-> device,
                 believed |-> device, todo |-> p.writes, tries |-> 0, failed |-> FALSE]
<1>2. /\ wire = <<>> /\ job.pc = "reading"
      /\ IF p.writes = <<>> \/ p.end = "NO_FREE_SLOT"
         THEN finish("unchanged", stay) /\ UNCHANGED wire
         ELSE IF p.end # "done" \/ ~p.safe
         THEN finish("unsafe", stay) /\ UNCHANGED wire
         ELSE issue(j) /\ UNCHANGED <<result, send>>
  BY <1>1 DEF ReadTables
<1>3. device \in [Slot -> Value] /\ DevOK(device) /\ Spared(device, wire) /\ K \subseteq Channel
      /\ order \in SetToSeqs(used(device))
  BY <1>1 DEF Core, DevOK, channelsOf, used
<1>4. Table(device, K)
  BY <1>3, DeviceTable
<1>5. /\ L \in [Slot -> Value] /\ Range(L) \subseteq Range(device) \cup {Empty}
      /\ \A x \in K : \E k \in Slot : L[k] = x
  BY <1>3, LayoutIs DEF channelsOf
<1>6. Aim(device, g, K)
  <2> DEFINE D == {x \in Slot : device[x] # L[x]}
  <2> HIDE DEF L
  <2>1. g = [s \in D |-> L[s]]
    BY DEF Goal
  <2>2. \A s \in Slot : L[s] \in K \cup {Empty}
    BY <1>5 DEF Range, channelsOf, Value
  <2>3. ASSUME NEW x \in K
        PROVE  \/ \E s \in DOMAIN g : g[s] = x
               \/ \E t \in Slot \ DOMAIN g : device[t] = x
    <3>1. PICK k \in Slot : L[k] = x
      BY <1>5
    <3> QED BY <3>1, <2>1
  <2>4. g \in [DOMAIN g -> K \cup {Empty}] /\ DOMAIN g \subseteq Slot
    BY <2>1, <2>2
  <2> QED BY <2>3, <2>4 DEF Aim
<1> HIDE DEF g, L
<1>7. Fit(p, device, g, K) /\ p.end # Open
  BY <1>3, <1>4, <1>6, PlanFits
<1>8. /\ p.safe = TRUE /\ p.end \in {"done", "NO_FREE_SLOT"} /\ Leads(device, p.writes, p.now, K)
      /\ p.writes \in Seq(Write(K))
  BY <1>7 DEF Fit, Leads
<1>9. p.writes \in Seq(AnyWrite)
  BY <1>3, <1>8, WritesAreWrites
<1> HIDE DEF p, j
<1>10. CASE p.writes = <<>> \/ p.end = "NO_FREE_SLOT"
  BY <1>2, <1>10
<1>11. CASE ~(p.writes = <<>> \/ p.end = "NO_FREE_SLOT")
  <2>1. issue(j) /\ UNCHANGED <<result, send>>
    BY <1>2, <1>8, <1>11
  <2>2. job' = [j EXCEPT !.believed = put(@, Head(j.todo))] /\ wire' = Append(wire, Head(j.todo))
    BY <2>1 DEF issue, put
  <2>3. /\ j \in PlannedJob /\ j.pc = "writing" /\ j.order = order /\ j.original = device
        /\ j.believed = device /\ j.todo = p.writes
    <3>1. order \in Seq(Slot)
      BY <1>3, OrderIs
    <3>2. "writing" \in Plans /\ 0 \in {0, 1} /\ FALSE \in BOOLEAN
          /\ device \in [Slot -> Value \cup {Unknown}]
      BY <1>3 DEF Plans
    <3> QED BY <3>1, <3>2, <1>3, <1>9 DEF j, PlannedJob
  <2>4. Mirrors(j.believed, device, wire, Slot)
    BY <1>2, <2>3 DEF Mirrors, Quiet
  <2>5. Issues(device, wire, j, job', wire')
    BY <1>8, <1>11, <2>2, <2>3, <2>4 DEF Issues, K
  <2>6. Issued(device, j, job', wire')
    BY <1>3, <2>5, IssueKeeps
  <2>7. /\ job' \in PlannedJob /\ job'.pc = "writing" /\ job'.order = order
        /\ job'.original = device
        /\ Writing(job', device, wire') /\ Spared(device, wire')
    BY <2>3, <2>6 DEF Issued
  <2>8. Running(job', device, wire')
    BY <1>3, <2>7 DEF Running
  <2> QED BY <1>2, <2>1, <2>7, <2>8
<1> QED BY <1>2, <1>10, <1>11

-------------------------------------------------------------------------------
\* Every step.

\* The first state.
LEMMA CoreInit == Init => Core
<1> SUFFICES ASSUME Init PROVE Core
  OBVIOUS
<1>1. DevOK(device) /\ wire = <<>> /\ job = Idle
  BY DEF Init, DevOK
<1>2. Table(device, channelsOf(device))
  BY <1>1, DeviceTable
<1>3. Spared(device, wire)
  BY <1>1, <1>2 DEF Spared, Table, Quiet
<1> QED BY <1>1, <1>3 DEF Core, JobOK

\* The steps of a job that has planned.
Works ==
    \/ WriteVerified \/ WriteRefuted \/ WriteUnanswered \/ Confirm \/ ConfirmFails
    \/ RemapCommits \/ RemapFails \/ RefreshFails

\* The steps that end a job.
Ends ==
    \/ job.pc = "reading" /\ finish("unchanged", stay) /\ UNCHANGED clean
    \/ ReorderApplied \/ CheckRollback \/ CheckFails \/ Restart

\* A job plans and sends its first write.
Starts ==
    /\ job.pc = "reading" /\ wire = <<>> /\ Running(job', device, wire') /\ Spared(device, wire')
    /\ job'.pc = "writing" /\ job'.original = device /\ UNCHANGED <<result, send>>

\* What is heard and sent.
Messages == \/ \E c \in Channel : Receive(c)
            \/ \E k \in Sender : Ask(k) \/ Transmit(k) \/ ResendFires(k)

\* The steps of a job that has planned.
LEMMA WorksKeeps ==
    ASSUME Core, Works
    PROVE  /\ Keeps(job', wire') /\ planned /\ planned' /\ device' = device
           /\ UNCHANGED <<result, send, runs, misSent>>
           /\ RemapCommits \/ (job'.pc # "committed" /\ UNCHANGED history)
           /\ job.pc = "committed" => ~clean'
           /\ clean' = clean \/ clean' = FALSE
<1>1. /\ device' = device /\ UNCHANGED <<result, send, runs, misSent>>
      /\ clean' = clean \/ clean' = FALSE
  BY DEF Works, WriteVerified, WriteRefuted, WriteUnanswered, Confirm, ConfirmFails,
         RemapCommits, RemapFails, RefreshFails, jobOnly
<1>2. job.pc \in Plans \ {"checking"} /\ job'.pc \in Plans => planned /\ planned'
  BY DEF planned, running, Plans
<1>3. CASE WriteVerified
  BY <1>1, <1>2, <1>3, VerifiedKeeps DEF WriteVerified, writing, Plans, jobOnly
<1>4. CASE WriteRefuted
  <2>1. job.pc \in {"writing", "undoing"} /\ attemptFails(device[current.slot]) /\ wire = <<>>
    BY <1>4 DEF WriteRefuted, writing
  <2>2. device[current.slot] \in Value \cup {Unknown}
    <3>1. Running(job, device, wire)
      BY <2>1, PlannedIsRunning
    <3>2. current.slot \in Slot
      BY <2>1, <3>1 DEF Running, Writing, current, Write
    <3> QED BY <3>2 DEF Core, DevOK
  <2>3. Keeps(job', wire') /\ job'.pc \in {"writing", "undoing", "checking"}
    BY <2>1, <2>2, AttemptKeeps
  <2> QED BY <1>1, <1>2, <1>4, <2>1, <2>3 DEF Plans, WriteRefuted, jobOnly
<1>5. CASE WriteUnanswered
  <2>1. job.pc \in {"writing", "undoing"} /\ attemptFails(Unknown)
    BY <1>5 DEF WriteUnanswered, writing
  <2>2. Keeps(job', wire') /\ job'.pc \in {"writing", "undoing", "checking"}
    BY <2>1, AttemptKeeps
  <2> QED BY <1>1, <1>2, <1>5, <2>1, <2>2 DEF Plans, WriteUnanswered, jobOnly
<1>6. CASE Confirm
  BY <1>1, <1>2, <1>6, ConfirmKeeps DEF Confirm, Plans, jobOnly
<1>7. CASE RemapCommits
  BY <1>1, <1>2, <1>7, CommitKeeps DEF Plans, RemapCommits
<1>8. CASE ConfirmFails \/ RemapFails \/ RefreshFails
  <2>1. /\ job.pc \in {"confirming", "remapping", "committed"}
        /\ rollbackChannelReorder(job.believed) /\ (job.pc = "committed" => ~clean')
    BY <1>8 DEF ConfirmFails, RemapFails, RefreshFails
  <2>2. Keeps(job', wire') /\ job'.pc \in {"undoing", "checking"}
    BY <2>1, WrittenRollback
  <2>3. UNCHANGED history
    BY <1>8 DEF ConfirmFails, RemapFails, RefreshFails, jobOnly
  <2> QED BY <1>1, <1>2, <2>1, <2>2, <2>3 DEF Plans
<1> QED BY <1>3, <1>4, <1>5, <1>6, <1>7, <1>8 DEF Works

\* Every step is one of these.
LEMMA StepIs ==
    ASSUME Core, [Next]_vars
    PROVE  \/ reorderChannels
           \/ Starts /\ UNCHANGED <<device, history, runs, misSent, clean>>
           \/ Ends /\ UNCHANGED <<device, wire, history, runs, misSent>>
           \/ Works
           \/ WriteLands \/ WriteLost
           \/ Messages
           \/ syncChannelsFromDevice \/ UNCHANGED vars
<1>1. CASE ReadTables
  BY <1>1, ReadKeeps DEF ReadTables, Starts, Ends
<1>2. CASE ReadTablesFails
  BY <1>2 DEF ReadTablesFails, Ends
<1>3. CASE ReorderApplied \/ CheckRollback \/ CheckFails \/ Restart
  BY <1>3 DEF ReorderApplied, CheckRollback, CheckFails, Restart, Ends
<1> QED BY <1>1, <1>2, <1>3 DEF Next, Works, Messages

-------------------------------------------------------------------------------
\* What the state of the job shows.

\* Every step keeps the device, the link and the job right, and the channels on the
\* device.
LEMMA CoreNext ==
    ASSUME Core, [Next]_vars
    PROVE  Core' /\ channelsOf(device') = channelsOf(device)
<1>0. DevOK(device) /\ Spared(device, wire) /\ JobOK(job, device, wire)
  BY DEF Core
<1>1. CASE reorderChannels
  <2>1. job' = Reading /\ device' = device /\ wire' = wire
    BY <1>1 DEF reorderChannels, Reading
  <2> QED BY <1>0, <2>1 DEF Core, JobOK
<1>2. CASE Starts /\ UNCHANGED <<device, history, runs, misSent, clean>>
  <2>1. Running(job', device, wire') /\ Spared(device, wire') /\ device' = device
    BY <1>2 DEF Starts
  <2> QED BY <1>0, <2>1 DEF Core, JobOK
<1>3. CASE Ends /\ UNCHANGED <<device, wire, history, runs, misSent>>
  <2>1. job' = Idle /\ device' = device /\ wire' = wire
    BY <1>3 DEF Ends, finish, ReorderApplied, CheckRollback, CheckFails, Restart
  <2> QED BY <1>0, <2>1 DEF Core, JobOK
<1>4. CASE Works
  <2>1. Keeps(job', wire') /\ device' = device
    BY <1>4, WorksKeeps
  <2> QED BY <1>0, <2>1 DEF Core, JobOK, Keeps
<1>5. CASE WriteLands \/ WriteLost
  BY <1>5, LinkKeeps
<1>6. CASE Messages \/ syncChannelsFromDevice \/ UNCHANGED vars
  <2>1. job' = job /\ device' = device /\ wire' = wire
    BY <1>6 DEF syncChannelsFromDevice, Messages, Receive, Ask, Transmit, ResendFires, vars
  <2> QED BY <1>0, <2>1 DEF Core
<1> QED BY <1>1, <1>2, <1>3, <1>4, <1>5, <1>6, StepIs

\* reorderChannels, writeAndVerify, rollbackChannelReorder: at every moment each channel
\* has a slot no write on the way will hit, and what the job believes is true.
THEOREM CoreAlways == SafetySpec => []Core
<1>1. Core /\ [Next]_vars => Core'
  BY CoreNext
<1> QED BY <1>1, CoreInit, PTL DEF SafetySpec

\* reorderChannels never loses a channel of the device, whatever writes are lost or
\* unanswered and whenever the process restarts.
THEOREM ChannelsKept == SafetySpec => NoChannelLost
<1>1. Core /\ [Next]_vars => [Range(device) \cap Channel \subseteq Range(device')]_vars
  <2> SUFFICES ASSUME Core, [Next]_vars
               PROVE  Range(device) \cap Channel \subseteq Range(device')
    OBVIOUS
  <2>1. channelsOf(device') = channelsOf(device)
    BY CoreNext
  <2> QED BY <2>1 DEF channelsOf
<1> QED BY <1>1, CoreAlways, PTL DEF SafetySpec, NoChannelLost

\* What a job reports when it ends is what the device is like.
TellsTruth ==
    job' # job /\ job' = Idle =>
        /\ result' = "applied" => device = Layout(job.original, job.order) /\ wire = <<>>
        /\ result' = "rolled_back" => device = job.original /\ wire = <<>>
        /\ result' # "unsafe"

\* Every step tells the truth.
LEMMA TruthStep ==
    ASSUME Core, [Next]_vars
    PROVE  TellsTruth
<1>1. CASE Ends
  <2>1. CASE job.pc = "reading" /\ finish("unchanged", stay) /\ UNCHANGED clean
    BY <2>1 DEF finish, TellsTruth
  <2>2. CASE ReorderApplied
    <3>1. job.pc = "committed" /\ result' = "applied"
      BY <2>2 DEF ReorderApplied, finish
    <3>2. wire = <<>> /\ device = Layout(job.original, job.order)
      BY <3>1, PlannedIsRunning DEF Running, Written
    <3> QED BY <3>1, <3>2 DEF TellsTruth
  <2>3. CASE CheckRollback
    BY <2>3 DEF CheckRollback, finish, TellsTruth
  <2>4. CASE CheckFails
    BY <2>4 DEF CheckFails, finish, TellsTruth
  <2>5. CASE Restart
    BY <2>5 DEF Restart, TellsTruth
  <2> QED BY <1>1, <2>1, <2>2, <2>3, <2>4, <2>5 DEF Ends
<1>2. CASE reorderChannels
  BY <1>2 DEF reorderChannels, TellsTruth, Idle
<1>3. CASE Starts
  BY <1>3 DEF Starts, TellsTruth, Idle
<1>4. CASE Works
  <2>1. planned'
    BY <1>4, WorksKeeps
  <2> QED BY <2>1 DEF planned, running, TellsTruth, Idle
<1>5. CASE WriteLands \/ WriteLost \/ Messages \/ syncChannelsFromDevice \/ UNCHANGED vars
  <2>1. job' = job
    BY <1>5 DEF syncChannelsFromDevice, WriteLands, WriteLost, Messages, Receive, Ask, Transmit, ResendFires, vars
  <2> QED BY <2>1 DEF TellsTruth
<1> QED BY <1>1, <1>2, <1>3, <1>4, <1>5, StepIs

\* reorderChannels answers 'applied' only when the device has the layout it was asked for,
\* 'rolled_back' only when it is as it was, and never has to refuse its own plan.
THEOREM OutcomesAreTrue == SafetySpec => OutcomeIsTrue
<1>1. Core /\ [Next]_vars => [TellsTruth]_vars
  BY TruthStep
<1>2. [][TellsTruth]_vars => OutcomeIsTrue
  <2>1. [TellsTruth]_vars => [job' # job /\ job' = Idle =>
        /\ result' = "applied" => device = Layout(job.original, job.order) /\ wire = <<>>
        /\ result' = "rolled_back" => device = job.original /\ wire = <<>>
        /\ result' # "unsafe"]_vars
    BY DEF TellsTruth
  <2> QED BY <2>1, PTL DEF OutcomeIsTrue
<1> QED BY <1>1, <1>2, CoreAlways, PTL DEF SafetySpec

-------------------------------------------------------------------------------
\* The stored messages and the messages being sent.

\* A message on its way; what may be stored.
SendRec == [at : {"waiting", "queued", "armed", "done"}, slot : Slot, want : Channel,
            raced : BOOLEAN, again : BOOLEAN]
Stored == (Channel \cup {Deleted}) \X Slot

\* The types of the variables that Core says nothing of.
Types ==
    /\ result \in Results /\ history \in SUBSET Stored
    /\ send \in [Sender -> SendRec \cup {NoSend}]
    /\ misSent \in SUBSET BOOLEAN /\ clean \in BOOLEAN /\ runs \in 0 .. MaxReorders

\* The table the stored messages are to follow.
rows(j, dev) == IF j.pc \in Plans \ {"committed"} THEN j.original ELSE dev
\* The table has at the row's slot the channel the row names.
holds(table, m) == table[m[2]] = (IF m[1] = Deleted THEN Empty ELSE m[1])

\* While no job has been abandoned, the stored messages follow the table, and no write
\* lingers once a job has ended.
Filed(h, cl, j, dev, wr) ==
    cl => /\ \A m \in h : holds(rows(j, dev), m)
          /\ j.pc \notin Plans => wr = <<>>

\* A send that no hazard has overtaken goes where it is meant to go.
MeantFor(x, j, dev, wr) ==
    x.at \in {"waiting", "armed", "queued"} /\ ~x.raced =>
        /\ x.at = "queued" => j.pc = "idle"
        /\ j.pc \in Plans => j.original[x.slot] = x.want
        /\ j.pc \notin Plans => wr = <<>> /\ dev[x.slot] = x.want

\* The sends that no job has overtaken go where they were meant to go.
Meant(snd, j, dev, wr) == \A k \in Sender : MeantFor(snd[k], j, dev, wr)

\* The inductive invariant.
IInv ==
    /\ Core /\ Types
    /\ Filed(history, clean, job, device, wire)
    /\ Meant(send, job, device, wire) /\ FALSE \notin misSent
    /\ mirror \in [Slot -> Value]

\* The steps of a job.
LEMMA JobPc ==
    ASSUME Core
    PROVE  /\ job.pc \in {"idle", "reading"} \cup Plans
           /\ job.pc = "idle" <=> ~running
           /\ job.pc \in Plans <=> planned
           /\ job.pc = "idle" <=> job = Idle
BY DEF Core, JobOK, Idle, Reading, Running, PlannedJob, running, planned, Plans

\* What becomes of a send when a job ends.
LEMMA SettledIs ==
    ASSUME NEW x \in SendRec \cup {NoSend}, NEW r, NEW moves, \A s \in Slot : moves[s] \in Slot
    PROVE  /\ settled(x, r, moves) \in SendRec \cup {NoSend}
           /\ x.at \notin {"waiting", "armed"} => settled(x, r, moves) = x
           /\ x.at \in {"waiting", "armed"} =>
                /\ x \in SendRec
                /\ settled(x, r, moves).slot = moves[x.slot]
                /\ settled(x, r, moves).want = x.want
                /\ settled(x, r, moves).raced = (x.raced \/ r = "inconsistent")
<1>1. CASE x.at \notin {"waiting", "armed"}
  <2>1. settled(x, r, moves) = x
    BY <1>1 DEF settled
  <2> QED BY <1>1, <2>1
<1>2. CASE x.at \in {"waiting", "armed"}
  <2>1. x \in SendRec
    BY <1>2 DEF NoSend
  <2> DEFINE a == IF x.at = "waiting" THEN "queued" ELSE x.at
             ra == x.raced \/ r = "inconsistent"
             y == [x EXCEPT !.at = a, !.slot = moves[x.slot], !.raced = ra]
  <2>2. settled(x, r, moves) = y
    BY <1>2 DEF settled
  <2>3. a \in {"waiting", "queued", "armed", "done"} /\ ra \in BOOLEAN /\ moves[x.slot] \in Slot
    BY <2>1, <1>2 DEF SendRec
  <2> HIDE DEF a, ra
  <2>4. y \in SendRec /\ y.slot = moves[x.slot] /\ y.want = x.want
    BY <2>1, <2>3 DEF SendRec
  <2>5. y.raced = ra
    BY <2>1 DEF SendRec
  <2> HIDE DEF y
  <2> QED BY <1>2, <2>1, <2>2, <2>4, <2>5 DEF ra
<1> QED BY <1>1, <1>2

\* What becomes of a send when a job begins.
LEMMA OvertakenIs ==
    ASSUME NEW x \in SendRec \cup {NoSend}
    PROVE  /\ overtaken(x) \in SendRec \cup {NoSend}
           /\ x.at # "queued" => overtaken(x) = x
           /\ x.at = "queued" => overtaken(x).raced = TRUE
<1>1. CASE x.at # "queued"
  <2>1. overtaken(x) = x
    BY <1>1 DEF overtaken
  <2> QED BY <1>1, <2>1
<1>2. CASE x.at = "queued"
  <2>1. x \in SendRec
    BY <1>2 DEF NoSend
  <2> DEFINE y == [x EXCEPT !.raced = TRUE]
  <2>2. overtaken(x) = y
    BY <1>2 DEF overtaken
  <2>3. y \in SendRec
    BY <2>1 DEF SendRec
  <2>4. y.raced = TRUE
    BY <2>1 DEF SendRec
  <2> HIDE DEF y
  <2> QED BY <1>2, <2>2, <2>3, <2>4
<1> QED BY <1>1, <1>2

\* A job that changes nothing moves no rows.
LEMMA StayIs == \A s \in Slot : stay[s] = s /\ stay[s] \in Slot
BY DEF stay

\* The slot a channel is found at.
LEMMA FirstIs ==
    ASSUME NEW table \in [Slot -> Value], NEW v, \E s \in Slot : table[s] = v
    PROVE  first(table, v) \in Slot /\ table[first(table, v)] = v
<1> DEFINE T == {s \in Slot : table[s] = v}
<1>1. T \in SUBSET Nat /\ T # {}
  BY SlotsFinite
<1>2. Min(T) \in T
  BY <1>1, MinIsLeast
<1> QED BY <1>2 DEF first

\* The first state.
LEMMA IInvInit == Init => IInv
<1> SUFFICES ASSUME Init PROVE IInv
  OBVIOUS
<1>1. Core
  BY CoreInit
<1>2. device \in [Slot -> Value] /\ job = Idle /\ job.pc = "idle" /\ wire = <<>>
  BY DEF Init, Idle
<1>3. ASSUME NEW m \in history
      PROVE  m \in Stored /\ holds(device, m)
  <2>1. CASE m \in {<<device[s], s>> : s \in {x \in Slot : device[x] # Empty
                                        /\ \A y \in 1 .. x - 1 : device[y] # device[x]}}
    <3>1. PICK s \in Slot : device[s] # Empty /\ m = <<device[s], s>>
      BY <2>1
    <3>2. device[s] \in Channel /\ device[s] # Deleted
      BY <3>1, <1>2, ValueAssumption DEF Value
    <3> QED BY <3>1, <3>2 DEF Stored, holds
  <2>2. CASE m \in {<<Deleted, s>> : s \in {x \in Slot : device[x] = Empty}}
    <3>1. PICK s \in Slot : device[s] = Empty /\ m = <<Deleted, s>>
      BY <2>2
    <3> QED BY <3>1 DEF Stored, holds
  <2> QED BY <2>1, <2>2 DEF Init
<1>4. Types
  <2>1. history \in SUBSET Stored
    BY <1>3
  <2>2. 0 \in 0 .. MaxReorders
    BY BoundAssumption
  <2>3. send \in [Sender -> SendRec \cup {NoSend}]
    BY DEF Init
  <2> QED BY <2>1, <2>2, <2>3 DEF Init, Types, Results
<1>5. Filed(history, clean, job, device, wire)
  BY <1>2, <1>3 DEF Filed, rows, Plans
<1>6. /\ Meant(send, job, device, wire) /\ FALSE \notin misSent
      /\ mirror \in [Slot -> Value]
  BY <1>2 DEF Init, Meant, MeantFor, NoSend
<1> QED BY <1>1, <1>4, <1>5, <1>6 DEF IInv

-------------------------------------------------------------------------------
\* Jobs that begin and end.

\* reorderChannels: a job begins, and overtakes the sends that are queued.
LEMMA BeginKeeps ==
    ASSUME IInv, reorderChannels
    PROVE  Types' /\ Filed(history', clean', job', device', wire')
           /\ Meant(send', job', device', wire') /\ FALSE \notin misSent'
<1>1. /\ job = Idle /\ job.pc = "idle" /\ job'.pc = "reading"
      /\ device' = device /\ wire' = wire /\ history' = history /\ clean' = clean
      /\ misSent' = misSent /\ result' = result
      /\ runs < MaxReorders /\ runs' = runs + 1
      /\ send' = [k \in Sender |-> overtaken(send[k])]
  BY JobPc DEF IInv, reorderChannels
<1>2. \A k \in Sender : send[k] \in SendRec \cup {NoSend}
  BY DEF IInv, Types
<1>3. \A k \in Sender : send'[k] = overtaken(send[k])
  BY <1>1
<1>4. Types'
  <2>1. runs' \in 0 .. MaxReorders
    BY <1>1, BoundAssumption DEF IInv, Types
  <2>2. send' \in [Sender -> SendRec \cup {NoSend}]
    BY <1>1, <1>2, OvertakenIs
  <2> QED BY <1>1, <2>1, <2>2 DEF IInv, Types
<1>5. Filed(history', clean', job', device', wire')
  BY <1>1 DEF IInv, Filed, rows, Plans
<1>6. ASSUME NEW k \in Sender
      PROVE  MeantFor(send'[k], job', device', wire')
  <2>1. MeantFor(send[k], job, device, wire)
    BY DEF IInv, Meant
  <2>2. CASE send[k].at # "queued"
    <3>1. send'[k] = send[k]
      BY <1>2, <1>3, <2>2, OvertakenIs
    <3> QED BY <3>1, <2>1, <2>2, <1>1 DEF MeantFor, Plans
  <2>3. CASE send[k].at = "queued"
    <3>1. send'[k].raced = TRUE
      BY <1>2, <1>3, <2>3, OvertakenIs
    <3> QED BY <3>1 DEF MeantFor
  <2> QED BY <2>2, <2>3
<1> QED BY <1>1, <1>4, <1>5, <1>6 DEF Meant, IInv

\* reorderChannels: the job plans and sends its first write.
LEMMA StartKeeps ==
    ASSUME IInv, Starts, UNCHANGED <<device, history, runs, misSent, clean>>
    PROVE  Types' /\ Filed(history', clean', job', device', wire')
           /\ Meant(send', job', device', wire') /\ FALSE \notin misSent'
<1>1. /\ job.pc = "reading" /\ wire = <<>>
      /\ job'.pc = "writing" /\ job'.original = device /\ result' = result /\ send' = send
      /\ device' = device /\ history' = history /\ runs' = runs /\ misSent' = misSent
      /\ clean' = clean
  BY DEF Starts
<1>2. Types'
  BY <1>1 DEF IInv, Types
<1>3. Filed(history', clean', job', device', wire')
  BY <1>1 DEF IInv, Filed, rows, Plans
<1>4. ASSUME NEW k \in Sender
      PROVE  MeantFor(send'[k], job', device', wire')
  <2>1. MeantFor(send[k], job, device, wire)
    BY DEF IInv, Meant
  <2> QED BY <2>1, <1>1 DEF MeantFor, Plans
<1> QED BY <1>1, <1>2, <1>3, <1>4 DEF Meant, IInv

\* A job that ends: `lead` is where it leads the sends that no hazard overtook.
LEMMA EndKeeps ==
    ASSUME IInv, NEW r \in Results, NEW moves, \A s \in Slot : moves[s] \in Slot, finish(r, moves),
           UNCHANGED <<device, wire, history, runs, misSent>>, clean' \in BOOLEAN,
           clean' => clean /\ wire = <<>> /\ \A m \in history : holds(device, m),
           r # "inconsistent" =>
                \A k \in Sender : send[k].at \in {"waiting", "armed"} /\ ~send[k].raced
                    => wire = <<>> /\ device[moves[send[k].slot]] = send[k].want,
           job.pc # "idle"
    PROVE  Types' /\ Filed(history', clean', job', device', wire')
           /\ Meant(send', job', device', wire') /\ FALSE \notin misSent'
<1>1. /\ job' = Idle /\ job'.pc = "idle" /\ result' = r
      /\ send' = [k \in Sender |-> settled(send[k], r, moves)]
      /\ device' = device /\ wire' = wire /\ history' = history /\ runs' = runs
      /\ misSent' = misSent
  BY DEF finish, Idle
<1>2. \A k \in Sender : send[k] \in SendRec \cup {NoSend}
  BY DEF IInv, Types
<1>3. Types'
  <2>1. send' \in [Sender -> SendRec \cup {NoSend}]
    BY <1>1, <1>2, SettledIs
  <2> QED BY <1>1, <2>1 DEF IInv, Types
<1>4. Filed(history', clean', job', device', wire')
  BY <1>1 DEF Filed, rows, Plans
<1>5. ASSUME NEW k \in Sender
      PROVE  MeantFor(send'[k], job', device', wire')
  <2>1. MeantFor(send[k], job, device, wire) /\ send'[k] = settled(send[k], r, moves)
    BY <1>1 DEF IInv, Meant
  <2>2. CASE send[k].at \notin {"waiting", "armed"}
    <3>1. send'[k] = send[k]
      BY <1>2, <2>1, <2>2, SettledIs
    <3>2. send[k].at = "queued" => send[k].raced
      BY <2>1 DEF MeantFor
    <3> QED BY <2>2, <3>1, <3>2 DEF MeantFor
  <2>3. CASE send[k].at \in {"waiting", "armed"}
    <3>1. /\ send[k] \in SendRec
          /\ send'[k].slot = moves[send[k].slot] /\ send'[k].want = send[k].want
          /\ send'[k].raced = (send[k].raced \/ r = "inconsistent")
      BY <1>2, <2>1, <2>3, SettledIs
    <3>2. CASE ~send'[k].raced
      <4>1. ~send[k].raced /\ r # "inconsistent"
        BY <3>1, <3>2
      <4>2. wire = <<>> /\ device[moves[send[k].slot]] = send[k].want
        BY <4>1, <2>3
      <4> QED BY <4>2, <3>1, <1>1 DEF MeantFor, Plans
    <3> QED BY <3>2 DEF MeantFor
  <2> QED BY <2>2, <2>3
<1> QED BY <1>1, <1>3, <1>4, <1>5 DEF Meant, IInv

\* The job ends: with nothing to do, with its result, or with the process.
LEMMA EndsKeep ==
    ASSUME IInv, Ends, UNCHANGED <<device, wire, history, runs, misSent>>
    PROVE  Types' /\ Filed(history', clean', job', device', wire')
           /\ Meant(send', job', device', wire') /\ FALSE \notin misSent'
<1>0. /\ Core /\ clean \in BOOLEAN /\ Filed(history, clean, job, device, wire)
      /\ \A k \in Sender : MeantFor(send[k], job, device, wire) /\ send[k] \in SendRec \cup {NoSend}
  BY DEF IInv, Types, Meant
<1>1. CASE job.pc = "reading" /\ finish("unchanged", stay) /\ UNCHANGED clean
  <2>1. "unchanged" \in Results
    BY DEF Results
  <2>2. clean' => clean /\ wire = <<>> /\ \A m \in history : holds(device, m)
    BY <1>0, <1>1 DEF Filed, rows, Plans
  <2>3. ASSUME NEW k \in Sender, send[k].at \in {"waiting", "armed"}, ~send[k].raced
        PROVE  wire = <<>> /\ device[stay[send[k].slot]] = send[k].want
    <3>1. send[k].slot \in Slot
      BY <1>0, <2>3 DEF SendRec, NoSend
    <3> QED BY <1>0, <1>1, <2>3, <3>1, StayIs DEF MeantFor, Plans
  <2> HIDE DEF IInv
  <2>4. clean' \in BOOLEAN
    BY <1>0, <1>1
  <2> QED BY <1>1, <2>1, <2>2, <2>3, <2>4, StayIs, EndKeeps
<1>2. CASE ReorderApplied
  <2>1. /\ job.pc = "committed" /\ finish("applied", Moves(job.order)) /\ clean' = clean
        /\ "applied" \in Results
    BY <1>2 DEF ReorderApplied, Results
  <2>2. /\ Running(job, device, wire) /\ job.original \in [Slot -> Value]
        /\ job.order \in SetToSeqs(used(job.original)) /\ wire = <<>>
        /\ device = Layout(job.original, job.order)
    BY <1>0, <2>1, PlannedIsRunning DEF Running, Written, PlannedJob
  <2>3. \A s \in Slot : Moves(job.order)[s] \in Slot /\ device[Moves(job.order)[s]] = job.original[s]
    BY <2>2, MovesIs
  <2>4. clean' => clean /\ wire = <<>> /\ \A m \in history : holds(device, m)
    BY <1>0, <2>1, <2>2 DEF Filed, rows
  <2>5. ASSUME NEW k \in Sender, send[k].at \in {"waiting", "armed"}, ~send[k].raced
        PROVE  wire = <<>> /\ device[Moves(job.order)[send[k].slot]] = send[k].want
    <3>1. send[k].slot \in Slot
      BY <1>0, <2>5 DEF SendRec, NoSend
    <3>2. job.original[send[k].slot] = send[k].want
      BY <1>0, <2>1, <2>5 DEF MeantFor, Plans
    <3> QED BY <2>2, <2>3, <3>1, <3>2
  <2> DEFINE moves == Moves(job.order)
  <2>6. \A s \in Slot : moves[s] \in Slot
    BY <2>3
  <2>7. \A k \in Sender : send[k].at \in {"waiting", "armed"} /\ ~send[k].raced
                    => wire = <<>> /\ device[moves[send[k].slot]] = send[k].want
    BY <2>5
  <2>8. finish("applied", moves) /\ clean' \in BOOLEAN
    BY <1>0, <2>1
  <2> HIDE DEF moves
  <2> QED BY <2>1, <2>4, <2>6, <2>7, <2>8, EndKeeps
<1>3. CASE CheckRollback
  <2>1. job.pc = "checking" /\ wire = <<>>
    BY <1>3 DEF CheckRollback
  <2>2. CASE ~job.failed /\ device = job.original
    <3>1. finish("rolled_back", stay) /\ clean' = clean /\ "rolled_back" \in Results
      BY <1>3, <2>2 DEF CheckRollback, Results
    <3>2. clean' => clean /\ wire = <<>> /\ \A m \in history : holds(device, m)
      BY <1>0, <2>1, <2>2, <3>1 DEF Filed, rows, Plans
    <3>3. ASSUME NEW k \in Sender, send[k].at \in {"waiting", "armed"}, ~send[k].raced
          PROVE  wire = <<>> /\ device[stay[send[k].slot]] = send[k].want
      <4>1. send[k].slot \in Slot
        BY <1>0, <3>3 DEF SendRec, NoSend
      <4> QED BY <1>0, <2>1, <2>2, <3>3, <4>1, StayIs DEF MeantFor, Plans
    <3>4. clean' \in BOOLEAN
      BY <1>0, <3>1
    <3> QED BY <2>1, <3>1, <3>2, <3>3, <3>4, StayIs, EndKeeps
  <2>3. CASE ~(~job.failed /\ device = job.original)
    <3>1. finish("inconsistent", stay) /\ clean' = FALSE /\ "inconsistent" \in Results
      BY <1>3, <2>3 DEF CheckRollback, Results
    <3> QED BY <2>1, <3>1, StayIs, EndKeeps
  <2> QED BY <2>2, <2>3
<1>4. CASE CheckFails
  <2>1. /\ finish("inconsistent", stay) /\ clean' = FALSE /\ "inconsistent" \in Results
        /\ job.pc = "checking"
    BY <1>4 DEF CheckFails, Results
  <2> QED BY <2>1, StayIs, EndKeeps
<1>5. CASE Restart
  <2>1. /\ job' = Idle /\ job'.pc = "idle" /\ result' = "none" /\ send' = [k \in Sender |-> NoSend]
        /\ clean' = (clean /\ job.pc \in {"reading", "committed"})
        /\ device' = device /\ wire' = wire /\ history' = history /\ runs' = runs
        /\ misSent' = misSent
    BY <1>5 DEF Restart, Idle
  <2>2. Types'
    <3>1. send' \in [Sender -> SendRec \cup {NoSend}] /\ "none" \in Results
      BY <2>1 DEF Results
    <3>2. clean' \in BOOLEAN
      BY <2>1, <1>0
    <3> QED BY <2>1, <3>1, <3>2 DEF IInv, Types
  <2>3. Filed(history', clean', job', device', wire')
    <3>1. ASSUME clean'
          PROVE  wire = <<>> /\ \A m \in history : holds(device, m)
      <4>1. CASE job.pc = "reading"
        BY <1>0, <2>1, <3>1, <4>1 DEF Filed, rows, Plans
      <4>2. CASE job.pc = "committed"
        <5>1. wire = <<>>
          BY <1>0, <4>2, PlannedIsRunning DEF Running, Written
        <5> QED BY <1>0, <2>1, <3>1, <4>2, <5>1 DEF Filed, rows
      <4> QED BY <2>1, <3>1, <4>1, <4>2
    <3> QED BY <2>1, <3>1 DEF Filed, rows, Plans
  <2>4. Meant(send', job', device', wire')
    BY <2>1 DEF Meant, MeantFor, NoSend
  <2> QED BY <2>1, <2>2, <2>3, <2>4 DEF IInv
<1> QED BY <1>1, <1>2, <1>3, <1>4, <1>5 DEF Ends

-------------------------------------------------------------------------------
\* Jobs that work, the link and what is heard.

\* A job that has planned takes a step: the rows move exactly when it commits.
LEMMA WorksKeep ==
    ASSUME IInv, Works
    PROVE  Types' /\ Filed(history', clean', job', device', wire')
           /\ Meant(send', job', device', wire') /\ FALSE \notin misSent'
<1>1. /\ Keeps(job', wire') /\ planned /\ planned' /\ device' = device
      /\ result' = result /\ send' = send /\ runs' = runs /\ misSent' = misSent
      /\ RemapCommits \/ (job'.pc # "committed" /\ history' = history)
      /\ job.pc = "committed" => ~clean'
      /\ clean' = clean \/ clean' = FALSE
  BY WorksKeeps DEF IInv
<1>2. job'.original = job.original /\ Running(job', device, wire')
  BY <1>1 DEF Keeps
<1>3. job.pc \in Plans /\ job'.pc \in Plans
  <2>1. job.pc \in Plans
    BY <1>1, JobPc DEF IInv
  <2> QED BY <2>1, <1>2 DEF Running, PlannedJob
<1>4. RemapCommits =>
        /\ history' = {<<m[1], Moves(job.order)[m[2]]>> : m \in history}
        /\ job.pc = "remapping" /\ job'.pc = "committed" /\ device = Layout(job.original, job.order)
        /\ \A s \in Slot : /\ Moves(job.order)[s] \in Slot
                           /\ device[Moves(job.order)[s]] = job.original[s]
  <2> SUFFICES ASSUME RemapCommits
               PROVE  /\ job.pc = "remapping" /\ job'.pc = "committed"
                      /\ device = Layout(job.original, job.order)
                      /\ \A s \in Slot : /\ Moves(job.order)[s] \in Slot
                                         /\ device[Moves(job.order)[s]] = job.original[s]
    BY DEF RemapCommits
  <2>1. job.pc = "remapping" /\ job'.pc = "committed" /\ device = Layout(job.original, job.order)
    BY CommitKeeps DEF IInv, RemapCommits
  <2>2. job.original \in [Slot -> Value] /\ job.order \in SetToSeqs(used(job.original))
    BY <2>1, PlannedIsRunning DEF IInv, Running, PlannedJob
  <2> QED BY <2>1, <2>2, MovesIs
<1>5. Types'
  <2>1. ASSUME RemapCommits
        PROVE  history' \in SUBSET Stored
    <3> SUFFICES ASSUME NEW n \in history'
                 PROVE  n \in Stored
      OBVIOUS
    <3>1. PICK m \in history : n = <<m[1], Moves(job.order)[m[2]]>>
      BY <1>4, <2>1
    <3>2. m \in Stored
      BY DEF IInv, Types
    <3> QED BY <1>4, <2>1, <3>1, <3>2 DEF Stored
  <2>2. history' \in SUBSET Stored
    BY <1>1, <2>1 DEF IInv, Types
  <2>3. clean' \in BOOLEAN
    BY <1>1 DEF IInv, Types
  <2> QED BY <1>1, <2>2, <2>3 DEF IInv, Types
<1>6. Filed(history', clean', job', device', wire')
  <2> SUFFICES ASSUME clean', NEW n \in history'
               PROVE  holds(rows(job', device'), n)
    BY <1>3 DEF Filed
  <2>1. clean /\ job.pc # "committed" /\ \A m \in history : holds(job.original, m)
    BY <1>1, <1>3 DEF IInv, Filed, rows, Types
  <2>2. CASE RemapCommits
    <3>1. rows(job', device') = device
      BY <1>1, <1>4, <2>2 DEF rows
    <3>2. PICK m \in history : n = <<m[1], Moves(job.order)[m[2]]>>
      BY <1>4, <2>2
    <3>3. m \in Stored /\ holds(job.original, m)
      BY <2>1 DEF IInv, Types
    <3>4. m[2] \in Slot
      BY <3>3 DEF Stored
    <3>5. device[Moves(job.order)[m[2]]] = job.original[m[2]]
      BY <1>4, <2>2, <3>4
    <3> QED BY <3>1, <3>2, <3>3, <3>5 DEF holds
  <2>3. CASE job'.pc # "committed" /\ history' = history
    <3>1. rows(job', device') = job.original
      BY <1>2, <1>3, <2>3 DEF rows
    <3> QED BY <2>1, <2>3, <3>1
  <2> QED BY <1>1, <2>2, <2>3
<1>7. ASSUME NEW k \in Sender
      PROVE  MeantFor(send'[k], job', device', wire')
  <2>1. MeantFor(send[k], job, device, wire)
    BY DEF IInv, Meant
  <2> QED BY <2>1, <1>1, <1>2, <1>3 DEF MeantFor, Plans
<1> QED BY <1>1, <1>5, <1>6, <1>7 DEF Meant, IInv

\* A write lands, or is lost.
LEMMA LinkKeep ==
    ASSUME IInv, WriteLands \/ WriteLost
    PROVE  Types' /\ Filed(history', clean', job', device', wire')
           /\ Meant(send', job', device', wire') /\ FALSE \notin misSent'
<1>1. /\ job' = job /\ wire # <<>> /\ result' = result /\ history' = history /\ send' = send
      /\ runs' = runs /\ misSent' = misSent /\ clean' = clean
  BY DEF WriteLands, WriteLost
<1>2. Types'
  BY <1>1 DEF IInv, Types
<1>3. job.pc # "committed"
  <2> SUFFICES ASSUME job.pc = "committed" PROVE FALSE
    OBVIOUS
  <2> QED BY <1>1, PlannedIsRunning DEF IInv, Running, Written
<1>4. Filed(history', clean', job', device', wire')
  <2> SUFFICES ASSUME clean
               PROVE  /\ \A m \in history : holds(rows(job, device'), m)
                      /\ job.pc \in Plans
    BY <1>1 DEF Filed
  <2>1. job.pc \in Plans
    BY <1>1 DEF IInv, Filed
  <2>2. rows(job, device') = rows(job, device)
    BY <1>3, <2>1 DEF rows
  <2> QED BY <2>1, <2>2 DEF IInv, Filed
<1>5. ASSUME NEW k \in Sender
      PROVE  MeantFor(send'[k], job', device', wire')
  <2>1. MeantFor(send[k], job, device, wire)
    BY DEF IInv, Meant
  <2> QED BY <2>1, <1>1 DEF MeantFor
<1> QED BY <1>1, <1>2, <1>4, <1>5 DEF Meant, IInv

\* A message is heard, and filed under the slot its channel is found at.
LEMMA ReceiveKeeps ==
    ASSUME IInv, NEW c \in Channel, Receive(c)
    PROVE  Types' /\ Filed(history', clean', job', device', wire')
           /\ Meant(send', job', device', wire') /\ FALSE \notin misSent'
<1> DEFINE s == first(device, c)
           f == reorderSafeChannelIdx(s)
<1>1. /\ c \in Range(device) /\ history' = history \cup {<<c, f>>}
      /\ clean' = (clean /\ (planned => job.pc # "committed" /\ job.believed[s] = c))
      /\ device' = device /\ wire' = wire /\ job' = job /\ result' = result /\ send' = send
      /\ runs' = runs /\ misSent' = misSent
  BY DEF Receive
<1>2. device \in [Slot -> Value] /\ Core /\ c # Deleted
  BY ValueAssumption DEF IInv, Core, DevOK
<1>3. s \in Slot /\ device[s] = c
  <2>1. \E x \in Slot : device[x] = c
    BY <1>1, <1>2 DEF Range
  <2> QED BY <2>1, <1>2, FirstIs
<1> HIDE DEF s
<1>4. planned => job.original \in [Slot -> Value] /\ channelsOf(job.original) = channelsOf(device)
  <2> SUFFICES ASSUME planned
               PROVE job.original \in [Slot -> Value] /\ channelsOf(job.original) = channelsOf(device)
    OBVIOUS
  <2>1. Running(job, device, wire)
    BY <1>2, PlannedIsRunning DEF planned, running
  <2> QED BY <2>1 DEF Running, PlannedJob
<1>5. ASSUME planned, job.believed[s] \in Range(job.original) \cap Channel
      PROVE  f \in Slot /\ job.original[f] = job.believed[s]
  <2>1. f = first(job.original, job.believed[s])
    BY <1>5 DEF reorderSafeChannelIdx
  <2>2. \E x \in Slot : job.original[x] = job.believed[s]
    BY <1>4, <1>5 DEF Range
  <2> QED BY <1>4, <1>5, <2>1, <2>2, FirstIs
<1>6. ASSUME ~(planned /\ job.believed[s] \in Range(job.original) \cap Channel)
      PROVE  f = s
  BY <1>6 DEF reorderSafeChannelIdx
<1> HIDE DEF f
<1>7. Types'
  <2>1. f \in Slot
    BY <1>3, <1>5, <1>6
  <2>2. history' \in SUBSET Stored
    BY <1>1, <2>1 DEF IInv, Types, Stored
  <2>3. clean' \in BOOLEAN
    <3>1. clean \in BOOLEAN
      BY DEF IInv, Types
    <3>2. clean' = TRUE \/ clean' = FALSE
      BY <1>1, <3>1
    <3> QED BY <3>2
  <2> QED BY <1>1, <2>2, <2>3 DEF IInv, Types
<1>8. Filed(history', clean', job', device', wire')
  <2> SUFFICES ASSUME clean'
               PROVE  /\ \A m \in history' : holds(rows(job, device), m)
                      /\ job.pc \notin Plans => wire = <<>>
    BY <1>1 DEF Filed
  <2>1. clean /\ (planned => job.pc # "committed" /\ job.believed[s] = c)
    BY <1>1
  <2>2. /\ \A m \in history : holds(rows(job, device), m)
        /\ job.pc \notin Plans => wire = <<>>
    BY <2>1 DEF IInv, Filed
  <2>3. holds(rows(job, device), <<c, f>>)
    <3>1. CASE planned
      <4>1. c \in Range(job.original) \cap Channel
        BY <1>1, <1>4, <3>1 DEF channelsOf
      <4>2. job.original[f] = c
        BY <1>5, <2>1, <3>1, <4>1
      <4>3. rows(job, device) = job.original
        BY <2>1, <3>1, <1>2, JobPc DEF rows
      <4> QED BY <1>2, <4>2, <4>3 DEF holds
    <3>2. CASE ~planned
      <4>1. rows(job, device) = device
        BY <3>2, <1>2, JobPc DEF rows
      <4> QED BY <1>2, <1>3, <1>6, <3>2, <4>1 DEF holds
    <3> QED BY <3>1, <3>2
  <2> QED BY <1>1, <2>2, <2>3
<1>9. Meant(send', job', device', wire') /\ FALSE \notin misSent'
  BY <1>1 DEF IInv
<1> QED BY <1>7, <1>8, <1>9

-------------------------------------------------------------------------------
\* Messages.

\* sendMessage: a message is asked for, and waits for the job or is queued.
LEMMA AskKeeps ==
    ASSUME IInv, NEW k \in Sender, Ask(k)
    PROVE  Types' /\ Filed(history', clean', job', device', wire')
           /\ Meant(send', job', device', wire') /\ FALSE \notin misSent'
<1>1. PICK s \in {x \in Slot : mirror[x] # Empty} :
        send' = [send EXCEPT ![k] =
                    [at |-> IF running THEN "waiting" ELSE "queued", slot |-> s,
                     want |-> mirror[s], again |-> FALSE,
                     raced |-> mirror # before \/ (wire # <<>> /\ ~planned)]]
  BY DEF Ask
<1>2. /\ device' = device /\ wire' = wire /\ job' = job /\ result' = result
      /\ history' = history /\ runs' = runs /\ misSent' = misSent /\ clean' = clean
  BY DEF Ask
<1> DEFINE a == IF running THEN "waiting" ELSE "queued"
           ra == mirror # before \/ (wire # <<>> /\ ~planned)
           x == [at |-> a, slot |-> s, want |-> mirror[s], again |-> FALSE, raced |-> ra]
<1>3. Core /\ mirror \in [Slot -> Value]
  BY DEF IInv
<1>4. /\ ~ra /\ planned => mirror = job.original
      /\ ~ra /\ ~planned => mirror = device /\ wire = <<>>
  BY DEF before
<1>5. s \in Slot /\ mirror[s] \in Channel
  BY <1>3 DEF Value
<1>6. x \in SendRec
  <2>1. a \in {"waiting", "queued", "armed", "done"} /\ ra \in BOOLEAN /\ FALSE \in BOOLEAN
    OBVIOUS
  <2> HIDE DEF a, ra
  <2> QED BY <2>1, <1>5 DEF SendRec
<1>7. MeantFor(x, job, device, wire)
  <2>1. x.at = a /\ x.slot = s /\ x.want = mirror[s] /\ x.raced = ra
    OBVIOUS
  <2>2. a = "queued" => job.pc = "idle"
    BY <1>3, JobPc
  <2> HIDE DEF x, a, ra
  <2>3. ~ra /\ job.pc \in Plans => job.original[s] = mirror[s]
    BY <1>3, <1>4, JobPc
  <2>4. ~ra /\ job.pc \notin Plans => wire = <<>> /\ device[s] = mirror[s]
    BY <1>3, <1>4, JobPc
  <2> QED BY <2>1, <2>2, <2>3, <2>4 DEF MeantFor
<1>8. send' = [send EXCEPT ![k] = x]
  BY <1>1
<1> HIDE DEF x
<1>9. Types'
  BY <1>2, <1>6, <1>8 DEF IInv, Types
<1>10. Meant(send', job', device', wire')
  <2> SUFFICES ASSUME NEW l \in Sender
               PROVE  MeantFor(send'[l], job, device, wire)
    BY <1>2 DEF Meant
  <2>1. send'[l] = IF l = k THEN x ELSE send[l]
    BY <1>8 DEF IInv, Types
  <2> QED BY <2>1, <1>7 DEF IInv, Meant
<1> QED BY <1>2, <1>9, <1>10 DEF IInv

\* sendMessage: the message leaves for the slot it was given, and is stored.
LEMMA TransmitKeeps ==
    ASSUME IInv, NEW k \in Sender, Transmit(k)
    PROVE  Types' /\ Filed(history', clean', job', device', wire')
           /\ Meant(send', job', device', wire') /\ FALSE \notin misSent'
<1> DEFINE x == send[k]
           right == device[x.slot] = x.want
           a == IF x.again THEN "done" ELSE "armed"
           y == [x EXCEPT !.at = a]
<1>1. /\ x.at = "queued" /\ wire = <<>>
      /\ misSent' = IF right THEN misSent ELSE misSent \cup {x.raced}
      /\ send' = [send EXCEPT ![k] = y]
      /\ history' = IF x.again THEN history ELSE history \cup {<<x.want, x.slot>>}
      /\ clean' = (clean /\ (x.again \/ (right /\ ~running)))
      /\ device' = device /\ wire' = wire /\ job' = job /\ result' = result /\ runs' = runs
  BY DEF Transmit
<1>2. /\ Core /\ x \in SendRec /\ MeantFor(x, job, device, wire)
      /\ clean \in BOOLEAN /\ misSent \in SUBSET BOOLEAN /\ FALSE \notin misSent
      /\ send \in [Sender -> SendRec \cup {NoSend}]
  <2>1. /\ Core /\ send \in [Sender -> SendRec \cup {NoSend}] /\ FALSE \notin misSent
        /\ misSent \in SUBSET BOOLEAN
    BY DEF IInv, Types
  <2>2. x \in SendRec \cup {NoSend} /\ x.at = "queued"
    BY <1>1, <2>1
  <2>3. x \in SendRec
    BY <2>2 DEF NoSend
  <2>4. MeantFor(x, job, device, wire)
    BY DEF IInv, Meant
  <2>5. clean \in BOOLEAN
    BY DEF IInv, Types
  <2> QED BY <2>1, <2>3, <2>4, <2>5
<1>3. y \in SendRec /\ y.slot = x.slot /\ y.want = x.want /\ y.raced = x.raced /\ y.at # "queued"
  <2>1. a \in {"waiting", "queued", "armed", "done"} /\ a # "queued"
    OBVIOUS
  <2> HIDE DEF a
  <2>2. y \in SendRec /\ y.slot = x.slot /\ y.want = x.want /\ y.at = a
    BY <1>2, <2>1 DEF SendRec
  <2>3. y.raced = x.raced
    BY <1>2 DEF SendRec
  <2> QED BY <2>1, <2>2, <2>3
<1>4. x.slot \in Slot /\ x.want \in Channel /\ x.raced \in BOOLEAN /\ x.again \in BOOLEAN
  BY <1>2 DEF SendRec
<1>5. ~x.raced => right
  <2> HIDE DEF x
  <2>1. ~x.raced => job.pc = "idle"
    BY <1>1, <1>2 DEF MeantFor
  <2>2. ~x.raced => device[x.slot] = x.want
    BY <1>1, <1>2, <2>1 DEF MeantFor, Plans
  <2> QED BY <2>2
<1> HIDE DEF x, y, right
<1>6. Types'
  <2>1. history' \in SUBSET Stored
    BY <1>1, <1>4 DEF IInv, Types, Stored
  <2>2. send' \in [Sender -> SendRec \cup {NoSend}]
    BY <1>1, <1>2, <1>3
  <2>3. misSent' \in SUBSET BOOLEAN
    BY <1>1, <1>2, <1>4
  <2>4. clean' = TRUE \/ clean' = FALSE
    BY <1>1, <1>2
  <2> QED BY <1>1, <2>1, <2>2, <2>3, <2>4 DEF IInv, Types
<1>7. FALSE \notin misSent'
  BY <1>1, <1>2, <1>4, <1>5
<1>8. Filed(history', clean', job', device', wire')
  <2> SUFFICES ASSUME clean'
               PROVE  /\ \A m \in history' : holds(rows(job, device), m)
                      /\ job.pc \notin Plans => wire = <<>>
    BY <1>1 DEF Filed
  <2>1. clean /\ (x.again \/ (right /\ ~running))
    BY <1>1
  <2>2. \A m \in history : holds(rows(job, device), m)
    BY <2>1 DEF IInv, Filed
  <2>3. ASSUME ~x.again
        PROVE  holds(rows(job, device), <<x.want, x.slot>>)
    <3>1. job.pc = "idle" /\ device[x.slot] = x.want
      BY <2>1, <2>3, <1>2, JobPc DEF right
    <3>2. rows(job, device) = device
      BY <3>1 DEF rows, Plans
    <3>3. x.want # Deleted
      BY <1>4, ValueAssumption
    <3> QED BY <3>1, <3>2, <3>3 DEF holds
  <2> QED BY <1>1, <2>2, <2>3
<1>9. Meant(send', job', device', wire')
  <2> SUFFICES ASSUME NEW l \in Sender
               PROVE  MeantFor(send'[l], job, device, wire)
    BY <1>1 DEF Meant
  <2>1. send'[l] = IF l = k THEN y ELSE send[l]
    BY <1>1, <1>2
  <2>2. MeantFor(y, job, device, wire)
    BY <1>1, <1>2, <1>3 DEF MeantFor, Plans
  <2> QED BY <2>1, <2>2 DEF IInv, Meant
<1> QED BY <1>6, <1>7, <1>8, <1>9

\* The timer sends the message once more, to the slot its row has moved to.
LEMMA ResendKeeps ==
    ASSUME IInv, NEW k \in Sender, ResendFires(k)
    PROVE  Types' /\ Filed(history', clean', job', device', wire')
           /\ Meant(send', job', device', wire') /\ FALSE \notin misSent'
<1> DEFINE x == send[k]
           ra == x.raced \/ running
           y == [x EXCEPT !.at = "queued", !.again = TRUE, !.raced = ra]
<1>1. /\ x.at = "armed"
      /\ device' = device /\ wire' = wire /\ job' = job /\ result' = result
      /\ history' = history /\ runs' = runs /\ misSent' = misSent /\ clean' = clean
      /\ send' = [send EXCEPT ![k].at = "queued", ![k].again = TRUE, ![k].raced = @ \/ running]
  BY DEF ResendFires
<1>2. /\ Core /\ x \in SendRec /\ MeantFor(x, job, device, wire)
      /\ send \in [Sender -> SendRec \cup {NoSend}]
  BY <1>1 DEF IInv, Types, Meant, NoSend
<1>3. send' = [send EXCEPT ![k] = y]
  BY <1>1, <1>2
<1>4. y \in SendRec /\ y.slot = x.slot /\ y.want = x.want /\ y.at = "queued"
  <2>1. ra \in BOOLEAN
    OBVIOUS
  <2> HIDE DEF ra
  <2> QED BY <1>2, <2>1 DEF SendRec
<1>5. y.raced = ra
  BY <1>2 DEF SendRec
<1> HIDE DEF x, y
<1>6. MeantFor(y, job, device, wire)
  <2>1. ~y.raced => ~x.raced /\ job.pc = "idle"
    BY <1>2, <1>5, JobPc
  <2> QED BY <1>1, <1>2, <1>4, <2>1 DEF MeantFor, Plans
<1>7. Types'
  BY <1>1, <1>2, <1>3, <1>4 DEF IInv, Types
<1>8. Meant(send', job', device', wire')
  <2> SUFFICES ASSUME NEW l \in Sender
               PROVE  MeantFor(send'[l], job, device, wire)
    BY <1>1 DEF Meant
  <2>1. send'[l] = IF l = k THEN y ELSE send[l]
    BY <1>2, <1>3
  <2> QED BY <2>1, <1>6 DEF IInv, Meant
<1> QED BY <1>1, <1>7, <1>8 DEF IInv

\* The channels table: the remap moves its rows, a sync copies the device.
LEMMA MirrorKeeps ==
    ASSUME IInv, [Next]_vars
    PROVE  mirror' \in [Slot -> Value]
<1>1. Core /\ mirror \in [Slot -> Value] /\ device \in [Slot -> Value]
  BY DEF IInv, Core, DevOK
<1>2. CASE RemapCommits
  <2>1. job.pc = "remapping" /\ mirror' = moved(mirror, Moves(job.order))
    BY <1>2 DEF RemapCommits
  <2>2. job.original \in [Slot -> Value] /\ job.order \in SetToSeqs(used(job.original))
    BY <1>1, <2>1, PlannedIsRunning DEF Running, Written, PlannedJob
  <2> QED BY <1>1, <2>1, <2>2, MovedIs
<1>3. CASE syncChannelsFromDevice
  BY <1>1, <1>3 DEF syncChannelsFromDevice
<1>4. CASE ~RemapCommits /\ ~syncChannelsFromDevice
  <2>1. mirror' = mirror
    BY <1>4 DEF Next, vars, reorderChannels, ReadTables, ReadTablesFails, WriteVerified,
                WriteRefuted, WriteUnanswered, Confirm, ConfirmFails, RemapFails, RefreshFails,
                ReorderApplied, CheckRollback, CheckFails, Restart, WriteLands, WriteLost,
                Receive, Ask, Transmit, ResendFires, jobOnly
  <2> QED BY <1>1, <2>1
<1> QED BY <1>2, <1>3, <1>4

\* Every step keeps the invariant.
LEMMA IInvNext ==
    ASSUME IInv, [Next]_vars
    PROVE  IInv'
<1> DEFINE Rest == /\ Types' /\ Filed(history', clean', job', device', wire')
                   /\ Meant(send', job', device', wire') /\ FALSE \notin misSent'
<1>1. Core /\ Core'
  BY CoreNext DEF IInv
<1>0. mirror' \in [Slot -> Value]
  BY MirrorKeeps
<1> SUFFICES Rest
  BY <1>0, <1>1 DEF IInv
<1>2. CASE reorderChannels
  BY <1>2, BeginKeeps
<1>3. CASE Starts /\ UNCHANGED <<device, history, runs, misSent, clean>>
  BY <1>3, StartKeeps
<1>4. CASE Ends /\ UNCHANGED <<device, wire, history, runs, misSent>>
  BY <1>4, EndsKeep
<1>5. CASE Works
  BY <1>5, WorksKeep
<1>6. CASE WriteLands \/ WriteLost
  BY <1>6, LinkKeep
<1>7. CASE Messages
  <2>1. ASSUME NEW c \in Channel, Receive(c) PROVE Rest
    BY <2>1, ReceiveKeeps
  <2>2. ASSUME NEW k \in Sender, Ask(k) PROVE Rest
    BY <2>2, AskKeeps
  <2>3. ASSUME NEW k \in Sender, Transmit(k) PROVE Rest
    BY <2>3, TransmitKeeps
  <2>4. ASSUME NEW k \in Sender, ResendFires(k) PROVE Rest
    BY <2>4, ResendKeeps
  <2> HIDE DEF Rest
  <2> QED BY <1>7, <2>1, <2>2, <2>3, <2>4 DEF Messages
<1>8. CASE syncChannelsFromDevice \/ UNCHANGED vars
  <2>1. /\ device' = device /\ wire' = wire /\ job' = job /\ result' = result
        /\ history' = history /\ send' = send /\ runs' = runs /\ misSent' = misSent
        /\ clean' = clean
    BY <1>8 DEF syncChannelsFromDevice, vars
  <2>2. Types'
    BY <2>1 DEF IInv, Types
  <2>3. Filed(history', clean', job', device', wire') /\ Meant(send', job', device', wire')
    BY <2>1 DEF IInv
  <2> QED BY <2>1, <2>2, <2>3 DEF IInv
<1> QED BY <1>1, <1>2, <1>3, <1>4, <1>5, <1>6, <1>7, <1>8, StepIs

\* The inductive invariant holds in every state.
THEOREM IInvAlways == SafetySpec => []IInv
<1>1. IInv /\ [Next]_vars => IInv'
  BY IInvNext
<1> QED BY <1>1, IInvInit, PTL DEF SafetySpec

\* The types follow from the invariant.
LEMMA TypeFollows == IInv => TypeOK
<1> SUFFICES ASSUME IInv PROVE TypeOK
  OBVIOUS
<1>1. Core /\ Types /\ device \in [Slot -> Value]
  BY DEF IInv, Core, DevOK
<1>2. \A i \in DOMAIN wire : wire[i] \in [slot : Slot, value : Value]
  <2>1. wire \in Seq(Write(channelsOf(device))) /\ channelsOf(device) \subseteq Channel
    BY <1>1 DEF Core, Spared, channelsOf
  <2>2. wire \in Seq(AnyWrite)
    BY <2>1, WritesAreWrites
  <2>3. \A i \in DOMAIN wire : wire[i] \in AnyWrite
    BY <2>2
  <2> QED BY <2>3 DEF AnyWrite
<1>3. job = Idle \/ job.pc \in Phases
  BY <1>1, JobPc DEF Phases, Plans
<1>4. planned => /\ job.original \in [Slot -> Value]
                 /\ job.believed \in [Slot -> Value \cup {Unknown}]
                 /\ Range(job.todo) \subseteq [slot : Slot, value : Value]
                 /\ job.tries \in {0, 1} /\ job.failed \in BOOLEAN
  <2> SUFFICES ASSUME planned
               PROVE  /\ job.original \in [Slot -> Value]
                      /\ job.believed \in [Slot -> Value \cup {Unknown}]
                      /\ Range(job.todo) \subseteq [slot : Slot, value : Value]
                      /\ job.tries \in {0, 1} /\ job.failed \in BOOLEAN
    OBVIOUS
  <2>1. job \in PlannedJob
    BY <1>1, PlannedIsRunning DEF planned, running
  <2>2. job.todo \in Seq(AnyWrite)
    BY <2>1 DEF PlannedJob
  <2>3. Range(job.todo) \subseteq [slot : Slot, value : Value]
    <3>1. \A i \in DOMAIN job.todo : job.todo[i] \in AnyWrite
      BY <2>2
    <3> QED BY <3>1 DEF Range, AnyWrite
  <2> QED BY <2>1, <2>3 DEF PlannedJob
<1>5. \A k \in Sender : send[k].at \in {"none", "waiting", "queued", "armed", "done"}
  BY <1>1 DEF Types, SendRec, NoSend
<1>6. mirror \in [Slot -> Value]
  BY DEF IInv
<1> QED BY <1>1, <1>2, <1>3, <1>4, <1>5, <1>6 DEF TypeOK, Types, Stored

\* ChannelReorder, reorderChannels: the variables have their types in every state.
THEOREM TypeCorrect == SafetySpec => []TypeOK
BY IInvAlways, TypeFollows, PTL

\* remapMeshCoreChannelReferences: unless a job was abandoned half-way, the stored
\* messages name the slots their channels are in whenever no job runs.
THEOREM HistoryStays == SafetySpec => []HistoryFollows
<1>1. IInv => HistoryFollows
  <2> SUFFICES ASSUME IInv, clean, ~running, NEW m \in history
               PROVE  follows(m)
    BY DEF HistoryFollows
  <2>1. job.pc = "idle"
    BY JobPc DEF IInv
  <2>2. holds(device, m)
    BY <2>1 DEF IInv, Filed, rows, Plans
  <2> QED BY <2>2 DEF holds, follows
<1> QED BY <1>1, IInvAlways, PTL

\* sendMessage and reorderChannels: a message that no job has overtaken, and whose slot
\* was picked from the layout the job began with, leaves for the slot its channel is in.
THEOREM SendsLed == SafetySpec => []SendsFollow
<1>1. IInv => SendsFollow
  BY DEF IInv, SendsFollow
<1> QED BY <1>1, IInvAlways, PTL

===============================================================================
