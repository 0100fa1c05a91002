------------------------------ MODULE MqttBridge ------------------------------
(***************************************************************************)
(* An MQTT bridge source (mqttBridgeManager.ts): the connection it         *)
(* subscribes with, the pool of per-gateway publishers, the coordinator    *)
(* that reconnects them all with one timer (transports/mqttBrokerClient.ts,*)
(* mqttBridgePublisherPool.ts) and the bridge's attachment to its parent   *)
(* broker, a source of its own that is removed and added again whenever it *)
(* is edited (sourceManagerRegistry.ts, routes/sourceRoutes.ts).           *)
(*                                                                         *)
(* One bridge object is followed from start() to stop(); an edited bridge  *)
(* is a new object.  The bridge names a parent broker.  Topics, filters,   *)
(* payloads, echoes and what is ingested are left out: they decide whether *)
(* a packet goes on, never who is connected.                               *)
(***************************************************************************)
EXTENDS Integers, FiniteSets

CONSTANTS
    Gateway,      \* gateways whose packets the pool publishes, the broker's own left out
    MaxBackoff,   \* bound: doublings of the shared delay, 1 s to BACKOFF_MAX_MS
    MaxBrokers    \* bound: objects the broker source is built as

ASSUME GatewayAssumption == IsFiniteSet(Gateway) /\ "subscriber" \notin Gateway
ASSUME BoundAssumption == MaxBackoff \in Nat \ {0} /\ MaxBrokers \in Nat

Subscriber == "subscriber"
Client == Gateway \cup {Subscriber}
NoBroker == 0
Broker == 1 .. MaxBrokers

VARIABLES
    \* the registry's view of the broker source
    broker,      \* the object registered last, and whether it still is
    starting,    \* broker objects whose start() has not returned
    up,          \* broker objects that listen
    \* the bridge
    listens,     \* mode is not subscribe_only
    perGateway,  \* forwardingMode is per_gateway
    start,       \* how far start() has come
    stop,        \* how far stop() has come
    late,        \* start() went on although stop() had been called
    parent,      \* parentBroker
    bound,       \* the broker parentListener was put on, NoBroker while it is null
    leaked,      \* brokers that carry a listener the bridge knows no more
    deferred,    \* the registry listeners are set
    pool,        \* publisherPool
    inflight,    \* gateways with a packet waiting in evaluateOkToMqtt
    \* the clients and their coordinator
    sock,        \* the mqtt.js client of every MqttBrokerClient
    stable,      \* clients with a stableTimer
    registered,  \* the coordinator's clients
    pending,     \* the coordinator's pending
    timer,       \* the coordinator's timer is armed
    backoff      \* doublings of backoffMs

registry == <<broker, starting, up>>
attachment == <<parent, bound, leaked, deferred>>
coordinator == <<registered, pending, timer, backoff>>
config == <<listens, perGateway>>
bridge == <<start, stop, late, pool, inflight>>
vars == <<registry, attachment, coordinator, config, bridge, sock, stable>>

Init ==
    /\ broker = [id |-> NoBroker, at |-> "absent"]
    /\ starting = {} /\ up = {}
    /\ listens \in BOOLEAN /\ perGateway \in BOOLEAN
    /\ start = "no" /\ stop = "no" /\ late = FALSE
    /\ parent = NoBroker /\ bound = NoBroker /\ leaked = {} /\ deferred = FALSE
    /\ pool = "none" /\ inflight = {}
    /\ sock = [c \in Client |-> "none"] /\ stable = {}
    /\ registered = {} /\ pending = {} /\ timer = FALSE /\ backoff = 0

-----------------------------------------------------------------------------
(* The registry and the broker source.                                     *)

\* bindParentListener with parentBroker = b: nothing while a listener is set.
bindParentListener(b) ==
    bound' = IF bound = NoBroker /\ listens THEN b ELSE bound

\* unbindParentListener takes the listener off parentBroker, whichever broker it
\* was put on, and forgets it.
unbindParentListener ==
    /\ leaked' = IF bound \in {NoBroker, parent} THEN leaked ELSE leaked \cup {bound}
    /\ bound' = NoBroker

\* addManager puts the object in the map and awaits its start().
addBroker ==
    /\ broker.at = "absent" /\ broker.id < MaxBrokers
    /\ broker' = [id |-> broker.id + 1, at |-> "registered"]
    /\ starting' = starting \cup {broker.id + 1}
    /\ UNCHANGED <<up, attachment, coordinator, config, bridge, sock, stable>>

\* start() returns and manager-started is emitted, even for an object that was
\* removed meanwhile; a deferred bridge takes it as its parent.
brokerStarted(b) ==
    /\ b \in starting
    /\ starting' = starting \ {b}
    /\ up' = up \cup {b}
    /\ IF deferred
       THEN parent' = b /\ bindParentListener(b)
       ELSE UNCHANGED <<parent, bound>>
    /\ UNCHANGED <<broker, leaked, deferred, coordinator, config, bridge, sock, stable>>

\* start() throws: logged, no event, the object stays registered.
brokerFailed(b) ==
    /\ b \in starting
    /\ starting' = starting \ {b}
    /\ UNCHANGED <<broker, up, attachment, coordinator, config, bridge, sock, stable>>

\* removeManager awaits stop(), whose first step takes the listener down; one
\* that has not come up yet is not stopped by it.
removeBroker ==
    /\ broker.at = "registered"
    /\ broker' = [broker EXCEPT !.at = "stopping"]
    /\ up' = up \ {broker.id}
    /\ UNCHANGED <<starting, attachment, coordinator, config, bridge, sock, stable>>

\* Mutant of brokerRemoved: the packet listener is not taken off.
brokerForgotten ==
    /\ broker.at = "stopping"
    /\ broker' = [broker EXCEPT !.at = "absent"]
    /\ parent' = IF deferred THEN NoBroker ELSE parent
    /\ UNCHANGED <<starting, up, bound, leaked, deferred, coordinator, config, bridge, sock, stable>>

\* The object leaves the map and manager-stopped is emitted.
brokerRemoved ==
    /\ broker.at = "stopping"
    /\ broker' = [broker EXCEPT !.at = "absent"]
    /\ IF deferred
       THEN parent' = NoBroker /\ unbindParentListener
       ELSE UNCHANGED <<parent, bound, leaked>>
    /\ UNCHANGED <<starting, up, deferred, coordinator, config, bridge, sock, stable>>

-----------------------------------------------------------------------------
(* The clients and their coordinator.                                      *)

\* Mutant of requestReconnect: a drop is noted only when no tick is to come.
retryUnlessArmed(c) ==
    IF c \in registered /\ ~timer
    THEN /\ pending' = pending \cup {c}
         /\ timer' = TRUE
         /\ backoff' = IF backoff = MaxBackoff THEN backoff ELSE backoff + 1
         /\ UNCHANGED registered
    ELSE UNCHANGED coordinator

\* requestReconnect(c), for a client that closed.
requestReconnect(c) ==
    IF c \in registered
    THEN /\ pending' = pending \cup {c}
         /\ timer' = TRUE
         /\ backoff' = IF timer \/ backoff = MaxBackoff THEN backoff ELSE backoff + 1
         /\ UNCHANGED registered
    ELSE UNCHANGED coordinator

\* Mutants of disconnect: the stability timer is left armed; only a connection
\* that is up is ended.
disconnectKeepsTimer(C) ==
    /\ registered' = registered \ C
    /\ pending' = pending \ C
    /\ stable' = stable
    /\ sock' = [c \in Client |->
                  IF c \in C /\ sock[c] # "none" THEN "ending" ELSE sock[c]]

disconnectUpOnly(C) ==
    /\ registered' = registered \ C
    /\ pending' = pending \ C
    /\ stable' = stable \ C
    /\ sock' = [c \in Client |->
                  IF c \in C /\ sock[c] = "up" THEN "ending" ELSE sock[c]]

\* disconnect() of a set of clients, up to end(): no retry and no timer is left.
disconnect(C) ==
    /\ registered' = registered \ C
    /\ pending' = pending \ C
    /\ stable' = stable \ C
    /\ sock' = [c \in Client |->
                  IF c \in C /\ sock[c] # "none" THEN "ending" ELSE sock[c]]

\* connect() of a new client that was handed the coordinator.
open(c) ==
    /\ sock' = [sock EXCEPT ![c] = "dialing"]
    /\ registered' = registered \cup {c}

\* The connection is up: 'connect'.  It is what start() waits for.
connected(c) ==
    /\ sock[c] = "dialing"
    /\ sock' = [sock EXCEPT ![c] = "up"]
    /\ stable' = stable \cup {c}
    /\ start' = IF c = Subscriber /\ start = "connecting" THEN "done" ELSE start
    /\ UNCHANGED <<registry, attachment, coordinator, config, stop, late, pool, inflight>>

\* The dial fails: 'close', most often after an 'error' that start() takes as
\* an answer as well.
dialFailed(c) ==
    /\ sock[c] = "dialing"
    /\ sock' = [sock EXCEPT ![c] = "down"]
    /\ requestReconnect(c)
    /\ start' \in {start, IF c = Subscriber /\ start = "connecting" THEN "done" ELSE start}
    /\ UNCHANGED <<registry, attachment, config, stop, late, pool, inflight, stable>>

\* The connection is lost: 'close'.
closed(c) ==
    /\ sock[c] = "up"
    /\ sock' = [sock EXCEPT ![c] = "down"]
    /\ stable' = stable \ {c}
    /\ requestReconnect(c)
    /\ UNCHANGED <<registry, attachment, config, bridge>>

\* doReconnect of the clients a tick finds due.
doReconnect(due) ==
    sock' = [c \in Client |->
               IF c \in due /\ sock[c] \notin {"none", "ending", "up"} THEN "dialing" ELSE sock[c]]

\* The shared timer fires.
tick ==
    /\ timer
    /\ timer' = FALSE
    /\ pending' = {}
    /\ doReconnect(pending)
    /\ UNCHANGED <<registry, attachment, registered, backoff, config, bridge, stable>>

\* A connection held for STABLE_RESET_MS: noteStableConnection.
held(c) ==
    /\ c \in stable
    /\ stable' = stable \ {c}
    /\ backoff' = IF pending = {} /\ ~timer THEN 0 ELSE backoff
    /\ UNCHANGED <<registry, attachment, registered, pending, timer, config, bridge, sock>>

\* mqtt.js reports the end of a pool client; the subscriber's is clientGone.
ended(g) ==
    /\ sock[g] = "ending"
    /\ sock' = [sock EXCEPT ![g] = "none"]
    /\ UNCHANGED <<registry, attachment, coordinator, config, bridge, stable>>

-----------------------------------------------------------------------------
(* The bridge.                                                             *)

\* attachParentBroker: a broker in the map is taken as it is, and only when
\* there is none are the registry's events listened to.
attachParentBroker ==
    IF broker.at # "absent"
    THEN /\ parent' = broker.id
         /\ bindParentListener(broker.id)
         /\ UNCHANGED deferred
    ELSE /\ deferred' = TRUE
         /\ UNCHANGED <<parent, bound>>

\* start() up to its first await, bootstrapMqttChannelDatabase.
startBridge ==
    /\ start = "no"
    /\ start' = "bootstrap"
    /\ attachParentBroker
    /\ UNCHANGED <<registry, leaked, coordinator, config, stop, late, pool, inflight, sock, stable>>

\* The database is ready: coordinator, pool and subscriber are built and the
\* subscriber dials.  Nothing asks whether stop() came first.
bootstrapped ==
    /\ start = "bootstrap"
    /\ start' = "connecting"
    /\ late' = (stop # "no")
    /\ pool' = IF perGateway /\ parent # NoBroker THEN "open" ELSE "none"
    /\ open(Subscriber)
    /\ pending' = {} /\ timer' = FALSE /\ backoff' = 0
    /\ UNCHANGED <<registry, attachment, config, stop, inflight, stable>>

\* The database read throws, and start() with it.
bootstrapFailed ==
    /\ start = "bootstrap"
    /\ start' = "failed"
    /\ UNCHANGED <<registry, attachment, coordinator, config, stop, late, pool, inflight, sock, stable>>

detachParentBroker ==
    parent' = NoBroker /\ unbindParentListener /\ deferred' = FALSE

\* coordinator.dispose()
dispose ==
    registered' = {} /\ pending' = {} /\ timer' = FALSE

\* stop() up to its first await.
stopBridge ==
    /\ start # "no" /\ stop = "no"
    /\ detachParentBroker
    /\ \/ /\ pool = "open"
          /\ pool' = "closed"
          /\ disconnect(Gateway)
          /\ stop' = "pool"
          /\ UNCHANGED timer
       \/ /\ pool # "open" /\ sock[Subscriber] # "none"
          /\ disconnect({Subscriber})
          /\ stop' = "client"
          /\ UNCHANGED <<pool, timer>>
       \/ /\ pool # "open" /\ sock[Subscriber] = "none"
          /\ stop' = "done"
          /\ dispose
          /\ UNCHANGED <<pool, sock, stable>>
    /\ UNCHANGED <<registry, backoff, config, start, late, inflight>>

\* Every pool client has ended: the pool is dropped, the subscriber is next.
poolClosed ==
    /\ stop = "pool"
    /\ \A g \in Gateway : sock[g] # "ending"
    /\ stop' = "client"
    /\ pool' = "none"
    /\ disconnect({Subscriber})
    /\ UNCHANGED <<registry, attachment, timer, backoff, config, start, late, inflight>>

\* The subscriber has ended: stop() drops it, disposes the coordinator, returns.
clientGone ==
    /\ stop = "client" /\ sock[Subscriber] = "ending"
    /\ stop' = "done"
    /\ sock' = [sock EXCEPT ![Subscriber] = "none"]
    /\ dispose
    /\ UNCHANGED <<registry, attachment, backoff, config, start, late, pool, inflight, stable>>

\* handleUplink of a packet of gateway g, up to evaluateOkToMqtt.
handleUplink(g) ==
    /\ up \cap (leaked \cup {bound}) # {}
    /\ sock[Subscriber] # "none"
    /\ g \notin inflight
    /\ inflight' = inflight \cup {g}
    /\ UNCHANGED <<registry, attachment, coordinator, config, start, stop, late, pool, sock, stable>>

\* Mutant of ensureEntry: a pool that was closed still opens connections.
ensureEntryClosed(g) ==
    IF pool # "none" /\ sock[g] = "none"
    THEN open(g) /\ UNCHANGED <<pending, timer, backoff>>
    ELSE UNCHANGED <<sock, coordinator>>

\* pool.publish takes the packet unless the pool is closed, and opens a
\* connection for a gateway it has none for.
ensureEntry(g) ==
    IF pool = "open" /\ sock[g] = "none"
    THEN open(g) /\ UNCHANGED <<pending, timer, backoff>>
    ELSE UNCHANGED <<sock, coordinator>>

\* handleUplink goes on.  Without a pool the subscriber publishes the packet,
\* which changes nothing here.
uplinkAllowed(g) ==
    /\ g \in inflight
    /\ inflight' = inflight \ {g}
    /\ IF sock[Subscriber] # "none"
       THEN ensureEntry(g)
       ELSE UNCHANGED <<sock, coordinator>>
    /\ UNCHANGED <<registry, attachment, config, start, stop, late, pool, stable>>

-----------------------------------------------------------------------------
BrokerStep ==
    \/ addBroker \/ removeBroker \/ brokerRemoved
    \/ \E b \in Broker : brokerStarted(b) \/ brokerFailed(b)

ClientStep ==
    \/ tick
    \/ \E c \in Client : connected(c) \/ dialFailed(c) \/ closed(c) \/ held(c)
    \/ \E g \in Gateway : ended(g)

BridgeStep ==
    \/ startBridge \/ bootstrapped \/ bootstrapFailed
    \/ stopBridge \/ poolClosed \/ clientGone
    \/ \E g \in Gateway : handleUplink(g) \/ uplinkAllowed(g)

Next == BrokerStep \/ ClientStep \/ BridgeStep

\* mqtt.js reports every end it was asked for, and what awaits it goes on.
Fairness ==
    /\ \A g \in Gateway : WF_vars(ended(g))
    /\ WF_vars(poolClosed)
    /\ WF_vars(clientGone)

SafetySpec == Init /\ [][Next]_vars
Spec == SafetySpec /\ Fairness

-----------------------------------------------------------------------------
\* The variables have their types, and what is armed belongs to what is there:
\* a stable timer to a connection that is up, a client of the coordinator to a
\* client that exists, the parent's listener to a parent.
TypeOK ==
    /\ broker \in [id : {NoBroker} \cup Broker, at : {"absent", "registered", "stopping"}]
    /\ starting \subseteq Broker /\ up \subseteq Broker
    /\ listens \in BOOLEAN /\ perGateway \in BOOLEAN /\ late \in BOOLEAN
    /\ start \in {"no", "bootstrap", "failed", "connecting", "done"}
    /\ stop \in {"no", "pool", "client", "done"}
    /\ {parent, bound} \subseteq {NoBroker} \cup Broker /\ deferred \in BOOLEAN
    /\ leaked \subseteq Broker
    /\ pool \in {"none", "open", "closed"}
    /\ inflight \subseteq Gateway
    /\ sock \in [Client -> {"none", "dialing", "up", "down", "ending"}]
    /\ \A c \in stable : sock[c] = "up"
    /\ pending \subseteq registered
    /\ \A c \in registered : sock[c] \in {"dialing", "up", "down"}
    /\ timer \in BOOLEAN /\ backoff \in 0 .. MaxBackoff
    /\ bound # NoBroker => parent # NoBroker

\* No drop is forgotten and no connection is dialled twice: the clients waiting
\* for the next tick are exactly those that are down, and while there are any a
\* tick is to come.  A client that is up or dialling is not among them, so a tick
\* opens no second socket for it (#5079), whichever sibling dropped, was added or
\* was taken away meanwhile.
RetryAlive ==
    /\ pending = {c \in Client : sock[c] = "down"}
    /\ pending # {} => timer

\* Broker objects that run, or will, although the registry has let go of them.
Stray == (up \cup starting) \ (IF broker.at = "absent" THEN {} ELSE {broker.id})

\* When stop() is done nothing of the bridge is left: no connection of the
\* subscriber or of the pool, no retry, no registry listener, and no packet that
\* was waiting for its verdict opens a connection again.  No broker keeps its
\* packet listener either, unless one that was removed while it was starting came
\* up all the same: then parentBroker may not be the object that carries it.
\* start() is the one exception: one that was still reading the database goes on.
NothingLeft ==
    stop = "done" /\ ~late =>
        /\ \A c \in Client : sock[c] = "none"
        /\ registered = {} /\ ~timer
        /\ bound = NoBroker /\ ~deferred
        /\ Stray = {} => leaked = {}

Attached ==
    /\ broker.at = "registered" /\ broker.id \in up => parent = broker.id
    /\ broker.at = "absent" => parent = NoBroker
    /\ bound = (IF listens THEN parent ELSE NoBroker)

\* A bridge that was started before its broker follows it through every edit:
\* it holds the object that listens now, holds none while there is none, and
\* its packet listener is on the object it holds.  Only a broker that was
\* removed while it was starting, and came up afterwards, disturbs this.
FollowsDeferred == deferred /\ Stray = {} => Attached

\* stop() takes the packet listener off every broker (it does not hold).
ListenerTakenOff == stop = "done" => leaked = {}

\* Every bridge that runs holds the broker that listens now, as
\* docs/features/mqtt-broker.md:101 has it of a bridge with a parent: "Detaches
\* if parent broker stops; reattaches when it comes back".
FollowsBroker ==
    start # "no" /\ stop = "no" /\ Stray = {} =>
        (broker.at = "registered" /\ broker.id \in up => parent = broker.id)

\* stop() returns: it never waits for a client nobody ends.
StopReturns == stop # "no" ~> stop = "done"
=============================================================================
