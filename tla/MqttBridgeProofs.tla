--------------------------- MODULE MqttBridgeProofs ---------------------------
(***************************************************************************)
(* Theorems of MqttBridge: the shared reconnect timer serves exactly the   *)
(* clients that are down, a stopped bridge leaves nothing behind, and a    *)
(* deferred attachment follows its broker, for any gateways and bounds.    *)
(***************************************************************************)
EXTENDS MqttBridge, TLAPS

-----------------------------------------------------------------------------
(* The inductive invariant.                                                *)

BrokerTypes ==
    /\ broker \in [id : {NoBroker} \cup Broker, at : {"absent", "registered", "stopping"}]
    /\ starting \subseteq Broker /\ up \subseteq Broker
    /\ parent \in {NoBroker} \cup Broker /\ bound \in {NoBroker} \cup Broker
    /\ deferred \in BOOLEAN /\ listens \in BOOLEAN /\ leaked \subseteq Broker

BridgeTypes ==
    /\ perGateway \in BOOLEAN /\ late \in BOOLEAN
    /\ start \in {"no", "bootstrap", "failed", "connecting", "done"}
    /\ stop \in {"no", "pool", "client", "done"}
    /\ pool \in {"none", "open", "closed"}
    /\ inflight \subseteq Gateway

ClientTypes ==
    /\ sock \in [Client -> {"none", "dialing", "up", "down", "ending"}]
    /\ stable \subseteq Client /\ registered \subseteq Client /\ pending \subseteq Client
    /\ timer \in BOOLEAN /\ backoff \in 0 .. MaxBackoff

\* What the coordinator knows of a client is what the client is.
ClientsTold ==
    /\ \A c \in Client : c \in stable => sock[c] = "up"
    /\ \A c \in Client : c \in registered <=> sock[c] \in {"dialing", "up", "down"}
    /\ \A c \in Client : c \in pending <=> sock[c] = "down"
    /\ pending # {} => timer

\* Which connections there can be at each stage of start() and stop().
Stages ==
    /\ start \in {"no", "bootstrap", "failed"} =>
            pool = "none" /\ ~timer /\ \A c \in Client : sock[c] = "none"
    /\ pool = "none" => \A g \in Gateway : sock[g] = "none"
    /\ pool = "open" => stop = "no"
    /\ pool = "closed" => stop = "pool" /\ \A g \in Gateway : sock[g] \in {"none", "ending"}
    /\ stop \in {"pool", "client"} => start \in {"connecting", "done"}
    /\ stop = "client" => pool = "none"
    /\ stop = "done" => pool = "none"
    /\ stop = "done" /\ ~late => ~timer /\ \A c \in Client : sock[c] = "none"

\* What is held of the broker before start() and after stop().
Detached ==
    /\ start = "no" \/ stop # "no" =>
            parent = NoBroker /\ bound = NoBroker /\ ~deferred
    /\ start = "no" => stop = "no"

\* Broker objects that listen although the registry has let go of them.
StrayUp == up \ (IF broker.at = "absent" THEN {} ELSE {broker.id})

\* A deferred bridge holds the registered object or none.
Following ==
    /\ broker.at # "absent" => broker.id \in Broker
    /\ \A b \in up \cup starting : b <= broker.id
    /\ bound # NoBroker => parent # NoBroker
    /\ deferred \/ bound \in {NoBroker, parent}
    /\ StrayUp = {} => leaked = {}
    /\ deferred /\ StrayUp = {} =>
            /\ Attached
            /\ parent \in {NoBroker, broker.id}

IInv == BrokerTypes /\ BridgeTypes /\ ClientTypes /\ ClientsTold /\ Stages /\ Detached /\ Following

-----------------------------------------------------------------------------
(* Facts of the constants, and which steps leave which variables alone.    *)

\* The clients are the gateways and the subscriber, and no broker is NoBroker.
LEMMA Values ==
    /\ Subscriber \in Client /\ Gateway \subseteq Client /\ Client = Gateway \cup {Subscriber}
    /\ Subscriber \notin Gateway
    /\ NoBroker \notin Broker
BY GatewayAssumption, BoundAssumption DEF Subscriber, Client, NoBroker, Broker

\* Steps that touch neither the broker source nor the attachment to it.
AttachmentBystander ==
    \/ ClientStep \/ bootstrapped \/ bootstrapFailed \/ poolClosed \/ clientGone
    \/ (\E g \in Gateway : handleUplink(g))
    \/ (\E g \in Gateway : uplinkAllowed(g)) \/ UNCHANGED vars

\* What they leave alone.
LEMMA AttachmentUntouched ==
    ASSUME AttachmentBystander
    PROVE  UNCHANGED <<broker, starting, up, parent, bound, leaked, deferred, listens>>
BY DEF AttachmentBystander, ClientStep, tick, connected, dialFailed, closed, held,
    ended, bootstrapped, bootstrapFailed, poolClosed, clientGone, handleUplink,
    uplinkAllowed, doReconnect, requestReconnect, open, disconnect, dispose,
    ensureEntry, vars, registry, attachment, coordinator, config, bridge

\* Steps that touch neither a client nor the coordinator.
CoordinatorBystander ==
    \/ BrokerStep \/ startBridge \/ bootstrapFailed
    \/ (\E g \in Gateway : handleUplink(g)) \/ UNCHANGED vars

\* What they leave alone.
LEMMA CoordinatorUntouched ==
    ASSUME CoordinatorBystander
    PROVE  UNCHANGED <<registered, pending, timer, backoff, sock, stable>>
BY DEF CoordinatorBystander, BrokerStep, addBroker, brokerStarted, brokerFailed,
    removeBroker, brokerRemoved, unbindParentListener, startBridge, bootstrapFailed, handleUplink,
    bindParentListener, attachParentBroker, vars, registry, attachment, coordinator,
    config, bridge

\* Steps of clients and brokers that start() and stop() do not see.
ProgressBystander ==
    \/ BrokerStep \/ tick \/ (\E c \in Client : closed(c))
    \/ (\E c \in Client : held(c)) \/ (\E g \in Gateway : ended(g))
    \/ UNCHANGED vars

\* What they leave alone.
LEMMA ProgressUntouched ==
    ASSUME ProgressBystander
    PROVE  UNCHANGED <<start, stop, late, pool, inflight, perGateway>>
BY DEF ProgressBystander, BrokerStep, addBroker, brokerStarted, brokerFailed,
    removeBroker, brokerRemoved, unbindParentListener, tick, closed, held, ended, bindParentListener,
    doReconnect, requestReconnect, vars, registry, attachment, coordinator, config,
    bridge

\* Steps after which the stage and the connections are what they were.
StageBystander ==
    \/ BrokerStep \/ (\E c \in Client : held(c))
    \/ (\E g \in Gateway : handleUplink(g)) \/ UNCHANGED vars

\* What they leave alone.
LEMMA StageUntouched ==
    ASSUME StageBystander
    PROVE  UNCHANGED <<start, stop, late, pool, sock, timer>>
BY DEF StageBystander, BrokerStep, addBroker, brokerStarted, brokerFailed,
    removeBroker, brokerRemoved, unbindParentListener, held, handleUplink, bindParentListener, vars,
    registry, attachment, coordinator, config, bridge

-----------------------------------------------------------------------------
(* Types.                                                                  *)

\* The registry's view and the attachment keep their types.
LEMMA BrokerTypesKept ==
    ASSUME BrokerTypes, [Next]_vars
    PROVE  BrokerTypes'
<1>1. CASE addBroker
  <2>1. broker.id + 1 \in Broker
    BY <1>1, BoundAssumption DEF addBroker, BrokerTypes, Broker, NoBroker
  <2>2. broker' \in [id : {NoBroker} \cup Broker, at : {"absent", "registered", "stopping"}]
    BY <1>1, <2>1 DEF addBroker
  <2>3. UNCHANGED <<up, parent, bound, leaked, deferred, listens>> /\ starting' \subseteq Broker
    BY <1>1, <2>1 DEF addBroker, BrokerTypes, attachment, config
  <2> QED
    BY <2>2, <2>3 DEF BrokerTypes
<1>2. ASSUME NEW b \in Broker, brokerStarted(b) PROVE BrokerTypes'
    BY <1>2 DEF brokerStarted, bindParentListener, config, BrokerTypes
<1>3. ASSUME NEW b \in Broker, brokerFailed(b) PROVE BrokerTypes'
    BY <1>3 DEF brokerFailed, attachment, config, BrokerTypes
<1>4. CASE removeBroker
    BY <1>4 DEF removeBroker, attachment, config, BrokerTypes
<1>5. CASE brokerRemoved
    BY <1>5 DEF brokerRemoved, unbindParentListener, config, BrokerTypes
<1>6. CASE startBridge
    BY <1>6 DEF startBridge, attachParentBroker, bindParentListener, registry,
        config, BrokerTypes
<1>7. CASE stopBridge
    BY <1>7 DEF stopBridge, detachParentBroker, unbindParentListener, disconnect, dispose, registry,
        config, BrokerTypes
<1>8. CASE AttachmentBystander
    BY <1>8, AttachmentUntouched DEF BrokerTypes
<1> QED
    BY <1>1, <1>2, <1>3, <1>4, <1>5, <1>6, <1>7, <1>8 DEF Next, BrokerStep,
        ClientStep, BridgeStep, AttachmentBystander

\* What start() and stop() keep has its type.
LEMMA BridgeTypesKept ==
    ASSUME BridgeTypes, [Next]_vars
    PROVE  BridgeTypes'
<1>1. ASSUME NEW c \in Client, connected(c) PROVE BridgeTypes'
    BY <1>1 DEF connected, config, BridgeTypes
<1>2. ASSUME NEW c \in Client, dialFailed(c) PROVE BridgeTypes'
    BY <1>2 DEF dialFailed, requestReconnect, config, BridgeTypes
<1>3. CASE startBridge
    BY <1>3 DEF startBridge, attachParentBroker, bindParentListener, config,
        BridgeTypes
<1>4. CASE bootstrapped
    BY <1>4 DEF bootstrapped, open, config, BridgeTypes
<1>5. CASE bootstrapFailed
    BY <1>5 DEF bootstrapFailed, config, BridgeTypes
<1>6. CASE stopBridge
    BY <1>6 DEF stopBridge, detachParentBroker, unbindParentListener, disconnect, dispose, config,
        BridgeTypes
<1>7. CASE poolClosed
    BY <1>7 DEF poolClosed, disconnect, config, BridgeTypes
<1>8. CASE clientGone
    BY <1>8 DEF clientGone, dispose, config, BridgeTypes
<1>9. ASSUME NEW g \in Gateway, handleUplink(g) PROVE BridgeTypes'
    BY <1>9 DEF handleUplink, config, BridgeTypes
<1>10. ASSUME NEW g \in Gateway, uplinkAllowed(g) PROVE BridgeTypes'
    BY <1>10 DEF uplinkAllowed, ensureEntry, open, config, BridgeTypes
<1>11. CASE ProgressBystander
    BY <1>11, ProgressUntouched DEF BridgeTypes
<1> QED
    BY <1>1, <1>2, <1>3, <1>4, <1>5, <1>6, <1>7, <1>8, <1>9, <1>10, <1>11 DEF Next,
        BrokerStep, ClientStep, BridgeStep, ProgressBystander

\* The clients and their coordinator keep their types.
LEMMA ClientTypesKept ==
    ASSUME ClientTypes, [Next]_vars
    PROVE  ClientTypes'
<1>1. CASE tick
    BY <1>1, Values DEF tick, doReconnect, ClientTypes
<1>2. ASSUME NEW c \in Client, connected(c) PROVE ClientTypes'
    BY <1>2, Values DEF connected, coordinator, ClientTypes
<1>3. ASSUME NEW c \in Client, dialFailed(c) PROVE ClientTypes'
  <2>1. backoff' \in 0 .. MaxBackoff
    BY <1>3, BoundAssumption DEF dialFailed, requestReconnect, coordinator, ClientTypes
  <2>2. ClientTypes' \/ backoff' \notin 0 .. MaxBackoff
    BY <1>3, Values DEF dialFailed, requestReconnect, coordinator, ClientTypes
  <2> QED
    BY <2>1, <2>2
<1>4. ASSUME NEW c \in Client, closed(c) PROVE ClientTypes'
  <2>1. backoff' \in 0 .. MaxBackoff
    BY <1>4, BoundAssumption DEF closed, requestReconnect, coordinator, ClientTypes
  <2>2. ClientTypes' \/ backoff' \notin 0 .. MaxBackoff
    BY <1>4, Values DEF closed, requestReconnect, coordinator, ClientTypes
  <2> QED
    BY <2>1, <2>2
<1>5. ASSUME NEW c \in Client, held(c) PROVE ClientTypes'
    BY <1>5, BoundAssumption DEF held, ClientTypes
<1>6. ASSUME NEW g \in Gateway, ended(g) PROVE ClientTypes'
    BY <1>6, Values DEF ended, coordinator, ClientTypes
<1>7. CASE bootstrapped
  <2>1. backoff' \in 0 .. MaxBackoff
    BY <1>7, BoundAssumption DEF bootstrapped
  <2>2. /\ sock' = [sock EXCEPT ![Subscriber] = "dialing"]
        /\ registered' = registered \cup {Subscriber} /\ pending' = {}
        /\ timer' = FALSE /\ stable' = stable
    BY <1>7 DEF bootstrapped, open
  <2> QED
    BY <2>1, <2>2, Values DEF ClientTypes
<1>8. CASE stopBridge
    BY <1>8, Values DEF stopBridge, detachParentBroker, unbindParentListener, disconnect, dispose,
        ClientTypes
<1>9. CASE poolClosed
    BY <1>9, Values DEF poolClosed, disconnect, ClientTypes
<1>10. CASE clientGone
    BY <1>10, Values DEF clientGone, dispose, ClientTypes
<1>11. ASSUME NEW g \in Gateway, uplinkAllowed(g) PROVE ClientTypes'
    BY <1>11, Values DEF uplinkAllowed, ensureEntry, open, coordinator, ClientTypes
<1>12. CASE CoordinatorBystander
    BY <1>12, CoordinatorUntouched DEF ClientTypes
<1> QED
    BY <1>1, <1>2, <1>3, <1>4, <1>5, <1>6, <1>7, <1>8, <1>9, <1>10, <1>11, <1>12 DEF
        Next, BrokerStep, ClientStep, BridgeStep, CoordinatorBystander

-----------------------------------------------------------------------------
(* The clients and their coordinator.                                      *)

\* The coordinator stays true to its clients: a tick takes exactly those that are
\* down, and what is disposed of or built anew is so when no client is left.
LEMMA ClientsToldKept ==
    ASSUME ClientTypes, BridgeTypes, ClientsTold, Stages, [Next]_vars
    PROVE  ClientsTold'
<1>1. CASE tick
    BY <1>1, Values DEF tick, doReconnect, ClientsTold, ClientTypes
<1>2. ASSUME NEW c \in Client, connected(c) PROVE ClientsTold'
    BY <1>2, Values DEF connected, coordinator, ClientsTold, ClientTypes
<1>3. ASSUME NEW c \in Client, dialFailed(c) PROVE ClientsTold'
    BY <1>3, Values DEF dialFailed, requestReconnect, coordinator, ClientsTold,
        ClientTypes
<1>4. ASSUME NEW c \in Client, closed(c) PROVE ClientsTold'
    BY <1>4, Values DEF closed, requestReconnect, coordinator, ClientsTold,
        ClientTypes
<1>5. ASSUME NEW c \in Client, held(c) PROVE ClientsTold'
    BY <1>5, Values DEF held, ClientsTold, ClientTypes
<1>6. ASSUME NEW g \in Gateway, ended(g) PROVE ClientsTold'
    BY <1>6, Values DEF ended, coordinator, ClientsTold, ClientTypes
<1>7. CASE bootstrapped
    BY <1>7, Values DEF bootstrapped, open, ClientsTold, ClientTypes, Stages
<1>8. CASE stopBridge
    BY <1>8, Values DEF stopBridge, detachParentBroker, unbindParentListener, disconnect, dispose,
        ClientsTold, ClientTypes, Stages, BridgeTypes
<1>9. CASE poolClosed
    BY <1>9, Values DEF poolClosed, disconnect, ClientsTold, ClientTypes, Stages
<1>10. CASE clientGone
    BY <1>10, Values DEF clientGone, dispose, ClientsTold, ClientTypes, Stages
<1>11. ASSUME NEW g \in Gateway, uplinkAllowed(g) PROVE ClientsTold'
    BY <1>11, Values DEF uplinkAllowed, ensureEntry, open, coordinator, ClientsTold,
        ClientTypes
<1>12. CASE CoordinatorBystander
    BY <1>12, CoordinatorUntouched DEF ClientsTold, ClientTypes
<1> QED
    BY <1>1, <1>2, <1>3, <1>4, <1>5, <1>6, <1>7, <1>8, <1>9, <1>10, <1>11, <1>12 DEF
        Next, BrokerStep, ClientStep, BridgeStep, CoordinatorBystander

\* The connections there are fit the stage that start() and stop() have reached.
LEMMA StagesKept ==
    ASSUME BridgeTypes, ClientTypes, ClientsTold, BrokerTypes, Detached, Stages, [Next]_vars
    PROVE  Stages'
<1>1. CASE tick
    BY <1>1, Values DEF tick, doReconnect, attachment, config, bridge, Stages,
        BridgeTypes, ClientTypes, ClientsTold
<1>2. ASSUME NEW c \in Client, connected(c) PROVE Stages'
    BY <1>2, Values DEF connected, attachment, coordinator, config, Stages,
        BridgeTypes, ClientTypes, ClientsTold
<1>3. ASSUME NEW c \in Client, dialFailed(c) PROVE Stages'
    BY <1>3, Values DEF dialFailed, requestReconnect, attachment, coordinator,
        config, Stages, BridgeTypes, ClientTypes, ClientsTold
<1>4. ASSUME NEW c \in Client, closed(c) PROVE Stages'
    BY <1>4, Values DEF closed, requestReconnect, attachment, coordinator, config,
        bridge, Stages, BridgeTypes, ClientTypes, ClientsTold
<1>5. ASSUME NEW g \in Gateway, ended(g) PROVE Stages'
    BY <1>5, Values DEF ended, attachment, coordinator, config, bridge, Stages,
        BridgeTypes, ClientTypes, ClientsTold
<1>6. CASE startBridge
    BY <1>6, Values DEF startBridge, attachParentBroker, bindParentListener,
        coordinator, config, Stages, BridgeTypes, ClientTypes, ClientsTold
<1>7. CASE bootstrapped
    BY <1>7, Values DEF bootstrapped, open, attachment, config, Stages, BridgeTypes,
        ClientTypes, ClientsTold, Detached
<1>8. CASE bootstrapFailed
    BY <1>8, Values DEF bootstrapFailed, attachment, coordinator, config, Stages,
        BridgeTypes, ClientTypes, ClientsTold
<1>9. CASE stopBridge
    BY <1>9, Values DEF stopBridge, detachParentBroker, unbindParentListener, disconnect, dispose, config,
        Stages, BridgeTypes, ClientTypes, ClientsTold
<1>10. CASE poolClosed
    BY <1>10, Values DEF poolClosed, disconnect, attachment, config, Stages,
        BridgeTypes, ClientTypes, ClientsTold
<1>11. CASE clientGone
    BY <1>11, Values DEF clientGone, dispose, attachment, config, Stages,
        BridgeTypes, ClientTypes, ClientsTold
<1>12. ASSUME NEW g \in Gateway, uplinkAllowed(g) PROVE Stages'
    BY <1>12, Values DEF uplinkAllowed, ensureEntry, open, attachment, coordinator,
        config, Stages, BridgeTypes, ClientTypes, ClientsTold
<1>13. CASE StageBystander
    BY <1>13, StageUntouched DEF Stages
<1> QED
    BY <1>1, <1>2, <1>3, <1>4, <1>5, <1>6, <1>7, <1>8, <1>9, <1>10, <1>11, <1>12,
        <1>13 DEF Next, BrokerStep, ClientStep, BridgeStep, StageBystander

-----------------------------------------------------------------------------
(* The attachment to the broker.                                           *)

\* A deferred bridge goes on holding the registered object or none.
LEMMA FollowingKept ==
    ASSUME BrokerTypes, Detached, Following, [Next]_vars
    PROVE  Following'
<1>1. CASE addBroker
    BY <1>1, BoundAssumption DEF addBroker, attachment, config, Following, Attached,
        StrayUp, BrokerTypes, Broker, NoBroker
<1>2. ASSUME NEW b \in Broker, brokerStarted(b) PROVE Following'
    BY <1>2 DEF brokerStarted, bindParentListener, config, Following, Attached,
        StrayUp, BrokerTypes, Broker, NoBroker
<1>3. ASSUME NEW b \in Broker, brokerFailed(b) PROVE Following'
    BY <1>3 DEF brokerFailed, attachment, config, Following, Attached, StrayUp,
        BrokerTypes, Broker, NoBroker
<1>4. CASE removeBroker
    BY <1>4 DEF removeBroker, attachment, config, Following, Attached, StrayUp,
        BrokerTypes, Broker, NoBroker
<1>5. CASE brokerRemoved
    BY <1>5 DEF brokerRemoved, unbindParentListener, config, Following, Attached, StrayUp, BrokerTypes,
        Broker, NoBroker
<1>6. CASE startBridge
    BY <1>6 DEF startBridge, attachParentBroker, bindParentListener, registry,
        config, Following, Attached, StrayUp, BrokerTypes, Broker, NoBroker,
        Detached
<1>7. CASE stopBridge
    BY <1>7 DEF stopBridge, detachParentBroker, unbindParentListener, disconnect, dispose, registry,
        config, Following, Attached, StrayUp, BrokerTypes, Broker, NoBroker,
        Detached
<1>8. CASE AttachmentBystander
    BY <1>8, AttachmentUntouched DEF Following, Attached, StrayUp
<1> QED
    BY <1>1, <1>2, <1>3, <1>4, <1>5, <1>6, <1>7, <1>8 DEF Next, BrokerStep,
        ClientStep, BridgeStep, AttachmentBystander

\* Before start() and after stop() the bridge holds nothing of its broker.
LEMMA DetachedKept ==
    ASSUME BrokerTypes, BridgeTypes, Stages, Detached, [Next]_vars
    PROVE  Detached'
<1>1. CASE addBroker
    BY <1>1 DEF addBroker, attachment, config, bridge, Detached
<1>2. ASSUME NEW b \in Broker, brokerStarted(b) PROVE Detached'
    BY <1>2 DEF brokerStarted, bindParentListener, config, bridge, Detached
<1>3. ASSUME NEW b \in Broker, brokerFailed(b) PROVE Detached'
    BY <1>3 DEF brokerFailed, attachment, config, bridge, Detached
<1>4. CASE removeBroker
    BY <1>4 DEF removeBroker, attachment, config, bridge, Detached
<1>5. CASE brokerRemoved
    BY <1>5 DEF brokerRemoved, unbindParentListener, config, bridge, Detached
<1>6. CASE tick
    BY <1>6 DEF tick, doReconnect, registry, attachment, config, bridge, Detached
<1>7. ASSUME NEW c \in Client, connected(c) PROVE Detached'
    BY <1>7 DEF connected, registry, attachment, config, Detached, BridgeTypes
<1>8. ASSUME NEW c \in Client, dialFailed(c) PROVE Detached'
    BY <1>8 DEF dialFailed, requestReconnect, registry, attachment, config,
        Detached, BridgeTypes
<1>9. ASSUME NEW c \in Client, closed(c) PROVE Detached'
    BY <1>9 DEF closed, requestReconnect, registry, attachment, config, bridge,
        Detached
<1>10. ASSUME NEW c \in Client, held(c) PROVE Detached'
    BY <1>10 DEF held, registry, attachment, config, bridge, Detached
<1>11. ASSUME NEW g \in Gateway, ended(g) PROVE Detached'
    BY <1>11 DEF ended, registry, attachment, config, bridge, Detached
<1>12. CASE startBridge
    BY <1>12 DEF startBridge, attachParentBroker, bindParentListener, registry,
        config, Detached
<1>13. CASE bootstrapped
    BY <1>13 DEF bootstrapped, open, registry, attachment, config, Detached,
        BridgeTypes
<1>14. CASE bootstrapFailed
    BY <1>14 DEF bootstrapFailed, registry, attachment, config, Detached,
        BridgeTypes
<1>15. CASE stopBridge
    BY <1>15 DEF stopBridge, detachParentBroker, unbindParentListener, disconnect, dispose, registry,
        config, Detached
<1>16. CASE poolClosed
    BY <1>16 DEF poolClosed, disconnect, registry, attachment, config, Detached
<1>17. CASE clientGone
    BY <1>17 DEF clientGone, dispose, registry, attachment, config, Detached
<1>18. ASSUME NEW g \in Gateway, handleUplink(g) PROVE Detached'
    BY <1>18 DEF handleUplink, registry, attachment, config, Detached
<1>19. ASSUME NEW g \in Gateway, uplinkAllowed(g) PROVE Detached'
    BY <1>19 DEF uplinkAllowed, ensureEntry, open, registry, attachment, config,
        Detached
<1>20. CASE UNCHANGED vars
    BY <1>20 DEF vars, registry, attachment, coordinator, config, bridge, Detached
<1> QED
    BY <1>1, <1>2, <1>3, <1>4, <1>5, <1>6, <1>7, <1>8, <1>9, <1>10, <1>11, <1>12,
        <1>13, <1>14, <1>15, <1>16, <1>17, <1>18, <1>19, <1>20 DEF Next, BrokerStep,
        ClientStep, BridgeStep

-----------------------------------------------------------------------------
(* The theorems.                                                           *)

\* At the start nothing is connected, armed or attached.
LEMMA InitHolds == Init => IInv
<1> SUFFICES ASSUME Init PROVE IInv
    OBVIOUS
<1>1. BrokerTypes /\ Detached
    BY DEF Init, BrokerTypes, Detached
<1>2. BridgeTypes
    BY DEF Init, BridgeTypes
<1>3. ClientTypes
  <2>1. backoff \in 0 .. MaxBackoff
    BY BoundAssumption DEF Init
  <2> QED
    BY <2>1 DEF Init, ClientTypes
<1>4. ClientsTold /\ Stages
    BY Values DEF Init, ClientsTold, Stages
<1>5. Following
    BY DEF Init, Following, StrayUp
<1> QED
    BY <1>1, <1>2, <1>3, <1>4, <1>5 DEF IInv

\* No step breaks the inductive invariant.
LEMMA StepKeeps == IInv /\ [Next]_vars => IInv'
BY BrokerTypesKept, BridgeTypesKept, ClientTypesKept, ClientsToldKept, StagesKept,
    DetachedKept, FollowingKept DEF IInv

\* It holds in every state of every behaviour.
LEMMA InvariantHolds == Spec => []IInv
BY InitHolds, StepKeeps, PTL DEF Spec, SafetySpec

\* Every variable has its type, and what is armed belongs to what is there.
THEOREM TypeCorrect == Spec => []TypeOK
<1>1. IInv => TypeOK
  <2> SUFFICES ASSUME IInv PROVE TypeOK
    OBVIOUS
  <2>1. \A c \in stable : sock[c] = "up"
    BY DEF IInv, ClientTypes, ClientsTold
  <2>2. pending \subseteq registered /\ \A c \in registered : sock[c] \in {"dialing", "up", "down"}
    BY DEF IInv, ClientTypes, ClientsTold
  <2>3. bound # NoBroker => parent # NoBroker
    BY DEF IInv, Following
  <2> QED
    BY <2>1, <2>2, <2>3 DEF IInv, TypeOK, BrokerTypes, BridgeTypes, ClientTypes
<1> QED
    BY InvariantHolds, <1>1, PTL

\* The clients waiting for the shared timer are exactly those that are down, and
\* while there are any it is armed (ReconnectCoordinator).
THEOREM DownIsRetried == Spec => []RetryAlive
<1>1. IInv => RetryAlive
    BY DEF IInv, RetryAlive, ClientTypes, ClientsTold
<1> QED
    BY InvariantHolds, <1>1, PTL

\* A bridge whose stop() returned has no connection and no retry left, unless start()
\* went on after it, and no broker has a listener of it, unless one is up that the
\* registry has let go of (stop, dispose, detachParentBroker, unbindParentListener).
THEOREM StopLeavesNothing == Spec => []NothingLeft
<1>1. IInv => NothingLeft
  <2> SUFFICES ASSUME IInv, stop = "done", ~late
               PROVE  /\ \A c \in Client : sock[c] = "none"
                      /\ registered = {} /\ ~timer
                      /\ bound = NoBroker /\ ~deferred
                      /\ Stray = {} => leaked = {}
    BY DEF NothingLeft
  <2>1. ~timer /\ \A c \in Client : sock[c] = "none"
    BY DEF IInv, Stages
  <2>2. registered = {}
    BY <2>1 DEF IInv, ClientTypes, ClientsTold
  <2>3. bound = NoBroker /\ ~deferred
    BY DEF IInv, Detached
  <2>4. Stray = {} => leaked = {}
    BY DEF IInv, Following, Stray, StrayUp
  <2> QED
    BY <2>1, <2>2, <2>3, <2>4
<1> QED
    BY InvariantHolds, <1>1, PTL

\* A bridge that waits for its broker follows it through every edit
\* (attachParentBroker, manager-started, manager-stopped).
THEOREM DeferredFollows == Spec => []FollowsDeferred
<1>1. IInv => FollowsDeferred
    BY DEF IInv, Following, FollowsDeferred, Stray, StrayUp
<1> QED
    BY InvariantHolds, <1>1, PTL

=============================================================================
