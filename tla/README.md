# MeshMonitor in TLA+

MeshMonitor is a Node.js server that keeps connections to mesh radios
(Meshtastic over TCP, serial or MQTT, MeshCore, Reticulum), records what they
report and sends messages for its users and automations. This directory holds
TLA+ modules of the parts whose correctness depends on the order of events,
TLC configurations that check them on small instances, and proofs of the main
theorems for every value of the constants.

The program is single-threaded JavaScript. Its concurrency is that of callbacks:
a method runs without interruption up to an `await`, a timer or an event, and
anything may happen before it resumes. In the modules an action is therefore one
stretch of code between two such points, and a method that awaits leaves a
record of where it stopped.

## 1. Inventory

Paths are relative to `src/src/server/` unless they begin with `src/`.

| component | state it keeps | operations | talks to |
|---|---|---|---|
| message queue (`messageQueueService.ts`) | queue, pending ACKs, timer chain, last send time | enqueue, processQueue, handleAck/handleFailure, recordExternalSend, orphan sweep | the manager sends for it and reports ACKs |
| TCP transport (`tcpTransport.ts`) | socket, connect and reconnect timers, backoff, stall watch, heartbeat, receive buffer | connect, disconnect, send, setters; socket events; health check | one Meshtastic manager owns it |
| Meshtastic connection (`meshtasticManager.ts`, `meshtastic/connectionStateMachine.ts`) | connection state, transport, config capture, resync latches, fallback timer | connect, disconnect, userDisconnect/userReconnect, requestManualResync, setNodeIpOverride, stop; transport events | transport, node, notifications, database |
| Reticulum bridge client (`reticulumBridgeClient.ts`, `src/bridge/.../ws_server.py`) | WebSocket, handshake waiter, pending requests, reconnect timer | connect, disconnect, correlated requests; socket events, timeouts | Python sidecar; `reticulumManager.ts` owns it |
| source lifecycle (`sourceManagerRegistry.ts`, `routes/sourceRoutes.ts`, `bootstrapSources.ts`) | sources table, map of managers, primary designation | create, edit, delete, connect, disconnect a source; addManager, removeManager; boot | starts and stops every manager |
| MQTT bridge, publisher pool, broker client (`mqttBridgeManager.ts`, `mqttBridgePublisherPool.ts`, `transports/mqttBrokerClient.ts`) | subscriptions, per-gateway clients, shared backoff | start/stop, publish, reconnect coordination | two brokers |
| embedded broker, ingestion (`mqttBrokerManager.ts`, `mqttIngestion.ts`) | clients, caches | accept, ingest | database |
| virtual node server (`virtualNodeServer.ts`) | clients, cached configuration, per-client queues | accept, replay configuration, relay | apps; the connection's cached configuration |
| MeshCore backend (`meshcoreNativeBackend.ts`) | two promise chains of radio operations, status requests in flight, link | run operation, status request, send, connect/disconnect | companion radio |
| MeshCore channel reorder (`meshcoreManager.ts`, `meshcoreChannelReorder.ts`) | reorder job, believed slot table, send lock, armed resends | reorder, send, file a received message | backend, database |
| rest of the MeshCore manager (`meshcoreManager.ts`) | heartbeat, contacts, direct-message retries, logins | connect, messages, telemetry | backend, database |
| forwarding engine (`utils/forwardingEngine.ts`) | token buckets, loop guard | decide, record | bridges |
| replay guard, packet-log dedup (`utils/replayGuard.ts`, `services/packetLogDedup.ts`) | time-bounded map | test and record | packet handlers |
| admin transactions (`services/adminTransactionService.ts`) | ACK waiters by packet id | send and await | transport, routing errors |
| schedulers (`services/heartbeatScheduler.ts`, `services/cronOrIntervalScheduler.ts`) | timer, in-flight flag | start, stop, tick | their owner |
| automation engine (`services/automation/`) | triggers, cooldowns | evaluate, execute | queue, manager |
| routes, database, web client, desktop, sidecar internals | data | - | - |

What is hard about them, and what makes them correct:

* **Message queue.** ACKs, routing errors, failed sends and the 60 s sweep arrive
  while a send is suspended. Correct: one processing chain, sends spaced, a
  bounded number of attempts, no message lost or reported twice, each reported
  in the end.
* **TCP transport.** Socket events, a connect timeout, a reconnect timer, a
  health check and owner calls race. Correct: the node sees one connection, no
  stale timer hits a later one, a torn-down transport stays down, a wanted link
  is retried for ever.
* **Meshtastic connection.** Handlers await a database or a notification and
  resume when the transport is another one. Correct: no orphan transport, a
  late failure spares its successor, a resync owns its watchdog, the stall
  detector is told the truth, the operator's stop lasts.
* **Reticulum bridge client.** Reconnects overlap; a socket's late events hit
  the state of a newer one. Correct: retries neither die out nor outlive
  disconnect(), no request waits on a dead socket, one reconnect at a time.
* **Source lifecycle.** Requests await the database, stop() and start() around a
  plain map, and the server answers them while it is still starting the sources one
  by one. Correct: a running manager is the one in the map, and what runs is
  what the table and the operator asked for.
* **MQTT bridge.** start() and stop() overlap at their awaits, many clients share
  one reconnect timer, and the parent broker is removed and added again under the
  bridge. Correct: exactly the clients that are down are retried, nothing is left
  after stop(), stop() returns, the bridge listens to the broker object that runs.
* **MeshCore backend.** Answers carry no name and every listener hears them all;
  some come late, some never. Correct: one command at a time, a foreign answer is
  not taken for one's own, each waiting command settles.
* **MeshCore channel reorder.** A dozen writes to the device, each of which may
  fail, go unanswered or land late, then a transaction, then perhaps a rollback,
  while messages arrive and are sent. Correct: no channel is lost, the report is
  true, stored messages and pending sends stay with their channel.
* **Virtual node, admin, schedulers.** Configuration replayed while it is captured,
  replies matched by id, late probes. Correct: a complete replay, each waiter
  settled once, no verdict from an earlier link.

`PROJECT.json` lists every component with its status, and the hazards at their
lines with the properties that cover them.

## 2. Modules

| module | contents |
|---|---|
| `MessageQueue`, `MCMessageQueue` | the queue of one source with the callbacks of the manager |
| `MessageQueueProofs` | its theorems |
| `Link` | abstract: what the owner of a transport is promised |
| `TcpTransport` | the transport; `KeepsPromise` says it implements `Link` |
| `TcpTransportProofs` | its theorems and the refinement |
| `MeshtasticConnection`, `MCMeshtasticConnection` | the connection lifecycle of one source; its transports behave as `Link` says |
| `MeshtasticConnectionProofs` | its theorems |
| `ReticulumBridge`, `MCReticulumBridge` | bridge client and the sidecar's connection handler |
| `ReticulumBridgeProofs` | its theorems |
| `SourceLifecycle`, `MCSourceLifecycle` | the registry, the requests that change Meshtastic TCP sources, and boot |
| `SourceLifecycleProofs` | its theorems |
| `ChannelReorder`, `MCChannelReorder` | the planner and the job of a MeshCore channel reorder, with the messages received and sent meanwhile |
| `ChannelReorderProofs` | its theorems, and those of the planner alone |
| `RadioOps` | the command locks of a MeshCore companion connection |
| `RadioOpsProofs` | its theorems |
| `MqttBridge` | an MQTT bridge with its publisher pool, shared reconnect timer and parent broker |
| `MqttBridgeProofs` | its theorems |

`MeshtasticConnection` is composed with the transport through `Link`: a
transport there is idle, seeking or up, and its actions are the steps `Link`
allows the real transport to take; `LinkImplemented` proves that `TcpTransport`
takes no others.

### MessageQueue

Time is counted in ticks. `sinceSend`, `sinceAttempt` and `pendingAge` are ages
that stop at the largest value a comparison of the code looks at, `wait` the
countdown of a `setTimeout`. A *loop* is a chain of `processQueue` timers; the
service intends one, the module has names for more so that a second one is a
state and not an impossibility. `pc` is where a loop stands: at a timer, in an
awaited send, or between the send's answer and the bookkeeping. A request id is
named by message and attempt because the manager draws a fresh packet id for
each send. `outcome` records the onSuccess/onFailure calls; `raced` records the
messages resolved while one of their sends was suspended.

`clear()`, which only the repository's tests call, is not modelled.

### TcpTransport

Every socket event and timer callback is one action. The gap between destroy()
or an error and 'close' is the link state "closing". Ages (`sinceData`,
`sinceMessage`) stop at `MaxAge`, `reconnectAttempts` at `MaxAttempts`, where the
exponential delay has reached its cap and further counting changes nothing.
Delays are classes: "ladder" (sync-loss ramp), "grace" (startup window),
"backoff". connect() is called when the transport is idle, which is how the
manager uses it (`CanConnect`); a disconnect() during an awaited connect() leaves
its promise unsettled ("abandoned").

### MeshtasticConnection

`attempts` are the doConnectInternal calls in progress, `handlers` the suspended
handleConnected calls with the transport they began on (`at`) and the one whose
send they await (`via`), `notices` the suspended handleDisconnected calls. Wall
clock limits (freshness of cached data, probe retries, cooldowns) are choices.
`mode` is fixed at the start: plain, passive, or passive with a virtual node.

### ReticulumBridge

A call of `connectOnce` is named by the socket it opens; `step` is where it
awaits. `wire` and `session` are the sidecar's side of a socket. An answer is
handled in the step in which the bridge gives it: a delayed answer is one the
bridge gives later, and a lost one a socket that closes first. A timer whose
handle was overwritten is still counted in `timers`; `reconnectTimer` says
whether the field holds one. When a call that the reconnect timer made fails,
the failure and the 'close' event each schedule a reconnect: `scheduleReconnect`
takes the number of calls.

### SourceLifecycle

`jobs` are the requests in flight with the step they are suspended at; a removal
is split at the await of stop(), an addition at the await of start(). Managers of
a source are numbered and a number is used again when nothing refers to it.
`alive` is what really runs, `registry` what the map says. A stop() that meets a
start() in progress may miss what the start() brings up afterwards. The routes are
those of `meshtastic_tcp` sources.

A restart takes everything down, and the boot then runs like a request, beside any
others, because the HTTP server listens before bootstrapSources is done: it reads
the table once (`BootReads`; `todo` are the sources it has yet to come to, from then on the enabled
ones),
waits in applyManagerSettings (`BootTakes`) and in start(), and designates the first
source it has started (`configured`), without another look at the table or the map.

`overlapped`, `clashed`, `undercut` and `parked` are history: sources that two
requests, or a request and the boot still to come, worked on at once; removals that
overlap each other or a start; removals that return while the boot awaits the
start(); and sources a user disconnected. They say where the properties are not
promised, because the code does not keep them there: two overlapping removals leave a
manager running outside the map, a connect that overlaps a DELETE leaves one for a
row that is gone, and section 3 has what the boot adds.

### ChannelReorder

`Plan` is planReorderWrites as a function of two tables: the writes, how the
planning ended, and whether verifyPlan accepts them. `job.pc` is the await at
which runChannelReorder is suspended. A write goes on `wire` when it is issued and
reaches `device` when it lands; the serial link keeps the order, so a read, or a
frame of a send, waits for an empty wire, while a write whose caller gave up
(`WriteUnanswered`) may still land. `job.believed` is what the manager thinks the
slots hold, and decides under which slot a received message is stored.

`mirror` is the channels table, from which whoever sends picks a slot. The remap
transaction moves it together with the messages, while the job still runs; if
nothing comes after, or a rollback does, the next syncChannelsFromDevice brings it
back to what the device holds.

`history` is the set of stored messages, each as the channel it belongs to and the
slot it is stored under. `send` follows a channel send from the reorder check to
its frame and one resend; `raced` marks those the code does not lead to the new
slot: past the check when the reorder began, fired during it, asked while a stale
write was on its way, or asked from a mirror that is not the table the reorder set
out from, whose slot the code maps a second time. `clean` and `misSent` are history variables that let
the properties separate the hazards the code handles from those it does not:
`clean` is lost when a reorder ends inconsistent, when the server stops after its
writes began, when the refresh after the commit fails, when a message arrives for
a slot whose content is believed wrongly or after the rows moved, and when a first
send is stored while a reorder runs.

`MaxReorders` bounds the calls of reorderChannels; a second one starts from any
table the first may leave, and `Init` already allows every table.

### RadioOps

`kind` says what each command is, and is chosen at the start. `lane` are
radioOpChain and statusOpChain; `link` the commands the companion has yet to
answer, `air` those whose remote node has. An event is delivered to every command
that listens for it (`react`), as in the library, which does not tag Ok, Sent and
Err. `sent` is the command whose Sent was taken, which need not be its own; trace_path
takes none and counts as acknowledged once its packet is in the air. `own` observes
whether the answer that settled a command was its own. A command given up keeps
its listeners, as the code does, until an event removes them.

### MqttBridge

One bridge object from start() to stop(): an edited bridge is a new object. The
broker source is removed and built again whenever it is edited, so its objects are
numbered. `sock` is the mqtt.js client behind each MqttBrokerClient: the
subscriber's and one per pooled gateway. `registered`, `pending`, `timer` and
`backoff` are the reconnect coordinator they share; the backoff is counted in
doublings. `start` and `stop` are the awaits at which the two methods are
suspended; `late` records a start() that went on although stop() had been called.
`parent` is the broker the bridge holds and `bound` the one its listener was put on;
unbindParentListener calls off() on `parent` and forgets `bound`, so a listener that
was put elsewhere goes to `leaked`.
`inflight` are the gateways with a packet that awaits its ok_to_mqtt verdict.

## 3. Runs

| run | checks | bounds |
|---|---|---|
| `message_queue` | all properties of the queue, with fairness | a direct message with two attempts, a channel message, a zero-hop message; two loop names; intervals 1, 2, 3 ticks; one external send |
| `tcp_transport` | all properties of the transport, the refinement and liveness | two socket names (an old and a new one); limits of one or two ticks, ages up to three, two counted attempts, three rungs of the ladder |
| `connection` | all properties of the connection | three modes, two transports, two suspended handlers, one suspended notice, three calls from outside |
| `connection_loss_retried` | finding: a failed handshake is never retried | one handler |
| `source_lifecycle` | all properties of the source lifecycle | one source, the boot and three requests in flight, four managers (a registered one, one being stopped, orphans) |
| `reticulum` | all properties of the bridge client | three sockets, one request, two reconnect timers at once |
| `channel_reorder` | no channel lost, true outcome, history follows | four slots, three channels, any initial table, one reorder, no sender |
| `channel_sends` | sends and resends follow their channel; a reorder ends | three slots, two channels, one sender, one reorder |
| `channel_sent_elsewhere` | finding: a send is transmitted on another channel | as above |
| `radio_ops` | all properties of the command locks, with fairness | three commands of any kind, two contacts |
| `mqtt_bridge` | all properties of the bridge, with fairness | two pooled gateways, two doublings, three broker objects |
| `mqtt_broker_restart` | finding: an attached bridge loses its edited broker | one gateway, two broker objects |

Several properties are conjunctions, because one hazard breaks any of their parts:

* `LoopFollowsWork` (one chain; none missing while there is work),
  `MessageAccounted` (in one table, within its budget, not lost, all ids count);
* `LinkTruthful` (one connection, flags and socket agree, a wanted link is
  retried), `TimersTruthful` (connect timeout, heartbeat, fast ramp and hang-up
  leave no timer behind), `NeverStuck` (three liveness claims);
* `ResyncCovered` (own watchdog, own latch), `RowsObeyed` (disabled is down,
  automatic is up), `RetryWhenOwed` (not before the first success, always after).

Why the bounds are enough. Every hazard involves an old and a new instance of
something: two transports, sockets, handlers or loops show it. Names are reused
once nothing refers to them, so the histories are unbounded although the names
are few. The message intervals are the smallest with SEND < RETRY < TIMEOUT, so
every comparison has both outcomes. Three calls from outside let an operator
stop, reconnect and resync, or resync twice, in one history. Three sockets let a
dead, a dialling and a configured socket of the bridge client coexist. Three
requests let two removals overlap with an addition, and any of them with the boot;
sources meet only in the primary designation, which one source shows being set and
cleared, and in the order in which the boot comes to them. Three channels
in four slots contain a cycle that needs the free slot as scratch space, a table
without a free slot, a gap, and a channel held twice; three slots keep the
combinations of a send with every failure within reach. Of three commands one
waits behind another that was given up while a third, outside the lock, is
answered. Two gateways are a connection that drops and a sibling that holds; three
broker objects are a source edited twice. What the bounds cannot show is the
subject of the proofs.

Transports, sockets, requests and channels are interchangeable names: the `MC`
modules give TLC that symmetry (safety properties only). Deadlock is checked where
the system cannot stop (`message_queue`, `tcp_transport`, `source_lifecycle`); the
other runs come to rest when the calls from outside are spent, the commands
answered, or the clients disconnected.

Each property has a mutant in `PROJECT.json`: a change of one definition, such as
a dropped guard or a missing reset, under which the same run finds it violated.

### Fairness

* `MessageQueue`: timers fire and the sweep interval ticks. No fairness on ACKs, and
  none on an awaited send: one whose socket dies between the write and its drain
  never settles (`tcpTransport.ts:536`). So `EveryMessageReported` promises
  unconditionally only that a message parked for an ACK is reported, which the sweep
  sees to; that the whole queue drains has `SendsSettle` as its hypothesis.
* `TcpTransport`: timers fire, 'close' follows destroy(), and time passes. A node
  that answers (`NodeAnswers`) is a hypothesis of `ComesUp`, not of the
  specification.
* `ChannelReorder`: what the job awaits answers, fails or times out (the backend
  bounds each device call, the database driver its own), and a write does not stay
  on the link. Nothing makes an attempt succeed.
* `RadioOps`: the timers that code arms for a running command fire. No fairness on
  the companion or the mesh, and none on the library's timers, which start with a
  Sent that may never come.
* `MqttBridge`: mqtt.js reports the end of a client it was told to end, and the
  continuation of stop() runs. No fairness on connections.
* `MeshtasticConnection`, `ReticulumBridge` and `SourceLifecycle`: only safety is
  checked.

### What the runs found

Three runs end in a counterexample, each against a sentence of the source that
`PROJECT.json` quotes under `findings`:

1. a handshake that cannot send hangs up on the transport that should retry, and
   nothing dials again (`connection_loss_retried`);
2. a channel send that queued behind another before a reorder began, or a resend
   that fires during it, is transmitted on a slot that holds another channel by
   then (`channel_sent_elsewhere`); and so, in a third way, is a send asked while the
   job still runs but the remap has moved the channels table, whose new slot
   `appliedMoves` maps again (`meshcoreManager.ts:3130`);
3. a bridge that found its broker registered listens to no registry event: after
   the broker source is edited it holds an object that is gone
   (`mqtt_broker_restart`).

Other sentences of the source are stated as definitions in the modules and do not
hold either; no run repeats them, each fails within a few steps:

* `AckStopsRetries`, "up to 3 attempts until ACK received": a late ACK during an
  awaited retry is forgotten and the message is sent again.
* `NoAckNoTimeout`: channel messages are parked for an ACK that cannot come and
  reported as failed.
* `ZeroDisables`: with an idle limit of 0, documented as disabling it, and a
  heartbeat, the phantom-link test compares with that 0 and every quiet link is
  dropped (`tcpTransport.ts:129`).
* `UserStopSticks`: userDisconnect() during a dial is overwritten by the 'connect'
  event.
* `DesignatedIsThere`: the boot designates a source that a request removed while it
  awaited the start(). Nothing clears the designation then, and
  getPrimaryMeshtasticManager falls back to whichever source comes first in the map.
* `OffIsDown`: a source disabled after bootstrapSources read the table, and before it
  comes to that source, is started all the same; overlapping edits do the like.
* `TraceNotOverruled`: trace_path keeps its Err listener while it waits up to 45 s
  for TraceData (`meshcoreNativeBackend.ts:1847`), so an Err meant for another command
  rejects a trace that the companion accepted. `StraysOnly` therefore leaves traces
  out of what it says of acknowledged requests.
* `ListenerTakenOff`: the bridge finds its broker gone and a new object in its place
  while its listener is still on the old one; bindParentListener sees that a listener
  is set (`mqttBridgeManager.ts:635`), and stop() takes it off the wrong object. It
  needs a broker that was removed while it was starting (`Stray`), without which
  `NothingLeft` says that no listener stays behind.
* `OneReconnect`: a bridge reconnect that fails in its handshake is scheduled
  twice, and the loops multiply. A consequence: when an overlapping dial replaces
  `this.ws` and fails, the older call may still finish and report "ready" with a
  dead socket. `RetryAlive` is stated with that in mind: a ready client has a live
  socket *or* another dial to come. With a limit on the attempts (which the manager
  never sets) even that fails, so the property assumes none.
* `ReplyIsOwn`: request_regions takes the first BinaryResponse after a Sent, so a
  late answer to a request given up passes for its own, though
  `meshcoreNativeBackend.ts:1648` says the lock makes this safe.
* `DbFollowsDevice`: a settings refresh that fails after the remap committed makes
  the caller restore the device although the rows have moved; the comment at
  `meshcoreManager.ts:3390` counts on the transaction alone.

Read off the modules `ChannelReorder`, `RadioOps` and `MqttBridge`, where
history variables or choices of the model stand for them: a message received
between the commit and the end of the job is filed under the old slot; a status
request has no backstop, so one that the companion ignores blocks its chain; a
message command may accept the Sent of another; start() suspended in
bootstrapMqttChannelDatabase goes on after stop() and leaves a client that nobody
ends (`late`); stop() during the first connection leaves start() pending, against
the comment at `transports/mqttBrokerClient.ts:367`; the backoff can be reset while a
sibling is dialling; a broker removed while it is starting comes up unregistered
(`Stray`); the publisher pool evicts nothing.

Read off `SourceLifecycle` rather than checked: removing the primary source's
manager for a host edit clears the designation "so a subsequent
setPrimaryMeshtasticSource call (e.g. during a transport-change remove+add cycle in
sourceRoutes) can re-designate" (`sourceManagerRegistry.ts:103`), and no route makes
that call: until the next boot the primary is whichever source comes first in the
map. And an edit that changes the host and turns autoConnect on leaves a manually
connected source on its old host, because that branch only starts what is not
running (`routes/sourceRoutes.ts:1296`); one that changes the host of a source with
autoConnect off starts it.

## 4. Proofs

All theorems hold for any set of names and any bounds satisfying the `ASSUME`s of
their module; TLC evaluates the assumptions in every run. Every invariant and
action property that a run checks, and the refinement, has its theorem.

**MessageQueue.** `TypeCorrect`, `LoopIsUnique` (`OneLoop`), `LoopOutlivesWork`
(`WorkKeepsLoop`), `LoopCovered` (`LoopFollowsWork`, both), `SendsAreSpaced`
(`RateLimit`). `TypeOK` alone is not inductive: to enter a request id among the
pending ones one must know that a suspended send counted its attempt
(`SendCounted`). `OneLoop` and `WorkKeepsLoop` need each other: enqueue starts a
chain only when `processing` is off, which means no chain only by `OneLoop`, and
stopProcessing is safe only with nothing to do. The rate limit needs `Spaced`:
while a loop waits, the remaining wait plus the age of the last send covers
SEND_INTERVAL.

`EveryMessageAccounted` (`MessageAccounted`) and `OutcomeIsFinal`
(`OneOutcomeUnlessRaced`) rest on an account of each message: where it is in the
queue, which of its request ids wait, its counters, its outcome, and what is
suspended for it. The account has four groups. `Known`: every waiting id is one
the message remembers, which is why resolving it clears them all. `Queued`: a
queued message has no answered attempt, so a failed send does not make it pending
beside the queue. `Open`: without an outcome it is somewhere. `Closed`: with one,
and not raced, nothing of it is left. The steps that work on a message are shown
to keep its account and to leave the others' alone (`Bystander`).

**TcpTransport.** The inductive invariant `IInv` adds to the properties that only
the current socket exists, that each state of it implies the flags, that a
pending timeout is in the handle that can cancel it, and that a backoff is idle.
From it follow `TypeCorrect`, `LinkIsTruthful` (`LinkTruthful`), `TimersAreTruthful`
(`TimersTruthful`) and the theorems for their parts. `LinkImplemented` maps each
step to a step of `Link` or a stutter under `phase <- Phase, conns <- AtNode`.

**MeshtasticConnection.** `IInv` is a conjunction of independent groups: transport
and attempts (`LinkInv`), handlers, flags, resync. Bystander lemmas say which
actions leave a group alone, so that each step lemma treats the few actions that
matter. `NoOrphans` needs that an attempt past its init step has torn down the
old transport (`NoneBeforeCreate`). The handler group needs that a handler that
still awaits its notification has sent nothing (`NothingSent`), so that the loss
of the link does not end it. `SuccessorSpared` is an action property from the same
invariant.

**MqttBridge.** `IInv` says of the clients what `RetryAlive` says and that the
coordinator's clients are those that exist and are not being ended (`ClientsTold`);
of start() and stop() which connections there can be at each of their awaits
(`Stages`); and of the broker that no object registered later than `broker` exists
and that a deferred bridge holds that one or none (`Following`). The stages are
needed because stop() disposes of the coordinator without looking at its clients,
and a continued start() builds a new one: either is harmless only when no
connection is left. `FollowsDeferred` needs the premise on strays weakened: a stray
that is still starting may fail, and then never was one, so `Following` counts only
those that listen (`StrayUp`). The same bound on the broker objects says that a
listener is left on an object other than `parent` only when there was a stray. From
it: `TypeCorrect`, `DownIsRetried` (`RetryAlive`),
`StopLeavesNothing` (`NothingLeft`), `DeferredFollows` (`FollowsDeferred`).

**SourceLifecycle.** `TypeCorrect`, `PrimaryServed` (`PrimaryIsServed`), `NoOrphans`
(`NoOrphan`). Each step of a request is first shown to have one of three shapes
(`Adding`, `Removing`, `Ending`), and the lemmas are about the shapes. That a
request which adds a manager still finds a number for it is a counting argument
(`RoomLeft`: no more requests, the boot among them, wait on a source than it has
unused numbers), for which the assumptions make the set of requests finite.
`PrimaryIsServed` follows from `PrimaryHeld`, which speaks of the designated source and
of the one that the boot is about to designate, since between its start() and the
designation a request may have removed it (`undercut`); it adds that the source has a
registered manager at all. `NoOrphan` is not inductive: it needs that where no removal clashed, what
starts or stops is the registered manager, for one request at a time, and nothing
else runs (`Orderly`). `RowsAreObeyed` (`RowsObeyed`) follows from `LedInv`: a source
on which no requests overlapped is either settled, that is what runs is what its row
and the operator ask for (`Settled`), or it is in the hands of the one request on it,
and where that request stands says what it still has to do (`Alone`). The boot counts
as a request on every source it has yet to come to: nothing runs there, and once the
table has been read, the row is on (`Ahead`).

**ReticulumBridge.** `TypeCorrect`, `RetriedWhenOwed` (`RetryWhenOwed`),
`NoRequestStranded` (`RequestsFollowSocket`) and the action property `NeverDialsAgain`
(`NoDialAfterDisconnect`). `RetryAlive` alone is not inductive: a socket that closes
while a newer dial is open owes nothing, so the invariant says where each
connectOnce stands with its socket (`Calls`) and that a client whose `this.ws` failed
to open has a timer (`Redialled`). `FirstFailureIsFinal` needs that before the first
"ready" there is one call, on `this.ws` (`OneCall`). What scheduleReconnect does when
several calls fail at once is one lemma (`Scheduled`). The assumption that the
sockets are finite is there because the calls that fail are counted.

**RadioOps.** `TypeCorrect`, `OnlyStrays` (`StraysOnly`), `StatusIsHeard`
(`StatusHeard`). An action answers, sends or times out a command and then the lanes
advance, so the invariant is an operator of values and has two forms: `IInv` between
steps, where the head of each lane runs, and `Mid` inside one, where it may have just
settled. An action leads to `Mid`, and `Proceed` leads back. A command that is written
is on the link or in the air once (`Traffic`), so its own answer settles it once. For
strays it needs more than the property says: unless a command outside the lock was
asked or one under it timed out, every command was settled by its own answer *and then
hears nothing* (`Orderly`).

**ChannelReorder.** `PlannerSound` is about the planner alone. Each write leaves every
channel in a slot other than the one it writes (`Spares`), since a slot is overwritten
only when its channel has a copy elsewhere or lies outside the goal. That the loop
bound of planReorderWrites always suffices is shown by a measure: `Burden` counts four
for a pending slot of the goal, one for a pending borrowed slot, and two when no
channel can be placed. A placement takes four off and adds at most two, a clearing
takes off one; a borrowed slot adds one but makes a channel placeable. The burden at
the start is below the bound. In place of an induction on turns the proof considers
the least turn at which its claim fails (`LeastExists`, from the well-foundedness of
the subset order on finite sets).

For the job, `Core` relates device, link and beliefs: each channel has a slot that no
write on the way will hit (`Spared`); what the job believes of the slots is true and
stays so, save for the slot it writes (`Mirrors`), and the writes it has yet to make
lead on from its beliefs (`Writing`). A write that is given up leaves its slot unknown,
and a rollback plans from the rest, which still holds every channel. From `Core`
follow `ChannelsKept` (`NoChannelLost`) and `OutcomesAreTrue` (`OutcomeIsTrue`).
`HistoryStays` (`HistoryFollows`) and `SendsLed` (`SendsFollow`) add which table the
rows follow at each step of a job (`Filed`), and what a send that nothing overtook can
rely on (`MeantFor`). The counting facts they need are that completeChannelMoves
sends the rows of every slot to a slot with the same content (`MovesIs`), which for
slots vacated and filled pairs elements of equal rank (`RankIs`), and that every slot
is sent to (`MovesOnto`), so that the transaction leaves the mirror a table
(`MovedIs`).

**Model-checked only.** The liveness properties (`EveryMessageReported`,
`NeverStuck`, `ReorderEnds`, `Settles`, `StopReturns`): liveness under fairness is
out of the prover's reach. The three findings are counterexamples, which only TLC
gives.

## 5. Not modelled

* Payloads, protobuf decoding, database contents and wording. A database write is
  a point where a method suspends.
* `TcpTransport`: the frame parser and the send/drain handshake; in the model data
  arrives and is complete or not. The manager calls noteConfigSyncLoss by its own
  capture flags (`meshtasticManager.ts:2359`); the module takes the transport's copy of
  them, which `StallWatchTruthful` relates to the original.
* `MeshtasticConnection`: schedulers that start after a connect, cached node data
  of non-passive sources, serial and MQTT sources.
* `ReticulumBridge`: what the sidecar does with RNS; an exception thrown by an
  'error' event that nobody listens to.
* `ChannelReorder`: names and secrets of channels, slot 0, the other rows that the
  remap carries along, direct messages, and the connection that can drop under the
  job (its calls then fail), and a sync of the channels table that a new reorder
  overtakes or that reads only some slots.
* `RadioOps`: connecting, push events, and which Sent a message command takes.
* `MqttBridge`: what a packet contains and whether it is forwarded (filters, topic
  rewrites, echo suppression, ok_to_mqtt itself), the downlink, subscriptions, flap
  diagnostics; a client without a coordinator.
* The components `PROJECT.json` marks not_modelled, with the reason there.

## 6. Plan

In this order:

1. An abstract `OutboundDelivery` (accepted, in the air, settled once) that
   `MessageQueue` implements, with the refinement proved from the accounts.
2. Composition of the transport's `abandoned` connect promise with the manager's
   `connectInFlight`, and liveness of the handshake (fallback timer, late
   cancellation). The registry composed with the connection, so that "alive" is
   the link of `MeshtasticConnection`; hot swaps of the virtual node.
3. The heartbeat scheduler composed with a link (late probes).
4. `RadioOps` and `ChannelReorder` composed, so that the writes of a reorder are
   commands in the radio lane; connection loss of the companion.
5. `VirtualNode`: replay of the configuration while it is captured.
6. `AdminTransactions`; `ForwardingEngine`, `ReplayGuard` and `PacketLogDedup` as pure
   operators with reference definitions; the frame parser and the send/drain
   handshake of the transport.
7. The downlink of the MQTT bridge with its echo caches: no loop between brokers.
8. The automation engine's cooldowns and runs.

Hazards seen in the code that these items are to settle: resynchronisation of the
frame parser after a corrupt length (`tcpTransport.ts:630`), connect() during a
backoff (`tcpTransport.ts:259`), a skip-sync latch that survives its resync
(`meshtasticManager.ts:2046`), error listeners removed before the socket is closed
(`reticulumBridgeClient.ts:643`), insertion-order eviction of the packet log
(`services/packetLogDedup.ts:177`).
