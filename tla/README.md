# PyroNet in TLA+

PyroNet is a wildfire-detection network. A sensor node is two chips: the
**sensor MCU** (`firmware/sensor_mcu`) reads the sensors and decides the fire-risk
level, the **NCP** (`firmware/sensor_ncp`) speaks Wi-SUN and CoAP for it. A
**gateway** (`pyronet_gateway`) takes the nodes' CoAP requests, keeps them in a
SQLite outbox and posts them to the **cloud service** (`csp/server`), which stores
them in Postgres and projects them into its domain tables.

    sensors -> risk engine -> risk service -> host link ==UART== host link -> CoAP transmit
       (MCU main loop, one thread)                       (NCP main loop | stack thread)
    CoAP transmit ==mesh== CoAP intake -> outbox <- retry worker ==HTTP== uplink ingest
                           (a thread each)         (main thread)            (cloud)
    NCP event ring <- CoAP receive ==mesh== delivery service ==HTTP== downlink dispatch
    (to the host)     (stack thread)        (a thread each)           (cloud)

This directory specifies the parts of that path that carry the system's own logic,
checks them with TLC on small instances, and proves the central results with TLAPS.
`PROJECT.json` maps every definition to the source lines it stands for and lists
the hazards the properties were written for.

## 1. Inventory

| Part | State | Operations | What is hard |
|---|---|---|---|
| NCP CoAP transmit (`ncp/pyronet_ncp_tx.c`, `pyronet_ncp_pending_tx.c`) | 32-slot table of pending confirmable requests | reserve, submit, commit, release, response callback | main thread and stack thread; a callback before the commit; results without a message id; a full table; refused submits |
| NCP event queue (`ncp/pyronet_ncp_events.c`) | 16-entry ring | push, coalesced registration request, next | two writers; drop-oldest; wrap-around; update in place |
| Risk engine (`services/risk/pyronet_risk_engine.c`) | level, neighbour hold, override, thresholds, latest readings, report deadline | readings, neighbour alert, override, config, tick | any order of six handlers; a hold that ends between two of them |
| Risk service, main loop (`pyronet_risk_service.c`, `app.c`) | one pending slot per kind of message | direct send, defer, flush, periodic packet | deferral, replacement and overtaking; eventual delivery |
| Gateway intake (`coap_intake.py`, `service.py`) | duplicate cache; a thread per datagram | parse, look up, store, answer | check-then-act on the cache; crash between commit and answer |
| Gateway store (`storage.py`) | one SQLite connection for all threads | transactions, outbox, sequence, dead letters | two kinds of writers on one connection; rollback of another thread's write |
| Retry worker (`retry_worker.py`, `backhaul_client.py`) | a snapshot of due rows | post, delete, retry, dead-letter | stale snapshot; timeouts with late handling; backoff |
| Uplink ingest (`csp/server/index.ts`) | `gateway_uplinks`, receipts, devices | idempotent store, project, receipt | order between a node's packets; duplicate ids |
| NCP network state and registration (`ncp/pyronet_ncp_state.c`, `pyronet_ncp_tx.c`) | join state, what is still to be registered, deferred registration | mesh status, poll connectivity, session synchronisation, try to register | status changes between two critical sections; the request passes two queues and a wire |
| Host links (`transport/host_link.c`, `host/host_link.c`) | handshake state, session synchronisation, the request waited for | hello, ping, status, commands, events | reset of one side; late answers; events held back until a status request |
| Boundary transmitter (`app/app_boundary_tx.c`), provisioning | a pending parent update (the identity is built in) | answer a registration request, send or defer a parent update, flush | a registration the link does not take is not kept, a parent update is |
| NCP downlink receive, parent polling (`ncp/pyronet_ncp_rx.c`, `pyronet_ncp_state.c`) | neighbour table and one that waits, local id, last parent | receive, accept, defer, remember the id, poll the parent | check and store in two critical sections; a session that ends while the parent is read |
| Gateway downlink delivery, HTTP API (`downlink_delivery_service.py`, `downlink_http_api.py`, `coap_downlink_client.py`) | owners of downlinks under way, terminal results | look up, own or wait, exchange, store, release | threads for one downlink; lost wake-ups; crash or failed access around the store |
| Cloud downlink dispatch (`csp/server/index.ts`, `schema.sql`) | `gateway_downlinks` rows, the claimed batch | queue, claim, post, apply, mark failure | retry of what is still under way; a CHECK on two clocks; a dispatcher that dies |
| MCU BSEC state store (`services/air_quality/bsec_service.c`, `bsec_state_store.c`) | two flash pages of records | save with rotation, scan, restore | power lost in any of four flash operations; failed saves and their retry |
| Gateway registration worker | connected flag, backoff | register, note failure | not modelled: one thread, nothing on the way of an uplink or downlink reads the flag |
| MCU time anchor | one flag | set, resolve | a flag of `RiskService` |
| Cloud console API, notifications, history, e-mail; web console; drivers, codecs, tools; start-up code; radio co-processor and vendor code | – | – | not modelled, see section 5 |

What makes each part correct: no confirmable request and no result is lost, doubled
or given to another destination (transmit); the ring is a queue whatever its fill
(events); the level is what the policy supports and what was last reported (risk);
an acknowledged uplink is never lost and leaves the outbox only for a reason, and
every row leaves it in the end (gateway); a downlink is exchanged by one thread at
a time, is delivered again only if its result was lost, and its row ends and agrees
with the gateway (downlinks); what the NCP uses and reports is of the newest table
and of one session (receive); a saved calibration survives any loss of power, and a
calibrated node gets one saved (BSEC store); a node that has to register is on its way
to it and gets there (registration); both ends of the link end up in step (links); a receipt means the uplink was dealt with
(ingest).

## 2. Modules

| Module | Role |
|---|---|
| `NcpTx`, `NcpTxProps` | the transmit path and its properties |
| `EventFifo`, `NcpEvents`, `NcpDownlink` | the abstract bounded queue, the ring that implements it, and what fills the ring: received messages, joins, parent polling |
| `RiskEngine`, `RiskService`, `SensorMcu` | policy operators, the MCU's main loop around them, and the boundary transmitter beside it, with the properties |
| `GatewayStore`, `CspIngest`, `GatewayUplink` | tables and shared connection; the cloud's ingest; threads that use both, with the properties |
| `GatewayOutbox` | abstract: what disk, cloud and answers show of the uplinks; implemented by `GatewayUplink` |
| `CspDispatch`, `GatewayDownlink` | the cloud's dispatcher and its rows; the gateway's threads that serve it, over `GatewayStore`'s connection, with the properties |
| `GatewayDelivery` | abstract: the row, result, disk and acknowledgement of each downlink; implemented by `GatewayDownlink` |
| `HostLink`, `NodeRegistration` | both ends of the UART link; the two chips' way from joining the mesh to a submitted registration, with the properties |
| `BsecStore` | the flash store of the calibration, with its properties |
| `NcpTxProofs`, `NcpEventsProofs`, `NcpDownlinkProofs`, `RiskProofs`, `NodeRegistrationProofs`, `GatewayUplinkProofs`, `GatewayDownlinkProofs`, `BsecStoreProofs` | proofs |
| `MC*` | instances for TLC |

### 2.1 NcpTx

An action is one critical section of one thread. The main thread executes a
command (`Command` chooses a single send or the burst of a neighbour alert, which
runs to its end before the next command) and for each request goes through
`FailEarly`, or `Reserve` -> `Submit` -> (`Release` | `Commit`) -> `ReportSend`, or
`SubmitPlain` -> `ReportSend`: `pc` is its place in `pyronetNcpSendCoapRequest`,
`slot`, `msgId` and `req` are its locals. The stack thread runs `Callback`
(`match_and_consume`) and then `ReportCallback` (queueing the result). The
nanostack mutex, held by the stack thread in a callback and taken by the main
thread to submit, is the guard `cb = {}` of `Submit`.

`outcomes` and `verdict` are history variables: the statuses queued for a request,
and what the CoAP service said of it (`REFUSED` when it took no submit). The program identifies a request only by the
type and detail stored in its slot; the model gives each send a name of its own, so
that a result that went to another request can be told apart.

Environment (the Nanostack CoAP service is not in the repository): ids are non-zero,
distinct and increasing (their 16-bit wrap needs 65 536 sends within one
transaction's lifetime and is left out); a response carries the id and address of
its request; a timeout comes with a NULL response, hence id 0, or with the id
(`COAP_STATUS_BUILDER_MESSAGE_SENDING_FAILED`), both are allowed; a submit may be
refused with id 0 when `MayRefuse`. No step of the code waits for another, so a
request that the service never answers is the only thing that can stop progress.

A request whose reservation another's result has consumed before its commit reports
FAILED (`TRACK_COMMIT`), although it is under way, and may be ACKED later (a hazard of
the list). It has not reported SENT, so `SentEndsOnce` is not about it.

### 2.2 NcpEvents and EventFifo

Every operation of the ring holds the mutex throughout, so each is one action. An
entry is the event (message type and payload); clearing unused bytes is not modelled.
`Contents` reads the ring from `head`, and `ImplementsFifo` is the refinement: with
`q <- Contents`, every behaviour of `NcpEvents` is one of `EventFifo`.

### 2.3 NcpDownlink

Extends `NcpEvents` with those who fill the ring. The stack thread runs the handlers
of `pyronet_ncp_downlink_receive` and the status callback, the main thread the host's
commands and the polls. A neighbour table is accepted in two critical sections:
`ReceiveTable` reads the node id, `StoreTable` applies the table or puts it to wait;
`rx` is what the handler carries between them. `RememberLocalNodeId` is what each host
command begins with. `poll_parent` is `PollParent` (is the node joined?),
`ReadParent` (the stack is asked, without the lock) and `StoreParent` (compare, store,
report), with `poll` as its locals; `session` numbers the joins, so that two parents
of different sessions can be told apart.

`raced` is history: a table was put to wait although the id had become known between
the two critical sections of its handler (a hazard of the list), and it still waits or
has come back over a newer one. It ends with the next command if nothing newer has come
meanwhile, else with the next table; in every other state `NewestTableApplies` asks that
the newest accepted table is in use, so a handler that loses a table after such a race
violates it.

Abstractions: a join and the event it queues are one step, no other registration
event being possible between them; addresses of a parent are one value (which of the
link-local and global address is compared is left out); messages a handler refuses
change nothing; a restart of the NCP starts everything anew and is not an action.

### 2.4 RiskEngine, RiskService and SensorMcu

`RiskEngine` holds the policy as operators: `Live` (thresholds), `Supported`
(override, hold, readings), `Transition`, `Reconcile`. Absolute times are modelled by
what is left of them (`hold`, `due`), which is what the code compares. `RiskService`
is the single-threaded main loop: `pc` goes through the steps of
`app_process_action` (poll, air quality, PM2.5, tick, periodic packet, retry); while
it polls, any number of host events are handled. A handler with all its callbacks —
reconcile, report, alerts, deferral, retry of what is pending — is one action. `out`
is what the step handed to the host link, `told` and `unreported` are history
variables. `SensorMcu` adds the parent update of the boundary transmitter: it is sent
when the NCP reports a change, or waits in `update` for a time sync or for the retry of
a pass with the link ready, the two places that flush it together with the risk
service's slots. It needs a time anchor (`anchored`), which a time sync sets or a
provisioned boot time has set at the start; the risk service's requests need the sync.

An air-quality reading is evaluated at the time of its sample, so after a lock has run
out (`lapsed`) the next one may still be taken as one within it (`AtSample`): the level
can then come back to 4 until the next tick. PM2.5 is evaluated when it is submitted.

Abstractions: time advances only between polls, by zero or one unit; readings and
thresholds are small integers in the order that matters to the policy; the periodic
packet's one-minute timer may be due at any pass; `ready` changes at any poll.
A reading is otherwise less than a unit of time old. A host link call made while
`ready` succeeds. `SetOverride` has no caller in this
firmware besides its tests and is kept because the engine offers it.

### 2.5 GatewayUplink

`GatewayStore` states what the code relies on in Python's `sqlite3`: one connection
shared by all threads, so reads see uncommitted rows, a commit or a rollback acts for
whoever has written, and a DML statement opens a transaction where none is open.
`transaction()` holds the lock from `Begin` to `Commit`; `mark_retry` and `delete` do
not take it. A `BEGIN IMMEDIATE` that meets the implicit transaction of a `delete`
raises, and the handler's `rollback()` undoes the delete (`Begin`, first branch).

Intake threads: `Receive` (cache look-up) -> `Begin` -> `UpsertNode` -> `AllocateId`
-> `Insert` -> `Commit` -> `Accept` (cache write, 2.04); `Refuse` for payloads the
endpoint does not take. Main thread: `StartPass` takes the snapshot of due rows, then
per row `Post` -> `MarkRetry` | `Delete` -> `CommitWrite`, or `DeadLetter`. The cloud
handles each request in one step (`Handle`; a request that waits on a row lock of
another has no other effect on it), possibly after the gateway gave up on it; `Lose`
drops it. `Crash` restarts the process on the committed tables.

`GatewayOutbox` states what all of this amounts to for an observer of the disk, the
cloud and the answers. There are no threads, no connection and no faults in it: the disk
changes by whole commits, which may add rows with ids nobody was answered with, drop
rows the cloud has, and move rows to the dead letters, but change none; a 2.04 is given for
what is on disk or at the cloud, one request for an id; the cloud keeps what it stored.
`ImplementsOutbox` is the refinement (`rows <- conn.durable.outbox` and so on). A crash,
a rollback and every statement outside a commit are stutters of it.

Abstractions: a row that is "not due" is in `later`, and `Elapse` makes it due at any
time, which covers every retry policy; that flag is not rolled back with the tables,
which `Elapse` makes harmless. A statement and the `BEGIN` that sqlite3 puts before it are
one step. A dead letter is one step, its `BEGIN` finding no transaction open because
the main thread commits each write before the next. A 4xx is an answer to a
request that the cloud did not store. The downlink HTTP threads' transactions
behave on the connection like an intake thread's and are left to `GatewayDownlink`.

### 2.6 HostLink and NodeRegistration

`HostLink` has both ends of the UART and the frames between them. The MCU's `link`
and `phase` are `host_link_ctx.state` and `app_phase`; `request` is the request its
main loop waits for, with `done` for the answer that has come. A request that times
out and a HELLO that is not acknowledged are guarded by `Deadline`: nothing is on
the wire, or one of `MaxEarly` deadlines passes although something is. The NCP
answers a frame, or ignores it before HELLO; HELLO makes the session unsynchronised
and the first GET_STATUS synchronises it; until then no event is sent.

`NodeRegistration` extends it with the NCP's network state, deferred registration
and event queue, and composes three things that run by themselves: the NCP's main
thread, whose place in `uartTransportRun` is `pc`; the stack thread (`Connected`,
`Interrupted`, `OtherEvent`), which changes the status between any two of its
steps; and the MCU. `PollConnectivity` and `SessionJoined` are the two
critical sections of `pyronet_ncp_state_poll_connectivity`, `RequestSync` and
`QueueRegistration` the two of a session that becomes ready. The event queue is an
instance of `EventFifo`, which `NcpEvents` is proved to implement.

History: `givenUp` says that a request to register was dropped by a full queue or a
refused submit, `unnoticed` that the NCP restarted while the MCU has no reason to
send another HELLO, or that a PONG given before the restart came late enough to be
taken for the answer to a later ping, so that the MCU does not find out. The code
recovers from neither (see the hazards), so the
properties are about all other behaviours.

Abstractions: the UART keeps frames whole and in order (framing, checksums and lost
bytes are left out); sequence numbers are taken modulo `SeqMod`, which in the run is
above the number of frames that can be outstanding (the proofs do not need that); the results and other events the NCP sends are
drained without the MCU's part, which answers none of them on the link; only link
commands and the registration are sent by the MCU; the identity is valid; of the
start-up phases `WAIT_LINK` and `RUN_PING` are one, as both ping when the link is
ready; a submit with the events it queues is one step, its parts being `NcpTx`. The
token of a ping is left out: `app.c` gives every ping the same one and the NCP echoes
it, so the MCU's comparison fails only for a frame that is damaged.
The route (`routed`) comes and goes by itself; which of the three sources of
an address gives it is left out.

### 2.7 CspDispatch and GatewayDownlink

`CspDispatch` is the one dispatcher of the cloud: `Queue` inserts a row, `Claim` takes
a batch of due rows in a transaction, and for each `StartPost`, then `Apply` (one
transaction, which the CHECK of `schema.sql` may refuse) or `MarkFailure`.
`DispatcherDies` leaves what was claimed as `dispatched`: nothing claims such a row
again, so `orphans` records these rows and `EveryDownlinkEnds` excepts them.

`GatewayDownlink` has the requests on the wire and the HTTP threads. `pc` goes through
`handle_request`: `lookup` -> `acquire` -> `own` (the second look-up) -> `process`
-> `exchange` -> `begin` -> `insert` -> `commit` -> `release` -> `respond`, or
`wait` -> `woken` -> `respond` | `lookup`. `owner` is `_inflight`; `Release` removes
the key and sets the event. `Abandoned` turns requests into ones nobody waits for;
they go on in the gateway. Faults (`MaxFaults` of all kinds): `TimedOut`, a 503,
`DatabaseFails` in any access, `Crash`, `DispatcherCrash`. History: `acked`, `lost`.

`GatewayDelivery` states what dispatcher and gateway promise of one downlink together,
without threads, requests or owners: its row is queued, dispatched, retried and ends once;
a node acknowledges it only while it has no result; one result is stored, and of what was
acknowledged it is "delivered" unless a fault came (`lost`); a commit replaces no result
on disk; the row ends with the status of the stored result. `ImplementsDelivery` is the
refinement (`stored <- conn.db`, `disk <- conn.durable`). An owner that does not look
again, a waiter that goes on by itself and a second owner each break it.

Abstractions: `StartPost` has no branch for a row without gateway URL, as rows
are only queued for nodes whose gateway has one (`index.ts:2056-2066`); each row has one request body, so that answers to a `downlink_id` used
twice are not considered; requests the HTTP layer refuses (405, 404, 413, 415, 400)
change no state; whether the node is known is either, at each processing; the
confirmable exchange with its retransmissions is one step with three outcomes, an
unacknowledged one leaving open whether the node got it; the main thread's writes on
the same connection are seen only as a BEGIN that fails; the clock is one for both
machines and counts half seconds (`WholeSeconds` is what `int(time.time())` makes of it);
the statuses of domain events follow the row in the same transaction and are left out.

`RowAgreesWithStore` excuses the downlinks in `lost`: a thread that answers with another's
uncommitted result, which is then rolled back (a hazard of the list), parts row and store,
and no property speaks of the row after that, except that "delivered" was acknowledged.

### 2.8 BsecStore

An action is one operation of the flash: `Erase`, `WriteBody` (a record without its
commit word), `WriteCommit`, `EraseOld`. `Fails` and `Restart` do to the flash what
`Damaged` allows for the operation under way: an erase leaves each slot empty, torn or
whole, a body leaves an untouched or a torn slot, a commit word a torn or a valid one.
`Process` is `bsec_service_process` with outputs that are eligible to be saved or not,
`Restart` the boot with `restore_state`, of the same or another firmware.

Abstractions: a record that is neither empty nor torn has its commit word and its CRC;
the stored state is the number of the save that stored it; timing is the flag `due`.
`acked`, history, is the last successful save of a firmware; it is reset when another
firmware erases a page, as the code gives saves of one firmware no protection from
another's. `kept`, history, says that flash has what is wanted there: it becomes true
when the commit word is written, not when the service believes it, and false when the
library is calibrated again or a save becomes due. The CRC does not cover the sequence number; what a half-done erase can do to
it is not modelled (a hazard of the list).

## 3. Runs

| Run | Instance | Result |
|---|---|---|
| `MCNcpTx` | 3 confirmable and 1 plain request, 2 destinations, 2 slots, refusals, fairness | `TypeOK`, `EveryResultMatches`, `SlotBalance`, `SentIsTracked`, `SentEndsOnce`, `ResultsConserved` and the liveness property `EveryRequestEnds` hold |
| `MCNcpTxLeak` | a fourth confirmable request | `SentHasOutcome` is violated (finding 1) |
| `MCNcpDownlink` | ring of 3, 4 kinds of events, 2 tables for 2 ids, 2 sessions, 2 parents (2.9 million states) | `NodeTypeOK`, `OneLatestRegistration`, `NewestTableApplies`, `ParentsOfOneSession` and the refinement `ImplementsFifo` hold |
| `MCRiskService` | 3 readings, 2 PM2.5 values, 2 configurations, 2 override levels, hold 1, interval 2, fairness | `TypeOK`, `LevelFollowsPolicy`, `LastReportIsCurrent`, `PendingLeavesBySending` and the liveness properties `DeferredIsSent`, `ParentChangeIsSent` hold |
| `MCRiskServiceEntry` | no overrides | `SensorEntryAlerts` is violated (finding 2) |
| `MCGatewayUplink` | 2 threads, 2 uplinks and a refused packet, 2 arrivals, 2 faults, fairness | `TypeOK`, `NoStrayTransaction`, `AnsweredIsDurable`, `IdAnswersOneRequest`, the refinement `ImplementsOutbox` and the liveness property `OutboxDrains` hold |
| `MCGatewayUplinkReuse` | 2 threads, 1 fault | `AcceptedIsKept` is violated (finding 3) |
| `MCGatewayUplinkOrder` | 1 thread | `ReceiptMeansProjected` is violated (finding 4) |
| `MCNodeRegistration` | 4 mesh or route changes, 1 other event, 1 refusal, 1 reset of either chip, 1 early time-out, queue of 2, fairness | `TypeOK`, `RequiredIsPursued`, `JoinedIsConnected`, `StartedIsSynced` and the liveness property `Registers` hold |
| `MCGatewayDownlink` | 2 downlinks, one of them refused, 2 threads, batches of up to 2, 2 clock values, 2 faults, fairness | `TypeOK`, `OneExchangePerDownlink`, `WaitersHaveAnOwner`, `RedeliveredOnlyAfterLoss`, `RowAgreesWithStore`, the refinement `ImplementsDelivery` and the liveness property `EveryDownlinkEnds` hold |
| `MCGatewayDownlinkStamp` | the same without faults | `ResultsFollowQueueing` is violated (finding 5) |
| `MCBsecStore` | 2 firmwares, pages of 2 records, 7 saves, 4 faults, fairness | `TypeOK`, `SavedSurvives`, `SequenceOrdersSaves` and the liveness property `CalibratedIsSaved` hold |

**Why the bounds suffice.** `MCNcpTx` has more confirmable requests
(three) than slots (two), two of them to one destination, so exhaustion, matching by
destination among two candidates and the refusal of a request while an older one is
out all occur; a third slot adds no relation between two slots that two do not have. The ring of
three wraps, overflows and holds a registration request at its front, middle and
back. In `RiskService` every level is reachable by readings, hold and override, each
hold and interval length can run out before or after each step, and the later
configuration turns a reading of a lower level into level 5. In the gateway two
arrivals on two threads interleave at every statement with the pass and with each
other, one may be a copy of the other, and two faults allow a failed statement and a
crash in one behaviour; larger instances only repeat these meetings. In
`NodeRegistration` four changes let the mesh be joined, the route be lost before the
command arrives and come back (a deferred registration), or a node join twice; the
reset of either chip falls before, between or after any frame of a handshake; one
early time-out makes an answer arrive for a request that is no longer waited for; a
queue of two drops a registration request behind a result. In `NcpDownlink` two tables are
one that waits and one that is applied, in either order around the command that makes
the id known; two sessions are a parent poll of one that ends in the other. In
`GatewayDownlink` two threads may serve the same downlink, one as the owner and one
waiting, or two; two faults allow a request that is given up and a failed access or a
crash while its retry is under way; the downlink that is refused whatever happens
lets a second row share dispatcher, threads and connection at few states; one step of
the clock makes a stamp older than its row. In `BsecStore` pages of two records are
full after two saves, so seven saves fill and erase each page more than once, and four
faults allow a rotation that fails to be followed by failures of its repetition.

**Deadlock** is checked except in the `NcpTx` runs, where the system stops when the
host has commanded all the requests of the instance, in the `GatewayDownlink` runs,
where it stops when every row is terminal, and in `MCBsecStore`, where it stops when
the bound of saves and faults is used up.

**Fairness.** `NcpTx`: the main loop goes on (`WF` of `MainStep`), and the CoAP
service ends every transaction, by its bounded retransmission if nothing else (`WF`
of `Respond`, `ReportCallback`). `RiskService`: `app_process_action` is called for
ever, and its poll comes to an end (`WF` of `LoopStep`); nothing is assumed of link,
time sync or sensors, `DeferredIsSent` and `ParentChangeIsSent` ask for them in their
premises. `NodeRegistration`: both main loops go on for ever and the
MCU's deadlines pass (`WF` of `NcpStep`, `McuReceive`, `McuRequest`, `McuTimeout`), and
the NCP reads what is on the wire in one of its passes (`SF` of `Receive`: each
pass reads until no byte is left); mesh, route and resets are bound by nothing. Gateway: threads
run (`WF` of each `IntakeStep` and of `WorkerStep`), the clock goes on (`WF` of
`Elapse`), and of a request posted again and again one is answered with a receipt in
time (`SF`): without it a cloud that is down for ever keeps the row, as it should.
`GatewayDownlink`: threads and dispatcher run, a request that is waited for reaches a
thread (`WF` each), and a row that is due is claimed in the end (`SF`: batches take
rows in the order they are due); faults are bounded, so retries end. `BsecStore`: the
main loop goes on, and the node is processed again while its outputs stay eligible
(`WF` of `SaveStep \/ Process(calibrated)`). That the interval between saves passes
(`WF` of `Elapse`) is a premise of the second part of `CalibratedIsSaved` only: it is what
repeats a failed save of a node that is calibrated again. A first or a due save must be
repeated without it.

### Findings

1. **A request that reported SENT may never end** (`MCNcpTxLeak`). A timeout without
   message id is matched to the first slot in use for its destination, which may be
   the reservation of another request. If the CoAP service then refuses that one, it
   reports TIMEOUT and FAILED, the request that timed out reports nothing, and its
   slot is not freed. The comment in `pyronetNcpSendCoapRequest` guarantees an
   outcome. `SlotBalance` shows that each refused submit leaks one slot at most and
   nothing else does; `EveryRequestEnds` that a request to a destination for which the
   service refuses nothing ends.
2. **Entering level 5 after a hold sends no alert** (`MCRiskServiceEntry`). Readings
   taken during a neighbour-alert hold are applied by `pyronet_risk_engine_tick`, which
   raises a report only; the engine's test says a sensor-driven entry of level 5 must
   send both alerts. Every other sensor-driven entry does (`RiskOnlyTickIsSilent`).
3. **An accepted packet may be lost to a reused id** (`MCGatewayUplinkReuse`). The
   pass can read and post a row that is not committed; after a rollback its
   `uplink_id` is given to another packet, which the cloud answers as a duplicate. It
   takes a failed statement or a crash (`UplinkKeptWithoutFaults`).
4. **A receipt does not mean the uplink was projected** (`MCGatewayUplinkOrder`). A report
   that overtakes its registration gets a durable receipt and is not projected.
5. **A result may be older than its row** (`MCGatewayDownlinkStamp`). The table's CHECK
   states that `completed_at` is not before `queued_at`. The gateway stamps whole
   seconds, the database queues in fractions: a downlink answered within the second
   it was queued in has a result the table refuses, now and at every retry. No result is
   older than that second (`DownlinkResultsFollowTheSecond`).

## 4. Proofs

All for every value of the constants under the modules' named assumptions
(`TxAssumption`, `EventsAssumption`, `DownlinkAssumption`, `EngineAssumption`,
`ServiceAssumption`, `LinkAssumption`, `RegistrationAssumption`, `CspAssumption`,
`DispatchAssumption`, `GatewayAssumption` of either gateway module, `StoreAssumption`).

* `NcpTxProofs!TxTypeCorrect`, `TxEveryResultMatches`, `TxSlotBalance`.
  `EveryResultMatches` counts, per destination, slots in use against results still to
  come and the reservation in hand. It is not inductive: that a callback empties a slot
  *of its own destination* needs to know that a message id in a slot belongs to a
  transaction to the slot's destination (`IdsAgree`), that a fresh id is in no slot
  (also `IdsAgree`), and that commit writes the id into a slot of the right
  destination although a callback may have emptied the slot in between
  (`ReservationKept`). `IInv` joins these with the types and the finiteness that
  cardinalities need; `Covered(d)` states the inequality, and the equality when nothing is
  refused. The proof goes action by action, each adding or removing at most one
  element of each counted set.
  `TxSentIsTracked`, `TxSentEndsOnce`, `TxResultsConserved` are about what a request has
  reported. `LedgerInv` adds to `IInv` that a request has one slot at most and that the
  reserved slot is that of the request in hand (`SlotsNamed`), and for each request a
  `Ledger`: while it is in a slot it has no terminal result and no callback, and after
  SENT its terminal results and the callback that carries one are at most one
  together. The lemmas on `Ends` and `Sents` say what appending one status does to
  these counts. That a callback always finds a slot, `EveryResultMatches`, is what
  keeps results from vanishing in `ResultsConserved`.
* `NcpEventsProofs!EventsTypeCorrect`, `EventsImplementFifo`, `EventsOneRegistration`.
  The lemmas on `After` reduce `%` to a subtraction and show that offsets within the
  queue length name different entries. The inductive invariant says that `tail` is
  `count` places after `head`; every step then maps to a step of `EventFifo`: a push to
  `Put`, an update in place to the same index of `q`, a take to `Take`. The third
  theorem adds `OnlyLatest`: a registration request at any index of `Contents` is the
  only one and carries the last reason; each operation is described by what it does to
  `Contents`, so the ring's indices do not appear in that proof.
* `NcpDownlinkProofs!DownlinkKeepsRing`, `DownlinkKeepsFifo`, `DownlinkNodeTypes`,
  `DownlinkNewestTable`, `DownlinkOneSession`. The first shows that `NodeSpec`
  implements `NcpEvents!Spec`, so the second has the refinement of the ring, and the one
  registration request, from the theorems above. `NodeInv` adds to the types what a
  handler carries between its critical sections (`HandlerHolds`), that before the id
  is known no table is in use and afterwards none waits unless one raced (`Waiting`),
  and that what a poll carries and what is stored are of the current session
  (`CurrentSession`): that a session can only end by forgetting the parent, and that the
  next begins on the thread that polls, is all it takes.
* `RiskProofs!RiskTypeCorrect`, `RiskLevelFollowsPolicy`, `RiskPendingLeavesBySending`,
  `RiskLastReportIsCurrent`, `RiskOnlyTickIsSilent`. `IInv` is `TypeOK` with `LevelFollowsPolicy`; the two
  handlers that set the level without reconciling (a neighbour's alert, a
  configuration) are the cases that need it. That a slot is emptied only by a send
  follows from `Hand` alone, and each step is shown to go through `Hand` or to leave the
  slots. `LastReportIsCurrent` is not inductive: a flush sends what was stored
  earlier. `ReportKept` adds that a pending report carries the current level, because a
  level change with a reading always raises a report, which takes the place of the
  one pending, and that a level change goes unreported only while there is no reading.
  `RiskOnlyTickIsSilent` is the scope of finding 2. `LiveFive`: level 5 by readings
  takes both readings; by `LevelFollowsPolicy` a reading enters it only without an
  override; so both alerts are raised, and `Hand` sends or keeps them.
  `McuKeepsRisk` shows that `SensorMcu` implements `RiskService`, so all of it holds of
  the loop with the boundary transmitter, which is what the run checks.
* `NodeRegistrationProofs!RegistrationTypeCorrect`, `RegistrationJoinedIsConnected`,
  `RegistrationIsPursued`, `RegistrationStartedIsSynced`. `RequiredIsPursued` counts on a MCU that waits for HELLO_ACK
  to start a new synchronisation; it is not inductive, because an old HELLO_ACK may end
  the waiting. `HelloFollows` says why that is harmless: while the MCU waits, a HELLO is
  on the wire or the NCP is unsynchronised or has heard nothing, and behind each status
  request on the wire there is a HELLO, so that none of them ends the synchronisation for
  good (`Trails`). For an NCP that has restarted and heard nothing, `UnheardIsQueued` says
  that the request is still in its queue, and `SyncInSession` that no synchronisation
  runs without a session. The lemmas `OnHead`, `OnAppend`, `PutQueue` and `UpdateQueue`
  say what the wires and the queue keep; then each step hands the request from one
  place of `Pursued` to the next.
  `StartedIsSynced` needs nothing of the sequence numbers, and so holds for any
  `SeqMod`: which old answer the MCU took for an answer does not matter, only that its
  HELLO, its ping and its status request went out in that order and that the wire keeps
  it. `StartInv` says so phase by phase: once a ping counts as answered, the NCP has heard
  the HELLO or will (`AnsweredIsHeard`); once the status was asked for, a status request
  with no HELLO behind it is on the wire, or the NCP is synchronised and no HELLO is
  under way (`StatusFollows`).

* `GatewayUplinkProofs!UplinkTypeCorrect`, `UplinkNoStray`, `UplinkAnsweredIsDurable`,
  `UplinkIdAnswersOne`, `UplinkRowLeaves`, `UplinkImplementsOutbox`,
  `UplinkKeptWithoutFaults`. `NoStrayTransaction` needs only that two threads are never in a
  transaction at once. That an answer is durable needs, of every id on its way to one,
  that it is below the sequence and held by outbox, dead letters or cloud
  (`ThreadIds`), and that neither a commit nor a rollback by another thread takes that
  away: `NothingLost` relates the tables on disk to those on the connection, so either
  of them may become the other. Rows are deleted for receipts only (`ReceiptIsReal`).
  `IdAnswersOneRequest` needs ids on their way to be different (`Distinct`) and not
  given yet (`Fresh`), and the cache to repeat answers given (`CacheAnswered`).
  `Shape` has of the types only what these need.
  `TypeOK` bounds ids by the number of requests received. `Budget` makes that inductive:
  the next id and the threads that may still take one are together at most the requests
  received and one, on the connection and on disk, so that a rollback, which gives ids
  back, ends threads as well. That the pass has a least row needs a least element of a
  set of numbers (`LeastNat`), from the well-foundedness of `<`.
  The refinement (`UplinkImplementsOutbox`) adds `RowsInv`: a row that the open
  transaction has and the disk has not is that of a thread about to commit, no row differs
  between the two, and the id of a row about to be inserted is new. A commit then adds at
  most new rows and drops only those the pass has a receipt for.
  `UplinkKeptWithoutFaults` is the scope of finding 3. While there is no fault, every
  place that has an id - either copy of the tables, cloud, pass, wire, thread, answer -
  has the same packet with it (`OnePacketPerId`): ids come from the open sequence only, and
  the one rollback left, of a BEGIN that finds the main thread's write, gives none back.
* `GatewayDownlinkProofs!DownlinkTypes`, `DownlinkOneExchange`, `DownlinkWaiters`,
  `DownlinkNoRedelivery`, `DownlinkAgreement`, `DownlinkTerminalIsFinal`,
  `DownlinkImplementsDelivery`, `DownlinkResultsFollowTheSecond`. `Ownership`:
  owners and the threads between acquiring and releasing determine each other, and
  who waits, waits for an owner; the first two safety properties follow. `Storing`: a
  thread before its INSERT has seen that there is no result, and only the row of the
  thread about to commit differs from the disk; so no result is ever replaced.
  `Acknowledged`: what a node has acknowledged, and no fault took, is stored or in the
  hands of its one owner; so no owner exchanges it again. `Results`, `Delivered` and
  `Concluded` follow a result from thread to response to row.
  The refinement needs `DInv` besides: the dispatcher listens to one request at a time,
  which is for the row it works on (`OneListener`), that row is claimed (`Claimed`), so a
  row that has ended is never written again, and an acknowledgement becomes "delivered"
  unless a fault came (`AckIsStored`).
  `DownlinkResultsFollowTheSecond` is the scope of finding 5. `Stamped`: a request on its
  way is for a row that is queued; its stamp, and that of every result it leaves in a
  thread, the store, the disk or the dispatcher, is not before the second the row was
  queued in.
* `BsecStoreProofs!StoreTypeCorrect`, `StoreSavedSurvives`, `StoreSequenceOrdersSaves`,
  `StoreLoadNeverGoesBack`, for pages of any size and any number of firmwares. The two
  properties of the flash need each other and facts about the save under way: its
  sequence is above all of its firmware (`Pending`), the page it erases first does not
  hold the newest record (`EraseIsSafe`), and the full page is erased only when the new
  record is the newest (`OldIsOlder`). The lemmas `KeepsFlash`, `EraseFlash` and
  `AddFlash` say what the three kinds of changes leave of these; each action, failure or
  loss of power is one. `StoreLoadNeverGoesBack` is an action property by the same
  invariant: in every step the record a restart of the running firmware would load stays
  the one it was or becomes a later one, also when save was told of no success. For a
  firmware that does not run this is false, as its page may be erased.

Only model-checked: liveness (`EveryRequestEnds`, `DeferredIsSent`, `OutboxDrains`,
`ParentChangeIsSent`, `Registers`, `EveryDownlinkEnds`, `CalibratedIsSaved`), which needs
`ENABLED`. Every other property of the passing runs has a theorem; that the violating
runs reach their states is TLC's to show.

## 5. Plan, and what is not modelled

Done, in order of importance: transmit path; event ring and refinement; risk engine
and service; gateway uplink with the cloud's ingest; host link and registration;
downlinks from the cloud to the node's ring; neighbour tables and parent polling; the
BSEC state store; the MCU's parent updates; the proofs of section 4. Left, in this order:

1. That the parent update of `SensorMcu` leaves its slot only by being sent, as an action
   property beside `PendingLeavesBySending`.
2. `NcpTx` and `EventFifo` composed with the real ratio of 32 neighbours to 16 entries:
   what a burst of results pushes out of the ring.
3. Frames lost or damaged on the UART: `HostLink` has a wire that keeps them.
4. `CspIngest` as a state machine of its own, with two gateways, nodes that roam and
   registrations with an age; the notification evaluator and its flag.

Not modelled, and why:

* **Gateway registration worker**: a flag and a backoff in one thread; nothing reads
  the flag on the way of an uplink or a downlink.
* **Cloud console API, notifications, history, e-mail**: handlers of one SQL statement or one
  transaction each over Postgres. Their correctness is in the queries; a state machine
  would restate them. **Web console**: user interface.
* **Sensor drivers, board support, start-up**: device access. What a reading does is in
  `RiskService`.
* **Codecs and command line tools**: functions from bytes to records, without state;
  every model takes their results as values. The repository tests them directly.
* **Time anchor**: two flags, which `RiskService` (a sync was received) and `SensorMcu`
  (there is an anchor) have.
* **Radio co-processor, SDK, command line firmware**: vendor code, most of the
  repository's lines; of the CoAP service and the stack the models state what the
  node's code relies on.
