-------------------------- MODULE GatewayDownlink --------------------------
(***************************************************************************)
(* The way of a downlink through the gateway (pyronet_gateway/             *)
(* downlink_http_api.py, downlink_delivery_service.py,                     *)
(* coap_downlink_client.py, storage.py): each HTTP request of the cloud's  *)
(* dispatcher has a thread.  The first thread to come for a downlink_id    *)
(* becomes its owner, exchanges it with the node and stores the terminal   *)
(* result; the others wait for the owner's event and then look for what it *)
(* has stored.                                                             *)
(*                                                                         *)
(* A step is what a thread does between two points where another can run:  *)
(* a lookup, a critical section of _inflight_lock, the CoAP exchange, a    *)
(* statement of the storing transaction.  Lookups take no lock and read    *)
(* what another thread has inserted and not committed.                     *)
(*                                                                         *)
(* Environment, up to MaxFaults times in all: the dispatcher gives up on a *)
(* request that is under way, a database access of a thread fails (a full  *)
(* disk; a BEGIN that finds the main thread's transaction open), the       *)
(* exchange cannot be started (503), the gateway is killed, the dispatcher *)
(* dies.  A request the dispatcher has given up goes its way without it.   *)
(***************************************************************************)
EXTENDS CspDispatch, GatewayStore

CONSTANTS Threads,   \* HTTP handler threads that run at the same time
          Invalid,   \* downlinks refused whatever node they are for
          MaxFaults

ASSUME GatewayAssumption ==
    /\ None \notin Threads
    /\ MaxFaults \in Nat

Requests == [downlink : Downlink, live : BOOLEAN]
NoRequest == [downlink |-> None, live |-> FALSE, now |-> 0]
Serving == [downlink : Downlink, live : BOOLEAN, now : 0..MaxClock]

VARIABLES
    wire,    \* HTTP requests that have not reached the gateway
    pc,      \* where each thread is in handle_request
    req,     \* the request it serves: whether the dispatcher waits for it, and now
    res,     \* the result it stores or answers with
    owner,   \* _inflight: the thread whose event is registered for a downlink
    conn,    \* SQLiteDatabase._connection, its tables being the terminal results
    acked,   \* history: downlinks a node has acknowledged
    lost,    \* history: downlinks whose result a fault kept from the disk
    faults

gatewayVars == <<pc, req, res, owner, conn, acked, lost>>
vars == <<cspVars, wire, gatewayVars, faults>>

Init ==
    /\ CspInit
    /\ wire = {}
    /\ pc = [t \in Threads |-> "idle"]
    /\ req = [t \in Threads |-> NoRequest]
    /\ res = [t \in Threads |-> NoResult]
    /\ owner = [d \in Downlink |-> None]
    /\ conn = Opened([d \in Downlink |-> NoResult])
    /\ acked = {}
    /\ lost = {}
    /\ faults = 0

Fault ==
    /\ faults < MaxFaults
    /\ faults' = faults + 1

----------------------------------------------------------------------------
(* The dispatcher and its connection.                                      *)

Served(t) == req[t].downlink
Serves(t, d) == pc[t] # "idle" /\ Served(t) = d

\* Nobody listens any more to the requests for the row being dispatched.
Abandoned ==
    /\ wire' = {IF m.downlink = dispatch.row THEN [m EXCEPT !.live = FALSE] ELSE m : m \in wire}
    /\ req' = [t \in Threads |-> [req[t] EXCEPT !.live = FALSE]]

Post(d) ==
    /\ StartPost(d)
    /\ wire' = wire \cup {[downlink |-> d, live |-> TRUE]}
    /\ UNCHANGED <<gatewayVars, faults>>

\* Is the request the dispatcher waits for still under way?
UnderWay(d) ==
    \/ [downlink |-> d, live |-> TRUE] \in wire
    \/ \E t \in Threads : Serves(t, d) /\ req[t].live

\* The fetch fails: the gateway restarted, or (a fault) the answer does not
\* come within GATEWAY_DOWNLINK_TIMEOUT_MS.
NoAnswer(d) ==
    /\ Waiting(d)
    /\ Answered(d, NoResult)
    /\ Abandoned
    /\ UNCHANGED <<row, queuedAt, batch, orphans, clock, pc, res, owner, conn, acked, lost>>

Disconnected(d) ==
    /\ ~UnderWay(d)
    /\ NoAnswer(d)
    /\ UNCHANGED faults

TimedOut(d) ==
    /\ UnderWay(d)
    /\ NoAnswer(d)
    /\ Fault

DispatcherCrash ==
    /\ DispatcherDies
    /\ Abandoned
    /\ Fault
    /\ UNCHANGED <<pc, res, owner, conn, acked, lost>>

----------------------------------------------------------------------------
(* The gateway: DownlinkDeliveryService.handle_request on a thread.        *)

Go(t, step) == pc' = [pc EXCEPT ![t] = step]

\* downlink_http_api: now is int(time.time()) when the request arrives.
WholeSeconds == clock - (clock % 2)

Arrive(m, t) ==
    /\ m \in wire
    /\ pc[t] = "idle"
    /\ wire' = wire \ {m}
    /\ Go(t, "lookup")
    /\ req' = [req EXCEPT ![t] = [downlink |-> m.downlink, live |-> m.live,
                                  now |-> WholeSeconds]]
    /\ UNCHANGED <<cspVars, res, owner, conn, acked, lost, faults>>

\* get_terminal_result, without a lock: with a result on to one step, without
\* one on to another.
Lookup(t, from, found, missing) ==
    /\ pc[t] = from
    /\ LET stored == conn.db[Served(t)] IN
       /\ res' = [res EXCEPT ![t] = stored]
       /\ Go(t, IF stored # NoResult THEN found ELSE missing)
    /\ UNCHANGED <<cspVars, wire, req, owner, conn, acked, lost, faults>>

FirstLookup(t) == Lookup(t, "lookup", "respond", "acquire")

\* Mutant: a waiter that finds nothing goes on as if it were the owner
WokenProcesses(t) == Lookup(t, "woken", "respond", "process")

\* A waiter whose owner is done and left no result starts again.
WokenLookup(t) == Lookup(t, "woken", "respond", "lookup")

\* Mutant: the owner does not look again
OwnLookupNone(t) ==
    /\ pc[t] = "own"
    /\ Go(t, "process")
    /\ UNCHANGED <<cspVars, wire, req, res, owner, conn, acked, lost, faults>>

\* The owner looks again: another may have finished since its first lookup.
OwnLookup(t) == Lookup(t, "own", "release", "process")

\* Mutant: the key is registered over another's
AcquireAlways(t) ==
    /\ pc[t] = "acquire"
    /\ owner' = [owner EXCEPT ![Served(t)] = t]
    /\ Go(t, "own")
    /\ UNCHANGED <<cspVars, wire, req, res, conn, acked, lost, faults>>

\* _acquire_owner
Acquire(t) ==
    /\ pc[t] = "acquire"
    /\ \/ /\ owner[Served(t)] = None
          /\ owner' = [owner EXCEPT ![Served(t)] = t]
          /\ Go(t, "own")
       \/ /\ owner[Served(t)] # None
          /\ Go(t, "wait")
          /\ UNCHANGED owner
    /\ UNCHANGED <<cspVars, wire, req, res, conn, acked, lost, faults>>

\* The result _terminal_response is about to store
Conclude(t, status) ==
    /\ res' = [res EXCEPT ![t] = [status |-> status, completed |-> req[t].now]]
    /\ Go(t, "begin")

\* _process_request up to the exchange
Process(t) ==
    /\ pc[t] = "process"
    /\ \/ Served(t) \in Invalid /\ Conclude(t, "permanent_reject")
       \/ Served(t) \notin Invalid /\ Conclude(t, "unknown_node")
       \/ Served(t) \notin Invalid /\ Go(t, "exchange") /\ UNCHANGED res
    /\ UNCHANGED <<cspVars, wire, req, owner, conn, acked, lost, faults>>

\* send_confirmable: acknowledged, or not acknowledged in time although the
\* node may have got it, or not even sent (503).
Exchange(t) ==
    /\ pc[t] = "exchange"
    /\ \/ /\ Conclude(t, "delivered")
          /\ acked' = acked \cup {Served(t)}
          /\ UNCHANGED faults
       \/ /\ Conclude(t, "mesh_delivery_failed")
          /\ UNCHANGED <<acked, faults>>
       \/ /\ Go(t, "release")
          /\ Fault
          /\ UNCHANGED <<res, acked>>
    /\ UNCHANGED <<cspVars, wire, req, owner, conn, lost>>

\* SQLiteDatabase._lock is held from BEGIN to COMMIT.
InTransaction(t) == pc[t] \in {"insert", "commit"}

\* One statement of store_terminal_result
Statement(t, from, connection, to) ==
    /\ pc[t] = from
    /\ conn' = connection
    /\ Go(t, to)
    /\ UNCHANGED <<cspVars, wire, req, res, owner, acked, lost, faults>>

Begin(t) ==
    /\ \A u \in Threads : ~InTransaction(u)
    /\ Statement(t, "begin", Begun(conn), "insert")

\* INSERT .. ON CONFLICT DO UPDATE
Insert(t) ==
    Statement(t, "insert", Executed(conn, [conn.db EXCEPT ![Served(t)] = res[t]]), "commit")

\* Mutant: the transaction is left open
CommitForgotten(t) == Statement(t, "commit", conn, "release")

Commit(t) == Statement(t, "commit", Committed(conn), "release")

\* A database access raises (of a request that is valid, the one to the
\* node's address, too): what the thread has written is rolled back, its
\* ownership is released, and its connection ends without a result.
DatabaseFails(t) ==
    /\ \/ pc[t] \in {"lookup", "woken", "own", "begin", "insert", "commit"}
       \/ pc[t] = "process" /\ Served(t) \notin Invalid
    /\ Fault
    /\ conn' = IF InTransaction(t) THEN RolledBack(conn) ELSE conn
    /\ lost' = IF pc[t] \in {"begin", "insert", "commit"} THEN lost \cup {Served(t)} ELSE lost
    /\ Go(t, IF pc[t] \in {"lookup", "woken"} THEN "respond" ELSE "release")
    /\ res' = [res EXCEPT ![t] = NoResult]
    /\ UNCHANGED <<cspVars, wire, req, owner, acked>>

\* Mutant: the event is not set
ReleaseSilently(t) ==
    /\ pc[t] = "release"
    /\ owner' = [owner EXCEPT ![Served(t)] = None]
    /\ Go(t, "respond")
    /\ UNCHANGED <<cspVars, wire, req, res, conn, acked, lost, faults>>

\* _release_owner: the key is removed and every waiter wakes up.
Release(t) ==
    /\ pc[t] = "release"
    /\ owner' = [owner EXCEPT ![Served(t)] = None]
    /\ pc' = [u \in Threads |->
                IF u = t THEN "respond"
                ELSE IF pc[u] = "wait" /\ Serves(u, Served(t)) THEN "woken"
                ELSE pc[u]]
    /\ UNCHANGED <<cspVars, wire, req, res, conn, acked, lost, faults>>

\* The answer reaches the dispatcher if that still waits for this request.
Respond(t) ==
    /\ pc[t] = "respond"
    /\ Go(t, "idle")
    /\ req' = [req EXCEPT ![t] = NoRequest]
    /\ res' = [res EXCEPT ![t] = NoResult]
    /\ IF req[t].live THEN Answered(Served(t), res[t]) ELSE UNCHANGED dispatch
    /\ UNCHANGED <<row, queuedAt, batch, orphans, clock, wire, owner, conn, acked, lost, faults>>

\* The gateway is killed and started again.
Crash ==
    /\ Fault
    /\ conn' = RolledBack(conn)
    /\ lost' = lost \cup {d \in Downlink : \E t \in Threads :
                            Serves(t, d) /\ pc[t] \in {"exchange", "begin", "insert", "commit"}}
    /\ pc' = [t \in Threads |-> "idle"]
    /\ req' = [t \in Threads |-> NoRequest]
    /\ res' = [t \in Threads |-> NoResult]
    /\ owner' = [d \in Downlink |-> None]
    /\ UNCHANGED <<cspVars, wire, acked>>

----------------------------------------------------------------------------
ThreadStep(t) ==
    \/ FirstLookup(t) \/ WokenLookup(t) \/ OwnLookup(t)
    \/ Acquire(t) \/ Process(t) \/ Exchange(t)
    \/ Begin(t) \/ Insert(t) \/ Commit(t)
    \/ Release(t) \/ Respond(t)

CspStep ==
    \/ \E d \in Downlink : Queue(d) \/ MarkFailure(d) \/ Apply(d)
    \/ \E claimed \in SUBSET Downlink : Claim(claimed)
    \/ Tick

Next ==
    \/ CspStep /\ UNCHANGED <<wire, gatewayVars, faults>>
    \/ \E d \in Downlink : Post(d) \/ Disconnected(d) \/ TimedOut(d)
    \/ DispatcherCrash
    \/ \E m \in wire, t \in Threads : Arrive(m, t)
    \/ \E t \in Threads : ThreadStep(t)
    \/ \E t \in Threads : DatabaseFails(t)
    \/ Crash

Spec == Init /\ [][Next]_vars

\* Threads and dispatcher run, a request that is waited for arrives, and rows
\* are claimed in the order they are due.
Fairness ==
    /\ \A t \in Threads : WF_vars(ThreadStep(t))
    /\ WF_vars(\E m \in wire, t \in Threads : m.live /\ Arrive(m, t))
    /\ \A d \in Downlink :
         /\ WF_vars(Post(d) \/ Disconnected(d))
         /\ WF_vars((MarkFailure(d) \/ Apply(d)) /\ UNCHANGED <<wire, gatewayVars, faults>>)
         /\ SF_vars(/\ \E claimed \in SUBSET Downlink : d \in claimed /\ Claim(claimed)
                    /\ UNCHANGED <<wire, gatewayVars, faults>>)

FairSpec == Spec /\ Fairness

----------------------------------------------------------------------------
(* Properties                                                              *)

Pcs == {"idle", "lookup", "acquire", "wait", "woken", "own", "process", "exchange",
        "begin", "insert", "commit", "release", "respond"}

\* The threads that have acquired a downlink and not released it
Owning == {"own", "process", "exchange", "begin", "insert", "commit", "release"}

Tables == [Downlink -> Result \cup {NoResult}]

GatewayTypeOK ==
    /\ wire \in SUBSET Requests
    /\ pc \in [Threads -> Pcs]
    /\ req \in [Threads -> [downlink : Downlink \cup {None}, live : BOOLEAN, now : 0..MaxClock]]
    /\ \A t \in Threads : pc[t] # "idle" => req[t] \in Serving
    /\ res \in [Threads -> Result \cup {NoResult}]
    /\ owner \in [Downlink -> Threads \cup {None}]
    /\ conn \in [db : Tables, durable : Tables, inTx : BOOLEAN]
    /\ acked \in SUBSET Downlink
    /\ lost \in SUBSET Downlink
    /\ faults \in 0..MaxFaults

\* Rows, requests, threads, results and owners keep their shape, and the
\* connection is in a transaction while a thread is, no longer and no shorter.
TypeOK ==
    /\ CspTypeOK
    /\ GatewayTypeOK
    /\ conn.inTx <=> \E t \in Threads : InTransaction(t)

\* Whatever threads come, wait, fail and come back for a downlink, no two of
\* them exchange it with the node at the same time (_inflight and its events).
OneExchangePerDownlink ==
    \A t, u \in Threads :
        pc[t] = "exchange" /\ pc[u] = "exchange" /\ Served(t) = Served(u) => t = u

\* No wakeup is lost: a thread that waits waits for an event that is still
\* registered, by a thread that serves the same downlink and will set it,
\* whichever way it ends.
WaitersHaveAnOwner ==
    \A t \in Threads : pc[t] = "wait" =>
        \E u \in Threads : /\ owner[Served(t)] = u
                           /\ pc[u] \in Owning
                           /\ Served(u) = Served(t)

\* A downlink a node has acknowledged is sent to it again only if a fault kept
\* the result from the disk: a retry of the dispatcher, or a second request
\* that overtakes the first, is answered from the store.
RedeliveredOnlyAfterLoss ==
    \A t \in Threads : pc[t] = "exchange" /\ Served(t) \in acked => Served(t) \in lost

\* The cloud's row says what the gateway's store says, and "delivered" only of
\* what a node acknowledged.  A fault between the INSERT and the COMMIT can
\* part the two: another thread has then answered with the uncommitted result.
RowAgreesWithStore ==
    \A d \in Downlink : row[d] \in Statuses =>
        /\ row[d] = conn.db[d].status \/ d \in lost
        /\ row[d] = "delivered" => d \in acked

\* A terminal result on disk never changes: ON CONFLICT DO UPDATE never finds
\* a conflict, since the owner looks once more after it has become the owner.
TerminalIsFinal ==
    [][\A d \in Downlink : conn.durable[d] # NoResult => conn'.durable[d] = conn.durable[d]]_vars

\* What threads, retries and faults do to a downlink's row, result and
\* acknowledgement is, step by step, what GatewayDelivery lets happen to them:
\* a terminal row stays, a result is stored once and a result on disk is never
\* replaced, and of what a node acknowledged only a fault can make anything but
\* "delivered".
Delivery == INSTANCE GatewayDelivery WITH stored <- conn.db, disk <- conn.durable

ImplementsDelivery == Delivery!Spec

\* Every queued downlink gets a terminal status, whatever is retried in
\* between, unless its dispatcher died with it or its result is one the table's
\* CHECK refuses each time.
EveryDownlinkEnds ==
    \A d \in Downlink :
        row[d] = "pending" ~> \/ row[d] \in Statuses
                              \/ d \in orphans
                              \/ conn.durable[d] # NoResult /\ ~StampFits(d, conn.durable[d])

\* What the table's CHECK states: a terminal result is not older than the row
\* it ends.
ResultsFollowQueueing ==
    dispatch.pc = "apply" => StampFits(dispatch.row, dispatch.result)
=============================================================================
