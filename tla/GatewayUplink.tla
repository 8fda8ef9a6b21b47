--------------------------- MODULE GatewayUplink ---------------------------
(***************************************************************************)
(* The way of an uplink through the gateway (pyronet_gateway/): a CoAP     *)
(* request is taken by a thread of its own (coap_intake.py), remembered in *)
(* the duplicate cache, stored in the SQLite outbox (service.py,           *)
(* storage.py) and delivered by the main thread's pass over the outbox     *)
(* (retry_worker.py) to the cloud service.                                 *)
(*                                                                         *)
(* A step is what one thread does between two points where another can     *)
(* run: a critical section of the cache lock, one SQL statement on the     *)
(* shared connection, one HTTP exchange.  The database lock (transaction)  *)
(* is held by an intake thread from Begin to Commit; mark_retry and delete *)
(* of the main thread do not take it.  A statement and the BEGIN that      *)
(* Python's sqlite3 may put before it are one step.                        *)
(*                                                                         *)
(* Environment: the network loses, repeats and delays CoAP requests        *)
(* (MaxReceived arrive, copies included) and HTTP requests, which the cloud *)
(* may handle after the gateway has given up on them; the process can be   *)
(* killed and a SQL statement can fail (MaxFaults of both together).       *)
(***************************************************************************)
EXTENDS GatewayStore, CspIngest, FiniteSetsExt

CONSTANTS Threads,    \* CoAP handler threads that run at the same time
          Refused,    \* requests refused before the store: neighbor alerts
          Limit,      \* rows a pass reads (limit=100)
          MaxReceived, \* bound: CoAP requests that arrive, copies included
          MaxFaults   \* bound: crashes and failed statements

\* A packet stands for the one confirmable request that carries it.
ASSUME GatewayAssumption ==
    /\ Refused \cap Packet = {}
    /\ Limit \in Nat \ {0}
    /\ MaxReceived \in Nat
    /\ MaxFaults \in Nat

Requests == Packet \cup Refused
Nothing == [r \in {} |-> r]
Ids == 1..MaxReceived

\* An answer is what a cached or sent CoapIntakeResult says: the uplink_id of
\* an accepted request (2.04), 0 for a refused one (4.00).
BadRequest == 0

VARIABLES
    conn,       \* SQLiteDatabase._connection
    intake,     \* the handler threads
    cache,      \* _duplicate_cache: request -> answer
    worker,     \* OutboxRetryWorker.run_once on the main thread
    later,      \* ids whose next_attempt_at the clock has not reached
    wire,       \* HTTP requests the cloud has not handled
    csp,        \* the cloud's database
    answered,   \* history: what nodes were answered
    received,   \* requests that arrived
    faults

vars == <<conn, intake, cache, worker, later, wire, csp, answered, received,
          faults>>
intakeVars == <<intake, cache, answered, received>>
workerVars == <<worker, later>>
cloudVars == <<wire, csp>>

IdleThread == [pc |-> "idle"]
At(pc, r, id) == [pc |-> pc, request |-> r, id |-> id]
IdleWorker == [pc |-> "idle", batch |-> NoRows]

Init ==
    /\ conn = Opened(NewTables)
    /\ intake = [t \in Threads |-> IdleThread]
    /\ cache = Nothing
    /\ worker = IdleWorker
    /\ later = {}
    /\ wire = {}
    /\ csp = EmptyCsp
    /\ answered = {}
    /\ received = 0
    /\ faults = 0

----------------------------------------------------------------------------
(* Intake: CoapIntakeService.handle_datagram on a thread of its own.       *)

Go(t, step) == intake' = [intake EXCEPT ![t] = step]

Answer(t, r, a) ==
    /\ answered' = answered \cup {<<r, a>>}
    /\ Go(t, IdleThread)

\* _store_duplicate, and the answer the handler sends
CacheAndAnswer(t, r, a) ==
    /\ cache' = With(cache, r, a)
    /\ Answer(t, r, a)

\* A copy of r arrives: parse, then _get_cached_duplicate.
Receive(t, r) ==
    /\ intake[t].pc = "idle"
    /\ received < MaxReceived
    /\ received' = received + 1
    /\ IF r \in DOMAIN cache THEN Answer(t, r, cache[r])
       ELSE /\ Go(t, At(IF r \in Packet THEN "begin" ELSE "refuse", r, BadRequest))
            /\ UNCHANGED answered
    /\ UNCHANGED <<conn, cache, workerVars, cloudVars, faults>>

\* A payload the uplink endpoint does not accept
Refuse(t) ==
    /\ intake[t].pc = "refuse"
    /\ CacheAndAnswer(t, intake[t].request, BadRequest)
    /\ UNCHANGED <<conn, received, workerVars, cloudVars, faults>>

\* SQLiteDatabase._lock
InTransaction(t) == intake[t].pc \in {"node", "allocate", "insert", "commit"}
LockFree == \A t \in Threads : ~InTransaction(t)

\* transaction(): BEGIN IMMEDIATE on a connection in a transaction raises,
\* the handler of the exception rolls back whatever was open, and the thread
\* ends without an answer.
Begin(t) ==
    /\ intake[t].pc = "begin"
    /\ LockFree
    /\ IF conn.inTx
       THEN /\ conn' = RolledBack(conn)
            /\ Go(t, IdleThread)
       ELSE /\ conn' = Begun(conn)
            /\ Go(t, [intake[t] EXCEPT !.pc = "node"])
    /\ UNCHANGED <<cache, answered, received, workerVars, cloudVars, faults>>

\* One statement of the transaction's body, and the next place in it
Statement(t, pc, tables, next) ==
    /\ intake[t].pc = pc
    /\ conn' = Executed(conn, tables)
    /\ Go(t, next)
    /\ UNCHANGED <<cache, answered, received, workerVars, cloudVars, faults>>

UpsertNode(t) ==
    Statement(t, "node", NodeSeen(conn.db, NodeOf[intake[t].request]),
              [intake[t] EXCEPT !.pc = "allocate"])

AllocateId(t) ==
    Statement(t, "allocate", IdAllocated(conn.db),
              [intake[t] EXCEPT !.pc = "insert", !.id = conn.db.next])

Insert(t) ==
    Statement(t, "insert", Enqueued(conn.db, intake[t].id, intake[t].request),
              [intake[t] EXCEPT !.pc = "commit"])

\* Mutant: the transaction is left for another commit
CommitForgotten(t) ==
    /\ intake[t].pc = "commit"
    /\ Go(t, [intake[t] EXCEPT !.pc = "store"])
    /\ UNCHANGED <<conn, cache, answered, received, workerVars, cloudVars, faults>>

Commit(t) ==
    /\ intake[t].pc = "commit"
    /\ conn' = Committed(conn)
    /\ Go(t, [intake[t] EXCEPT !.pc = "store"])
    /\ UNCHANGED <<cache, answered, received, workerVars, cloudVars, faults>>

\* _store_duplicate after the commit, then the 2.04
Accept(t) ==
    /\ intake[t].pc = "store"
    /\ CacheAndAnswer(t, intake[t].request, intake[t].id)
    /\ UNCHANGED <<conn, received, workerVars, cloudVars, faults>>

\* A statement of the body raises (a full disk): rollback, no answer.
StatementFails(t) ==
    /\ InTransaction(t)
    /\ faults < MaxFaults
    /\ faults' = faults + 1
    /\ conn' = RolledBack(conn)
    /\ Go(t, IdleThread)
    /\ UNCHANGED <<cache, answered, received, workerVars, cloudVars>>

\* The entry of r expires, or newer entries push it out.
CacheForgets(r) ==
    /\ r \in DOMAIN cache
    /\ cache' = [q \in DOMAIN cache \ {r} |-> cache[q]]
    /\ UNCHANGED <<conn, intake, answered, received, workerVars, cloudVars, faults>>

IntakeStep(t) ==
    \/ Refuse(t)
    \/ Begin(t)
    \/ UpsertNode(t)
    \/ AllocateId(t)
    \/ Insert(t)
    \/ Commit(t)
    \/ Accept(t)

----------------------------------------------------------------------------
(* The main thread: a pass over the outbox, again and again.               *)

\* list_due reads on the shared connection.  Its rows, lowest id first, are
\* a snapshot: the pass works through it whatever becomes of the table.
Due == {i \in DOMAIN conn.db.outbox : i \notin later}
Batch == {i \in Due : Cardinality({j \in Due : j < i}) < Limit}

\* Where a pass with these records left to do goes on
PassFrom(batch) == IF batch = NoRows THEN "idle" ELSE "post"

\* OutboxRetryWorker.run_once begins with list_due.
StartPass ==
    /\ worker.pc = "idle"
    /\ LET batch == [i \in Batch |-> conn.db.outbox[i]]
       IN  worker' = [pc |-> PassFrom(batch), batch |-> batch]
    /\ UNCHANGED <<conn, later, intakeVars, cloudVars, faults>>

Current == Min(DOMAIN worker.batch)
Posted == [id |-> Current, packet |-> worker.batch[Current]]
WorkerAt(pc) == worker' = [worker EXCEPT !.pc = pc]

\* send_uplink: the POST leaves.
Post ==
    /\ worker.pc = "post"
    /\ WorkerAt("wait")
    /\ wire' = wire \cup {Posted}
    /\ UNCHANGED <<conn, later, csp, intakeVars, faults>>

\* Mutant: a transient failure drops the row as a terminal receipt would
MarkRetryDropping ==
    /\ worker.pc = "wait"
    /\ conn' = Executed(conn, Deleted(conn.db, Current))
    /\ WorkerAt("done")
    /\ UNCHANGED <<later, cloudVars, intakeVars, faults>>

\* No usable answer in time (timeout, 5xx, broken receipt, unknown status):
\* mark_retry, whose UPDATE opens a transaction if none is open.
MarkRetry ==
    /\ worker.pc = "wait"
    /\ later' = later \cup ({Current} \cap DOMAIN conn.db.outbox)
    /\ conn' = Executed(conn, conn.db)
    /\ WorkerAt("done")
    /\ UNCHANGED <<cloudVars, intakeVars, faults>>

\* RECEIPT_DURABLE_INGEST: delete's DELETE
Delete ==
    /\ worker.pc = "receipt"
    /\ conn' = Executed(conn, Deleted(conn.db, Current))
    /\ WorkerAt("done")
    /\ UNCHANGED <<later, cloudVars, intakeVars, faults>>

NextRecord ==
    LET rest == Without(worker.batch, Current)
    IN  worker' = [pc |-> PassFrom(rest), batch |-> rest]

\* Mutant: the write is left for another commit
CommitWriteForgotten ==
    /\ worker.pc = "done"
    /\ NextRecord
    /\ UNCHANGED <<conn, later, cloudVars, intakeVars, faults>>

\* connection.commit() of mark_retry and delete
CommitWrite ==
    /\ worker.pc = "done"
    /\ conn' = Committed(conn)
    /\ NextRecord
    /\ UNCHANGED <<later, cloudVars, intakeVars, faults>>

\* A 4xx answer, of the cloud or of a proxy before it: move_to_dead_letter, a
\* transaction under the lock (its BEGIN succeeds: NoStrayTransaction)
DeadLetter ==
    /\ worker.pc = "wait"
    /\ Posted \in wire
    /\ LockFree
    /\ conn' = Committed(Executed(conn, DeadLettered(conn.db, Current)))
    /\ wire' = wire \ {Posted}
    /\ NextRecord
    /\ UNCHANGED <<later, csp, intakeVars, faults>>

\* The clock reaches next_attempt_at.
Elapse(i) ==
    /\ i \in later
    /\ later' = later \ {i}
    /\ UNCHANGED <<conn, worker, cloudVars, intakeVars, faults>>

----------------------------------------------------------------------------
(* The cloud                                                               *)

\* A request is handled; its receipt reaches the pass if that still waits
\* for it and the network does not lose it.
Handle(m) ==
    /\ m \in wire
    /\ wire' = wire \ {m}
    /\ csp' = Ingested(csp, m.id, m.packet)
    /\ IF worker.pc = "wait" /\ Posted = m
       THEN worker' \in {worker, [worker EXCEPT !.pc = "receipt"]}
       ELSE UNCHANGED worker
    /\ UNCHANGED <<conn, later, intakeVars, faults>>

\* The network loses a request.
Lose(m) ==
    /\ m \in wire
    /\ wire' = wire \ {m}
    /\ UNCHANGED <<conn, csp, workerVars, intakeVars, faults>>

----------------------------------------------------------------------------
\* The process is killed and started again: what was committed is left.
Crash ==
    /\ faults < MaxFaults
    /\ faults' = faults + 1
    /\ conn' = RolledBack(conn)
    /\ intake' = [t \in Threads |-> IdleThread]
    /\ cache' = Nothing
    /\ worker' = IdleWorker
    /\ UNCHANGED <<later, cloudVars, answered, received>>

WorkerStep == StartPass \/ Post \/ MarkRetry \/ Delete \/ CommitWrite

Next ==
    \/ \E t \in Threads : IntakeStep(t)
    \/ \E t \in Threads, r \in Requests : Receive(t, r)
    \/ \E t \in Threads : StatementFails(t)
    \/ \E r \in Requests : CacheForgets(r)
    \/ WorkerStep
    \/ DeadLetter
    \/ \E i \in later : Elapse(i)
    \/ \E m \in wire : Handle(m)
    \/ \E m \in wire : Lose(m)
    \/ Crash

Spec == Init /\ [][Next]_vars

\* Threads run; the clock goes on; a pass that goes on posting gets a receipt.
Fairness ==
    /\ \A t \in Threads : WF_vars(IntakeStep(t))
    /\ WF_vars(WorkerStep)
    /\ \A i \in Ids : WF_vars(Elapse(i))
    /\ SF_vars(\E m \in wire : Handle(m) /\ worker'.pc = "receipt")

FairSpec == Spec /\ Fairness

----------------------------------------------------------------------------
(* Properties                                                              *)

Pcs == {"refuse", "begin", "node", "allocate", "insert", "commit", "store"}

\* Every variable keeps its shape: rows, threads and the pass over the outbox
\* hold the values the code puts there (storage.py, coap_intake.py,
\* retry_worker.py), and no more ids are used than requests received.
TypeOK ==
    /\ \A t \in {conn.durable, conn.db} :
          /\ t.next \in 1..received + 1
          /\ t.nodes \subseteq {NodeOf[p] : p \in Packet}
          /\ \A rows \in {t.outbox, t.dead} :
                \A i \in DOMAIN rows : i < t.next /\ rows[i] \in Packet
    /\ conn.inTx \in BOOLEAN
    /\ \A t \in Threads : intake[t] = IdleThread
          \/ intake[t] \in [pc : Pcs, request : Requests, id : Ids \cup {BadRequest}]
    /\ \A r \in DOMAIN cache : r \in Requests /\ cache[r] \in Ids \cup {BadRequest}
    /\ worker.pc \in {"idle", "post", "wait", "receipt", "done"}
    /\ (worker.pc = "idle") = (worker.batch = NoRows)
    /\ later \subseteq Ids
    /\ wire \subseteq [id : Ids, packet : Packet]
    /\ csp.projected \subseteq DOMAIN csp.uplinks

\* When no thread is in transaction() and the main thread is not between the
\* write and the commit of mark_retry or delete, the connection is in no
\* transaction and nothing waits for a commit (storage.py:150-160, 512-529).
NoStrayTransaction ==
    LockFree /\ worker.pc # "done" => ~conn.inTx /\ conn.db = conn.durable

\* A node that was answered 2.04 has its uplink_id in the outbox on disk, in
\* the dead letters on disk or at the cloud, whatever crashed since, and the
\* id is not given out again (service.py:46-63, coap_intake.py:197-204).
AnsweredIsDurable ==
    \A x \in answered : x[2] # BadRequest =>
        /\ x[2] < conn.durable.next
        /\ \/ x[2] \in DOMAIN conn.durable.outbox
           \/ x[2] \in DOMAIN conn.durable.dead
           \/ x[2] \in DOMAIN csp.uplinks

\* No uplink_id is the answer to two different requests, although a crash
\* takes allocated ids back (storage.py:558-565).
IdAnswersOneRequest ==
    \A x, y \in answered : x[2] = y[2] /\ x[2] # BadRequest => x[1] = y[1]

\* A row leaves the outbox on disk only when the cloud has its id or the same
\* commit moves it to the dead letters (retry_worker.py:33-76).
RowLeavesForAReason ==
    [][\A i \in DOMAIN conn.durable.outbox \ DOMAIN conn'.durable.outbox :
          i \in DOMAIN csp.uplinks \/ i \in DOMAIN conn'.durable.dead]_vars

\* All of that together, step by step: the threads with their shared connection
\* do to the disk, the cloud and the nodes what an outbox with one COMMIT at a
\* time would do (storage.py, service.py:46-63, retry_worker.py:33-76).
Outbox == INSTANCE GatewayOutbox WITH
    rows <- conn.durable.outbox, dead <- conn.durable.dead, cloud <- csp.uplinks,
    answered <- {x \in answered : x[2] # BadRequest}

ImplementsOutbox == Outbox!Spec

\* Every row committed to the outbox leaves it in the end, however often the
\* backhaul fails and an intake thread undoes a delete (storage.py:527-529).
OutboxDrains ==
    \A i \in Ids : i \in DOMAIN conn.durable.outbox
                     ~> i \notin DOMAIN conn.durable.outbox

----------------------------------------------------------------------------
(* What the repository says and the code does not keep                     *)

\* A packet the gateway accepted is in its outbox, in its dead letters or at
\* the cloud (README.md: "stores accepted uplinks durably in a local SQLite
\* outbox, retries delivery to a remote backhaul service").
AcceptedIsKept ==
    \A x \in answered : x[2] # BadRequest =>
        \E rows \in {conn.durable.outbox, conn.durable.dead, csp.uplinks} :
            x[2] \in DOMAIN rows /\ rows[x[2]] = x[1]

\* The cloud gives a receipt for an uplink only when it has projected it, at
\* least where the gateway accepted the node's registration before it and
\* still delivers that or has delivered it
\* (csp/implementation.md: uplinks "project inside the ingest transaction
\* before the terminal durable-ingest receipt is stored").
ReceiptMeansProjected ==
    \A x, y \in answered :
        /\ x[1] \in Registrations
        /\ y[1] \in Packet /\ NodeOf[y[1]] = NodeOf[x[1]]
        /\ x[2] < y[2] /\ x[2] \notin DOMAIN conn.db.dead
        /\ y[2] \in DOMAIN csp.uplinks
        => y[2] \in csp.projected
=============================================================================
