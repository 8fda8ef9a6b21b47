------------------------ MODULE GatewayUplinkProofs ------------------------
(***************************************************************************)
(* What the gateway promises of an accepted uplink, for every number of    *)
(* packets, handler threads, rows per pass, copies and faults.             *)
(***************************************************************************)
EXTENDS GatewayUplink, FiniteSetTheorems, WellFoundedInduction, TLAPS

USE GatewayAssumption DEF GatewayAssumption

----------------------------------------------------------------------------
(* Shapes.  Only what the theorems need: fields that are there, and ids    *)
(* that are numbers.                                                       *)

TableShape(t) ==
    /\ {"next", "nodes", "outbox", "dead"} \subseteq DOMAIN t
    /\ t.next \in Nat \ {0}

ConnShape ==
    /\ {"durable", "db", "inTx"} \subseteq DOMAIN conn
    /\ TableShape(conn.durable) /\ TableShape(conn.db)
    /\ conn.inTx \in BOOLEAN

ThreadShape ==
    /\ DOMAIN intake = Threads
    /\ \A t \in Threads :
         /\ "pc" \in DOMAIN intake[t]
         /\ intake[t].pc # "idle" => {"request", "id"} \subseteq DOMAIN intake[t]

Shape == ConnShape /\ ThreadShape /\ {"pc", "batch"} \subseteq DOMAIN worker

----------------------------------------------------------------------------
(* The inductive invariant.                                                *)

OneTransaction == \A t, u \in Threads : InTransaction(t) /\ InTransaction(u) => t = u

\* The row of an id, or what has become of it
Held(tables, id) ==
    \/ id \in DOMAIN tables.outbox
    \/ id \in DOMAIN tables.dead
    \/ id \in DOMAIN csp.uplinks

\* Nothing gets lost on the way from one state of the tables to another.
Kept(old, new) ==
    /\ old.next <= new.next
    /\ \A id \in DOMAIN old.outbox \cup DOMAIN old.dead : Held(new, id)

NothingLost == Kept(conn.durable, conn.db)

\* A row is deleted for a receipt the cloud has given.
ReceiptIsReal == worker.pc = "receipt" => Current \in DOMAIN csp.uplinks

\* The ids threads have, on their way to an answer
Naming == {"insert", "commit", "store"}
HasId(t) ==
    /\ intake[t].pc \in Naming =>
         intake[t].id \in Nat \ {0} /\ intake[t].id < conn.db.next
    /\ intake[t].pc = "commit" => Held(conn.db, intake[t].id)
    /\ intake[t].pc = "store" =>
         intake[t].id < conn.durable.next /\ Held(conn.durable, intake[t].id)
ThreadIds == \A t \in Threads : HasId(t)

\* No two threads have the same id on its way to an answer,
Distinct ==
    \A t, u \in Threads : intake[t].pc \in Naming /\ intake[u].pc \in Naming
                            /\ intake[u].id = intake[t].id => u = t

\* and no answer with it has been given.
Fresh ==
    \A t \in Threads : intake[t].pc \in Naming =>
        \A x \in answered : x[2] # intake[t].id

AnswersHeld ==
    \A x \in answered : x[2] # BadRequest =>
        x[2] \in Nat /\ x[2] < conn.durable.next /\ Held(conn.durable, x[2])

\* A cached answer has been given before.
CacheAnswered == \A r \in DOMAIN cache : <<r, cache[r]>> \in answered

IInv ==
    /\ Shape
    /\ OneTransaction
    /\ NoStrayTransaction
    /\ NothingLost
    /\ ReceiptIsReal
    /\ ThreadIds
    /\ Distinct
    /\ Fresh
    /\ AnswersHeld
    /\ CacheAnswered
    /\ IdAnswersOneRequest

----------------------------------------------------------------------------
(* The store's operations.                                                 *)

\* A transaction's rows and fields, as the operations leave them
LEMMA Connection ==
    ASSUME ConnShape, NEW tables
    PROVE  /\ Begun(conn).db = conn.db /\ Begun(conn).durable = conn.durable
           /\ Begun(conn).inTx = TRUE /\ {"durable", "db", "inTx"} \subseteq DOMAIN Begun(conn)
           /\ Executed(conn, tables).db = tables /\ Executed(conn, tables).durable = conn.durable
           /\ Executed(conn, tables).inTx = TRUE
           /\ {"durable", "db", "inTx"} \subseteq DOMAIN Executed(conn, tables)
           /\ Committed(conn).db = conn.db /\ Committed(conn).durable = conn.db
           /\ Committed(conn).inTx = FALSE /\ {"durable", "db", "inTx"} \subseteq DOMAIN Committed(conn)
           /\ RolledBack(conn).db = conn.durable /\ RolledBack(conn).durable = conn.durable
           /\ RolledBack(conn).inTx = FALSE
           /\ {"durable", "db", "inTx"} \subseteq DOMAIN RolledBack(conn)
BY DEF ConnShape, Begun, Executed, Committed, RolledBack, Opened

\* What the statements do to the ids of the tables
LEMMA Statements ==
    ASSUME NEW t, TableShape(t), NEW node, NEW id, NEW p
    PROVE  /\ TableShape(NodeSeen(t, node)) /\ Kept(t, NodeSeen(t, node))
           /\ TableShape(IdAllocated(t)) /\ Kept(t, IdAllocated(t))
           /\ IdAllocated(t).next = t.next + 1
           /\ TableShape(Enqueued(t, id, p)) /\ Kept(t, Enqueued(t, id, p))
           /\ Held(Enqueued(t, id, p), id)
           /\ TableShape(Deleted(t, id))
           /\ id \in DOMAIN csp.uplinks => Kept(t, Deleted(t, id))
           /\ TableShape(DeadLettered(t, id)) /\ Kept(t, DeadLettered(t, id))
<1> USE DEF TableShape, Kept, Held
<1>1. TableShape(NodeSeen(t, node)) /\ Kept(t, NodeSeen(t, node))
  BY DEF NodeSeen
<1>2. TableShape(IdAllocated(t)) /\ Kept(t, IdAllocated(t)) /\ IdAllocated(t).next = t.next + 1
  BY DEF IdAllocated
<1>3. DOMAIN With(t.outbox, id, p) = {id} \cup DOMAIN t.outbox
  BY DEF With
<1>4. TableShape(Enqueued(t, id, p)) /\ Kept(t, Enqueued(t, id, p)) /\ Held(Enqueued(t, id, p), id)
  BY <1>3 DEF Enqueued
<1>5. DOMAIN Without(t.outbox, id) = DOMAIN t.outbox \ {id}
  BY DEF Without
<1>6. TableShape(Deleted(t, id)) /\ (id \in DOMAIN csp.uplinks => Kept(t, Deleted(t, id)))
  BY <1>5 DEF Deleted
<1>7. TableShape(DeadLettered(t, id)) /\ Kept(t, DeadLettered(t, id))
  <2>1. CASE id \notin DOMAIN t.outbox
    BY <2>1 DEF DeadLettered
  <2>2. CASE id \in DOMAIN t.outbox
    <3>1. DOMAIN With(t.dead, id, t.outbox[id]) = {id} \cup DOMAIN t.dead
      BY DEF With
    <3> QED BY <1>5, <2>2, <3>1 DEF DeadLettered
  <2> QED BY <2>1, <2>2
<1> QED BY <1>1, <1>2, <1>4, <1>6, <1>7

\* Losing nothing goes from state to state.
LEMMA KeptLaws ==
    ASSUME NEW s, NEW t, NEW u, TableShape(s), TableShape(t), TableShape(u)
    PROVE  /\ Kept(s, s)
           /\ Kept(s, t) /\ Kept(t, u) => Kept(s, u)
BY DEF Kept, Held, TableShape

----------------------------------------------------------------------------
(* The inductive step, one lemma per part of the invariant.                *)

CloudGrows == DOMAIN csp.uplinks \subseteq DOMAIN csp'.uplinks

\* What is on disk stays, moves to the dead letters or is at the cloud.
DiskKept ==
    /\ conn.durable.next <= conn'.durable.next
    /\ \A id : Held(conn.durable, id) => Held(conn.durable, id)'

Good == ConnShape /\ NothingLost

\* The connection after a step that loses nothing
LEMMA Carried ==
    ASSUME Good, csp' = csp, TableShape(conn'.durable), TableShape(conn'.db),
           conn'.inTx \in BOOLEAN, {"durable", "db", "inTx"} \subseteq DOMAIN conn',
           Kept(conn.durable, conn'.durable), Kept(conn'.durable, conn'.db)
    PROVE  Good' /\ DiskKept
<1>1. ConnShape'
  BY DEF ConnShape, TableShape
<1>2. NothingLost'
  BY DEF NothingLost, Kept, Held
<1>3. DiskKept
  BY DEF DiskKept, Kept, Held
<1> QED BY <1>1, <1>2, <1>3 DEF Good

\* The cloud forgets no uplink.
LEMMA CloudStep ==
    ASSUME TRUE, [Next]_vars
    PROVE  CloudGrows
<1> USE DEF CloudGrows
<1>1. ASSUME NEW t \in Threads, Refuse(t)
      PROVE  CloudGrows
  BY <1>1 DEF Refuse, CacheAndAnswer, Answer, Go, workerVars, cloudVars
<1>2. ASSUME NEW t \in Threads, Begin(t)
      PROVE  CloudGrows
  BY <1>2 DEF Begin, Go, workerVars, cloudVars
<1>3. ASSUME NEW t \in Threads, UpsertNode(t)
      PROVE  CloudGrows
  BY <1>3 DEF UpsertNode, Statement, Go, workerVars, cloudVars
<1>4. ASSUME NEW t \in Threads, AllocateId(t)
      PROVE  CloudGrows
  BY <1>4 DEF AllocateId, Statement, Go, workerVars, cloudVars
<1>5. ASSUME NEW t \in Threads, Insert(t)
      PROVE  CloudGrows
  BY <1>5 DEF Insert, Statement, Go, workerVars, cloudVars
<1>6. ASSUME NEW t \in Threads, Commit(t)
      PROVE  CloudGrows
  BY <1>6 DEF Commit, Go, workerVars, cloudVars
<1>7. ASSUME NEW t \in Threads, Accept(t)
      PROVE  CloudGrows
  BY <1>7 DEF Accept, CacheAndAnswer, Answer, Go, workerVars, cloudVars
<1>8. ASSUME NEW t \in Threads, NEW r \in Requests, Receive(t, r)
      PROVE  CloudGrows
  BY <1>8 DEF Receive, Answer, Go, workerVars, cloudVars
<1>9. ASSUME NEW t \in Threads, StatementFails(t)
      PROVE  CloudGrows
  BY <1>9 DEF StatementFails, Go, workerVars, cloudVars
<1>10. ASSUME NEW r \in Requests, CacheForgets(r)
      PROVE  CloudGrows
  BY <1>10 DEF CacheForgets, workerVars, cloudVars
<1>11. ASSUME StartPass
      PROVE  CloudGrows
  BY <1>11 DEF StartPass, intakeVars, cloudVars
<1>12. ASSUME Post
      PROVE  CloudGrows
  BY <1>12 DEF Post, WorkerAt, intakeVars
<1>13. ASSUME MarkRetry
      PROVE  CloudGrows
  BY <1>13 DEF MarkRetry, WorkerAt, intakeVars, cloudVars
<1>14. ASSUME Delete
      PROVE  CloudGrows
  BY <1>14 DEF Delete, WorkerAt, intakeVars, cloudVars
<1>15. ASSUME CommitWrite
      PROVE  CloudGrows
  BY <1>15 DEF CommitWrite, NextRecord, intakeVars, cloudVars
<1>16. ASSUME DeadLetter
      PROVE  CloudGrows
  BY <1>16 DEF DeadLetter, NextRecord, intakeVars
<1>17. ASSUME NEW i \in later, Elapse(i)
      PROVE  CloudGrows
  BY <1>17 DEF Elapse, intakeVars, cloudVars
<1>18. ASSUME NEW m \in wire, Handle(m)
      PROVE  CloudGrows
  <2>1. csp' = Ingested(csp, m.id, m.packet)
    BY <1>18 DEF Handle
  <2> QED BY <2>1 DEF Ingested

<1>19. ASSUME NEW m \in wire, Lose(m)
      PROVE  CloudGrows
  BY <1>19 DEF Lose, intakeVars, workerVars
<1>20. ASSUME Crash
      PROVE  CloudGrows
  BY <1>20 DEF Crash, cloudVars
<1>21. ASSUME UNCHANGED vars
      PROVE  CloudGrows
  BY <1>21 DEF vars, intakeVars, workerVars, cloudVars
<1> QED BY <1>1, <1>2, <1>3, <1>4, <1>5, <1>6, <1>7, <1>8, <1>9, <1>10,
      <1>11, <1>12, <1>13, <1>14, <1>15, <1>16, <1>17, <1>18, <1>19, <1>20,
      <1>21 DEF Next, IntakeStep, WorkerStep

\* The connection keeps its shape and loses nothing, open or committed.
LEMMA StoreStep ==
    ASSUME Good, ReceiptIsReal, [Next]_vars
    PROVE  Good' /\ DiskKept
<1>1. ASSUME NEW t \in Threads, Refuse(t)
      PROVE  Good' /\ DiskKept
  <2>1. conn' = conn
    BY <1>1 DEF Refuse, CacheAndAnswer, Answer, Go, workerVars, cloudVars
  <2> QED BY <2>1, CloudStep DEF CloudGrows, Good, ConnShape, TableShape, NothingLost, Kept, Held, DiskKept

<1>2. ASSUME NEW t \in Threads, Begin(t)
      PROVE  Good' /\ DiskKept
  <2>1. conn' \in {RolledBack(conn), Begun(conn)} /\ csp' = csp
    BY <1>2 DEF Begin, Go, workerVars, cloudVars
  <2>2. /\ conn'.durable = conn.durable /\ conn'.db \in {conn.db, conn.durable}
        /\ conn'.inTx \in BOOLEAN /\ {"durable", "db", "inTx"} \subseteq DOMAIN conn'
    BY <2>1, Connection DEF Good
  <2> QED BY <2>1, <2>2, Carried, KeptLaws DEF Good, ConnShape, NothingLost

<1>3. ASSUME NEW t \in Threads, UpsertNode(t)
      PROVE  Good' /\ DiskKept
  <2> DEFINE new == NodeSeen(conn.db, NodeOf[intake[t].request])
  <2>1. conn' = Executed(conn, new) /\ csp' = csp
    BY <1>3 DEF UpsertNode, Statement, Go, workerVars, cloudVars
  <2>2. /\ conn'.durable = conn.durable /\ conn'.db = new
        /\ conn'.inTx \in BOOLEAN /\ {"durable", "db", "inTx"} \subseteq DOMAIN conn'
    BY <2>1, Connection DEF Good
  <2>3. TableShape(new) /\ Kept(conn.db, new)
    BY Statements DEF Good, ConnShape
  <2> HIDE DEF new
  <2> QED BY <2>1, <2>2, <2>3, Carried, KeptLaws DEF Good, ConnShape, NothingLost

<1>4. ASSUME NEW t \in Threads, AllocateId(t)
      PROVE  Good' /\ DiskKept
  <2> DEFINE new == IdAllocated(conn.db)
  <2>1. conn' = Executed(conn, new) /\ csp' = csp
    BY <1>4 DEF AllocateId, Statement, Go, workerVars, cloudVars
  <2>2. /\ conn'.durable = conn.durable /\ conn'.db = new
        /\ conn'.inTx \in BOOLEAN /\ {"durable", "db", "inTx"} \subseteq DOMAIN conn'
    BY <2>1, Connection DEF Good
  <2>3. TableShape(new) /\ Kept(conn.db, new)
    BY Statements DEF Good, ConnShape
  <2> HIDE DEF new
  <2> QED BY <2>1, <2>2, <2>3, Carried, KeptLaws DEF Good, ConnShape, NothingLost

<1>5. ASSUME NEW t \in Threads, Insert(t)
      PROVE  Good' /\ DiskKept
  <2> DEFINE new == Enqueued(conn.db, intake[t].id, intake[t].request)
  <2>1. conn' = Executed(conn, new) /\ csp' = csp
    BY <1>5 DEF Insert, Statement, Go, workerVars, cloudVars
  <2>2. /\ conn'.durable = conn.durable /\ conn'.db = new
        /\ conn'.inTx \in BOOLEAN /\ {"durable", "db", "inTx"} \subseteq DOMAIN conn'
    BY <2>1, Connection DEF Good
  <2>3. TableShape(new) /\ Kept(conn.db, new)
    BY Statements DEF Good, ConnShape
  <2> HIDE DEF new
  <2> QED BY <2>1, <2>2, <2>3, Carried, KeptLaws DEF Good, ConnShape, NothingLost

<1>6. ASSUME NEW t \in Threads, Commit(t)
      PROVE  Good' /\ DiskKept
  <2>1. conn' = Committed(conn) /\ csp' = csp
    BY <1>6 DEF Commit, Go, workerVars, cloudVars
  <2>2. /\ conn'.durable = conn.db /\ conn'.db = conn.db
        /\ conn'.inTx \in BOOLEAN /\ {"durable", "db", "inTx"} \subseteq DOMAIN conn'
    BY <2>1, Connection DEF Good
  <2> QED BY <2>1, <2>2, Carried, KeptLaws DEF Good, ConnShape, NothingLost

<1>7. ASSUME NEW t \in Threads, Accept(t)
      PROVE  Good' /\ DiskKept
  <2>1. conn' = conn
    BY <1>7 DEF Accept, CacheAndAnswer, Answer, Go, workerVars, cloudVars
  <2> QED BY <2>1, CloudStep DEF CloudGrows, Good, ConnShape, TableShape, NothingLost, Kept, Held, DiskKept

<1>8. ASSUME NEW t \in Threads, NEW r \in Requests, Receive(t, r)
      PROVE  Good' /\ DiskKept
  <2>1. conn' = conn
    BY <1>8 DEF Receive, Answer, Go, workerVars, cloudVars
  <2> QED BY <2>1, CloudStep DEF CloudGrows, Good, ConnShape, TableShape, NothingLost, Kept, Held, DiskKept

<1>9. ASSUME NEW t \in Threads, StatementFails(t)
      PROVE  Good' /\ DiskKept
  <2>1. conn' = RolledBack(conn) /\ csp' = csp
    BY <1>9 DEF StatementFails, Go, workerVars, cloudVars
  <2>2. /\ conn'.durable = conn.durable /\ conn'.db = conn.durable
        /\ conn'.inTx \in BOOLEAN /\ {"durable", "db", "inTx"} \subseteq DOMAIN conn'
    BY <2>1, Connection DEF Good
  <2> QED BY <2>1, <2>2, Carried, KeptLaws DEF Good, ConnShape, NothingLost

<1>10. ASSUME NEW r \in Requests, CacheForgets(r)
      PROVE  Good' /\ DiskKept
  <2>1. conn' = conn
    BY <1>10 DEF CacheForgets, workerVars, cloudVars
  <2> QED BY <2>1, CloudStep DEF CloudGrows, Good, ConnShape, TableShape, NothingLost, Kept, Held, DiskKept

<1>11. ASSUME StartPass
      PROVE  Good' /\ DiskKept
  <2>1. conn' = conn
    BY <1>11 DEF StartPass, intakeVars, cloudVars
  <2> QED BY <2>1, CloudStep DEF CloudGrows, Good, ConnShape, TableShape, NothingLost, Kept, Held, DiskKept

<1>12. ASSUME Post
      PROVE  Good' /\ DiskKept
  <2>1. conn' = conn
    BY <1>12 DEF Post, WorkerAt, intakeVars
  <2> QED BY <2>1, CloudStep DEF CloudGrows, Good, ConnShape, TableShape, NothingLost, Kept, Held, DiskKept

<1>13. ASSUME MarkRetry
      PROVE  Good' /\ DiskKept
  <2>1. conn' = Executed(conn, conn.db) /\ csp' = csp
    BY <1>13 DEF MarkRetry, WorkerAt, intakeVars, cloudVars
  <2>2. /\ conn'.durable = conn.durable /\ conn'.db = conn.db
        /\ conn'.inTx \in BOOLEAN /\ {"durable", "db", "inTx"} \subseteq DOMAIN conn'
    BY <2>1, Connection DEF Good
  <2> QED BY <2>1, <2>2, Carried, KeptLaws DEF Good, ConnShape, NothingLost

<1>14. ASSUME Delete
      PROVE  Good' /\ DiskKept
  <2> DEFINE new == Deleted(conn.db, Current)
  <2>1. conn' = Executed(conn, new) /\ csp' = csp
    BY <1>14 DEF Delete, WorkerAt, intakeVars, cloudVars
  <2>2. /\ conn'.durable = conn.durable /\ conn'.db = new
        /\ conn'.inTx \in BOOLEAN /\ {"durable", "db", "inTx"} \subseteq DOMAIN conn'
    BY <2>1, Connection DEF Good
  <2>3. TableShape(new) /\ Kept(conn.db, new)
    BY <1>14, Statements DEF Delete, ReceiptIsReal, Good, ConnShape
  <2> HIDE DEF new
  <2> QED BY <2>1, <2>2, <2>3, Carried, KeptLaws DEF Good, ConnShape, NothingLost

<1>15. ASSUME CommitWrite
      PROVE  Good' /\ DiskKept
  <2>1. conn' = Committed(conn) /\ csp' = csp
    BY <1>15 DEF CommitWrite, NextRecord, intakeVars, cloudVars
  <2>2. /\ conn'.durable = conn.db /\ conn'.db = conn.db
        /\ conn'.inTx \in BOOLEAN /\ {"durable", "db", "inTx"} \subseteq DOMAIN conn'
    BY <2>1, Connection DEF Good
  <2> QED BY <2>1, <2>2, Carried, KeptLaws DEF Good, ConnShape, NothingLost

<1>16. ASSUME DeadLetter
      PROVE  Good' /\ DiskKept
  <2> DEFINE new == DeadLettered(conn.db, Current)
  <2>1. conn' = Committed(Executed(conn, new)) /\ csp' = csp
    BY <1>16 DEF DeadLetter, NextRecord, intakeVars
  <2>2. /\ conn'.durable = new /\ conn'.db = new
        /\ conn'.inTx \in BOOLEAN /\ {"durable", "db", "inTx"} \subseteq DOMAIN conn'
    BY <2>1 DEF Committed, Executed, Good, ConnShape
  <2>3. TableShape(new) /\ Kept(conn.db, new)
    BY Statements DEF Good, ConnShape
  <2> HIDE DEF new
  <2> QED BY <2>1, <2>2, <2>3, Carried, KeptLaws DEF Good, ConnShape, NothingLost

<1>17. ASSUME NEW i \in later, Elapse(i)
      PROVE  Good' /\ DiskKept
  <2>1. conn' = conn
    BY <1>17 DEF Elapse, intakeVars, cloudVars
  <2> QED BY <2>1, CloudStep DEF CloudGrows, Good, ConnShape, TableShape, NothingLost, Kept, Held, DiskKept

<1>18. ASSUME NEW m \in wire, Handle(m)
      PROVE  Good' /\ DiskKept
  <2>1. conn' = conn
    BY <1>18 DEF Handle, intakeVars
  <2> QED BY <2>1, CloudStep DEF CloudGrows, Good, ConnShape, TableShape, NothingLost, Kept, Held, DiskKept

<1>19. ASSUME NEW m \in wire, Lose(m)
      PROVE  Good' /\ DiskKept
  <2>1. conn' = conn
    BY <1>19 DEF Lose, intakeVars, workerVars
  <2> QED BY <2>1, CloudStep DEF CloudGrows, Good, ConnShape, TableShape, NothingLost, Kept, Held, DiskKept

<1>20. ASSUME Crash
      PROVE  Good' /\ DiskKept
  <2>1. conn' = RolledBack(conn) /\ csp' = csp
    BY <1>20 DEF Crash, cloudVars
  <2>2. /\ conn'.durable = conn.durable /\ conn'.db = conn.durable
        /\ conn'.inTx \in BOOLEAN /\ {"durable", "db", "inTx"} \subseteq DOMAIN conn'
    BY <2>1, Connection DEF Good
  <2> QED BY <2>1, <2>2, Carried, KeptLaws DEF Good, ConnShape, NothingLost

<1>21. ASSUME UNCHANGED vars
      PROVE  Good' /\ DiskKept
  <2>1. conn' = conn
    BY <1>21 DEF vars, intakeVars, workerVars, cloudVars
  <2> QED BY <2>1, CloudStep DEF CloudGrows, Good, ConnShape, TableShape, NothingLost, Kept, Held, DiskKept

<1> QED BY <1>1, <1>2, <1>3, <1>4, <1>5, <1>6, <1>7, <1>8, <1>9, <1>10,
      <1>11, <1>12, <1>13, <1>14, <1>15, <1>16, <1>17, <1>18, <1>19, <1>20,
      <1>21 DEF Next, IntakeStep, WorkerStep

\* A thread keeps its fields.
LEMMA ThreadShapeStep ==
    ASSUME ThreadShape, [Next]_vars
    PROVE  ThreadShape'
<1> USE DEF ThreadShape, IdleThread, At, InTransaction
<1>1. ASSUME NEW t \in Threads, Refuse(t)
      PROVE  ThreadShape'
  BY <1>1 DEF Refuse, CacheAndAnswer, Answer, Go, workerVars, cloudVars
<1>2. ASSUME NEW t \in Threads, Begin(t)
      PROVE  ThreadShape'
  BY <1>2 DEF Begin, Go, workerVars, cloudVars
<1>3. ASSUME NEW t \in Threads, UpsertNode(t)
      PROVE  ThreadShape'
  BY <1>3 DEF UpsertNode, Statement, Go, workerVars, cloudVars
<1>4. ASSUME NEW t \in Threads, AllocateId(t)
      PROVE  ThreadShape'
  BY <1>4 DEF AllocateId, Statement, Go, workerVars, cloudVars
<1>5. ASSUME NEW t \in Threads, Insert(t)
      PROVE  ThreadShape'
  BY <1>5 DEF Insert, Statement, Go, workerVars, cloudVars
<1>6. ASSUME NEW t \in Threads, Commit(t)
      PROVE  ThreadShape'
  BY <1>6 DEF Commit, Go, workerVars, cloudVars
<1>7. ASSUME NEW t \in Threads, Accept(t)
      PROVE  ThreadShape'
  BY <1>7 DEF Accept, CacheAndAnswer, Answer, Go, workerVars, cloudVars
<1>8. ASSUME NEW t \in Threads, NEW r \in Requests, Receive(t, r)
      PROVE  ThreadShape'
  BY <1>8 DEF Receive, Answer, Go, workerVars, cloudVars
<1>9. ASSUME NEW t \in Threads, StatementFails(t)
      PROVE  ThreadShape'
  BY <1>9 DEF StatementFails, Go, workerVars, cloudVars
<1>10. ASSUME NEW r \in Requests, CacheForgets(r)
      PROVE  ThreadShape'
  BY <1>10 DEF CacheForgets, workerVars, cloudVars
<1>11. ASSUME StartPass
      PROVE  ThreadShape'
  BY <1>11 DEF StartPass, intakeVars, cloudVars
<1>12. ASSUME Post
      PROVE  ThreadShape'
  BY <1>12 DEF Post, WorkerAt, intakeVars
<1>13. ASSUME MarkRetry
      PROVE  ThreadShape'
  BY <1>13 DEF MarkRetry, WorkerAt, intakeVars, cloudVars
<1>14. ASSUME Delete
      PROVE  ThreadShape'
  BY <1>14 DEF Delete, WorkerAt, intakeVars, cloudVars
<1>15. ASSUME CommitWrite
      PROVE  ThreadShape'
  BY <1>15 DEF CommitWrite, NextRecord, intakeVars, cloudVars
<1>16. ASSUME DeadLetter
      PROVE  ThreadShape'
  BY <1>16 DEF DeadLetter, NextRecord, intakeVars
<1>17. ASSUME NEW i \in later, Elapse(i)
      PROVE  ThreadShape'
  BY <1>17 DEF Elapse, intakeVars, cloudVars
<1>18. ASSUME NEW m \in wire, Handle(m)
      PROVE  ThreadShape'
  BY <1>18 DEF Handle, intakeVars
<1>19. ASSUME NEW m \in wire, Lose(m)
      PROVE  ThreadShape'
  BY <1>19 DEF Lose, intakeVars, workerVars
<1>20. ASSUME Crash
      PROVE  ThreadShape'
  BY <1>20 DEF Crash, cloudVars
<1>21. ASSUME UNCHANGED vars
      PROVE  ThreadShape'
  BY <1>21 DEF vars, intakeVars, workerVars, cloudVars
<1> QED BY <1>1, <1>2, <1>3, <1>4, <1>5, <1>6, <1>7, <1>8, <1>9, <1>10,
      <1>11, <1>12, <1>13, <1>14, <1>15, <1>16, <1>17, <1>18, <1>19, <1>20,
      <1>21 DEF Next, IntakeStep, WorkerStep

\* The lock lets one thread at a time into a transaction.
LEMMA OneTransactionStep ==
    ASSUME ThreadShape, OneTransaction, [Next]_vars
    PROVE  OneTransaction'
<1> USE DEF ThreadShape, OneTransaction, InTransaction, LockFree, IdleThread, At
<1>1. ASSUME NEW t \in Threads, Refuse(t)
      PROVE  OneTransaction'
  BY <1>1 DEF Refuse, CacheAndAnswer, Answer, Go, workerVars, cloudVars
<1>2. ASSUME NEW t \in Threads, Begin(t)
      PROVE  OneTransaction'
  BY <1>2 DEF Begin, Go, workerVars, cloudVars
<1>3. ASSUME NEW t \in Threads, UpsertNode(t)
      PROVE  OneTransaction'
  BY <1>3 DEF UpsertNode, Statement, Go, workerVars, cloudVars
<1>4. ASSUME NEW t \in Threads, AllocateId(t)
      PROVE  OneTransaction'
  BY <1>4 DEF AllocateId, Statement, Go, workerVars, cloudVars
<1>5. ASSUME NEW t \in Threads, Insert(t)
      PROVE  OneTransaction'
  BY <1>5 DEF Insert, Statement, Go, workerVars, cloudVars
<1>6. ASSUME NEW t \in Threads, Commit(t)
      PROVE  OneTransaction'
  BY <1>6 DEF Commit, Go, workerVars, cloudVars
<1>7. ASSUME NEW t \in Threads, Accept(t)
      PROVE  OneTransaction'
  BY <1>7 DEF Accept, CacheAndAnswer, Answer, Go, workerVars, cloudVars
<1>8. ASSUME NEW t \in Threads, NEW r \in Requests, Receive(t, r)
      PROVE  OneTransaction'
  BY <1>8 DEF Receive, Answer, Go, workerVars, cloudVars
<1>9. ASSUME NEW t \in Threads, StatementFails(t)
      PROVE  OneTransaction'
  BY <1>9 DEF StatementFails, Go, workerVars, cloudVars
<1>10. ASSUME NEW r \in Requests, CacheForgets(r)
      PROVE  OneTransaction'
  BY <1>10 DEF CacheForgets, workerVars, cloudVars
<1>11. ASSUME StartPass
      PROVE  OneTransaction'
  BY <1>11 DEF StartPass, intakeVars, cloudVars
<1>12. ASSUME Post
      PROVE  OneTransaction'
  BY <1>12 DEF Post, WorkerAt, intakeVars
<1>13. ASSUME MarkRetry
      PROVE  OneTransaction'
  BY <1>13 DEF MarkRetry, WorkerAt, intakeVars, cloudVars
<1>14. ASSUME Delete
      PROVE  OneTransaction'
  BY <1>14 DEF Delete, WorkerAt, intakeVars, cloudVars
<1>15. ASSUME CommitWrite
      PROVE  OneTransaction'
  BY <1>15 DEF CommitWrite, NextRecord, intakeVars, cloudVars
<1>16. ASSUME DeadLetter
      PROVE  OneTransaction'
  BY <1>16 DEF DeadLetter, NextRecord, intakeVars
<1>17. ASSUME NEW i \in later, Elapse(i)
      PROVE  OneTransaction'
  BY <1>17 DEF Elapse, intakeVars, cloudVars
<1>18. ASSUME NEW m \in wire, Handle(m)
      PROVE  OneTransaction'
  BY <1>18 DEF Handle, intakeVars
<1>19. ASSUME NEW m \in wire, Lose(m)
      PROVE  OneTransaction'
  BY <1>19 DEF Lose, intakeVars, workerVars
<1>20. ASSUME Crash
      PROVE  OneTransaction'
  BY <1>20 DEF Crash, cloudVars
<1>21. ASSUME UNCHANGED vars
      PROVE  OneTransaction'
  BY <1>21 DEF vars, intakeVars, workerVars, cloudVars
<1> QED BY <1>1, <1>2, <1>3, <1>4, <1>5, <1>6, <1>7, <1>8, <1>9, <1>10,
      <1>11, <1>12, <1>13, <1>14, <1>15, <1>16, <1>17, <1>18, <1>19, <1>20,
      <1>21 DEF Next, IntakeStep, WorkerStep

\* A receipt comes from the cloud.
LEMMA ReceiptStep ==
    ASSUME {"pc", "batch"} \subseteq DOMAIN worker, ReceiptIsReal, [Next]_vars
    PROVE  ReceiptIsReal' /\ {"pc", "batch"} \subseteq DOMAIN worker'
<1> USE DEF ReceiptIsReal, Current, PassFrom, IdleWorker
<1>1. ASSUME NEW t \in Threads, Refuse(t)
      PROVE  ReceiptIsReal' /\ {"pc", "batch"} \subseteq DOMAIN worker'
  BY <1>1 DEF Refuse, CacheAndAnswer, Answer, Go, workerVars, cloudVars
<1>2. ASSUME NEW t \in Threads, Begin(t)
      PROVE  ReceiptIsReal' /\ {"pc", "batch"} \subseteq DOMAIN worker'
  BY <1>2 DEF Begin, Go, workerVars, cloudVars
<1>3. ASSUME NEW t \in Threads, UpsertNode(t)
      PROVE  ReceiptIsReal' /\ {"pc", "batch"} \subseteq DOMAIN worker'
  BY <1>3 DEF UpsertNode, Statement, Go, workerVars, cloudVars
<1>4. ASSUME NEW t \in Threads, AllocateId(t)
      PROVE  ReceiptIsReal' /\ {"pc", "batch"} \subseteq DOMAIN worker'
  BY <1>4 DEF AllocateId, Statement, Go, workerVars, cloudVars
<1>5. ASSUME NEW t \in Threads, Insert(t)
      PROVE  ReceiptIsReal' /\ {"pc", "batch"} \subseteq DOMAIN worker'
  BY <1>5 DEF Insert, Statement, Go, workerVars, cloudVars
<1>6. ASSUME NEW t \in Threads, Commit(t)
      PROVE  ReceiptIsReal' /\ {"pc", "batch"} \subseteq DOMAIN worker'
  BY <1>6 DEF Commit, Go, workerVars, cloudVars
<1>7. ASSUME NEW t \in Threads, Accept(t)
      PROVE  ReceiptIsReal' /\ {"pc", "batch"} \subseteq DOMAIN worker'
  BY <1>7 DEF Accept, CacheAndAnswer, Answer, Go, workerVars, cloudVars
<1>8. ASSUME NEW t \in Threads, NEW r \in Requests, Receive(t, r)
      PROVE  ReceiptIsReal' /\ {"pc", "batch"} \subseteq DOMAIN worker'
  BY <1>8 DEF Receive, Answer, Go, workerVars, cloudVars
<1>9. ASSUME NEW t \in Threads, StatementFails(t)
      PROVE  ReceiptIsReal' /\ {"pc", "batch"} \subseteq DOMAIN worker'
  BY <1>9 DEF StatementFails, Go, workerVars, cloudVars
<1>10. ASSUME NEW r \in Requests, CacheForgets(r)
      PROVE  ReceiptIsReal' /\ {"pc", "batch"} \subseteq DOMAIN worker'
  BY <1>10 DEF CacheForgets, workerVars, cloudVars
<1>11. ASSUME StartPass
      PROVE  ReceiptIsReal' /\ {"pc", "batch"} \subseteq DOMAIN worker'
  BY <1>11 DEF StartPass, intakeVars, cloudVars
<1>12. ASSUME Post
      PROVE  ReceiptIsReal' /\ {"pc", "batch"} \subseteq DOMAIN worker'
  BY <1>12 DEF Post, WorkerAt, intakeVars
<1>13. ASSUME MarkRetry
      PROVE  ReceiptIsReal' /\ {"pc", "batch"} \subseteq DOMAIN worker'
  BY <1>13 DEF MarkRetry, WorkerAt, intakeVars, cloudVars
<1>14. ASSUME Delete
      PROVE  ReceiptIsReal' /\ {"pc", "batch"} \subseteq DOMAIN worker'
  BY <1>14 DEF Delete, WorkerAt, intakeVars, cloudVars
<1>15. ASSUME CommitWrite
      PROVE  ReceiptIsReal' /\ {"pc", "batch"} \subseteq DOMAIN worker'
  BY <1>15 DEF CommitWrite, NextRecord, intakeVars, cloudVars
<1>16. ASSUME DeadLetter
      PROVE  ReceiptIsReal' /\ {"pc", "batch"} \subseteq DOMAIN worker'
  BY <1>16 DEF DeadLetter, NextRecord, intakeVars
<1>17. ASSUME NEW i \in later, Elapse(i)
      PROVE  ReceiptIsReal' /\ {"pc", "batch"} \subseteq DOMAIN worker'
  BY <1>17 DEF Elapse, intakeVars, cloudVars
<1>18. ASSUME NEW m \in wire, Handle(m)
      PROVE  ReceiptIsReal' /\ {"pc", "batch"} \subseteq DOMAIN worker'
  <2>1. csp' = Ingested(csp, m.id, m.packet)
    BY <1>18 DEF Handle
  <2>2. m.id \in DOMAIN csp'.uplinks /\ CloudGrows
    BY <2>1, CloudStep DEF Ingested
  <2>3. CASE worker' = worker
    BY <2>2, <2>3 DEF CloudGrows
  <2>4. CASE worker' = [worker EXCEPT !.pc = "receipt"] /\ Posted = m
    BY <2>2, <2>4 DEF Posted
  <2> QED BY <1>18, <2>3, <2>4 DEF Handle

<1>19. ASSUME NEW m \in wire, Lose(m)
      PROVE  ReceiptIsReal' /\ {"pc", "batch"} \subseteq DOMAIN worker'
  BY <1>19 DEF Lose, intakeVars, workerVars
<1>20. ASSUME Crash
      PROVE  ReceiptIsReal' /\ {"pc", "batch"} \subseteq DOMAIN worker'
  BY <1>20 DEF Crash, cloudVars
<1>21. ASSUME UNCHANGED vars
      PROVE  ReceiptIsReal' /\ {"pc", "batch"} \subseteq DOMAIN worker'
  BY <1>21 DEF vars, intakeVars, workerVars, cloudVars
<1> QED BY <1>1, <1>2, <1>3, <1>4, <1>5, <1>6, <1>7, <1>8, <1>9, <1>10,
      <1>11, <1>12, <1>13, <1>14, <1>15, <1>16, <1>17, <1>18, <1>19, <1>20,
      <1>21 DEF Next, IntakeStep, WorkerStep

\* A transaction nobody holds the lock for is the main thread's, and short.
LEMMA NoStrayStep ==
    ASSUME Good, ThreadShape, {"pc", "batch"} \subseteq DOMAIN worker, OneTransaction, NoStrayTransaction, [Next]_vars
    PROVE  NoStrayTransaction'
<1> USE DEF Good, ThreadShape, NoStrayTransaction, InTransaction, LockFree, IdleThread, At, PassFrom, IdleWorker
<1>1. ASSUME NEW t \in Threads, Refuse(t)
      PROVE  NoStrayTransaction'
  BY <1>1 DEF Refuse, CacheAndAnswer, Answer, Go, workerVars, cloudVars
<1>2. ASSUME NEW t \in Threads, Begin(t)
      PROVE  NoStrayTransaction'
  BY <1>2, Connection DEF Begin, Go, workerVars, cloudVars
<1>3. ASSUME NEW t \in Threads, UpsertNode(t)
      PROVE  NoStrayTransaction'
  <2>1. intake[t].pc # "idle" /\ intake'[t].pc \in {"node", "allocate", "insert", "commit"}
    BY <1>3 DEF UpsertNode, Statement, Go, workerVars, cloudVars
  <2> QED BY <2>1

<1>4. ASSUME NEW t \in Threads, AllocateId(t)
      PROVE  NoStrayTransaction'
  <2>1. intake[t].pc # "idle" /\ intake'[t].pc \in {"node", "allocate", "insert", "commit"}
    BY <1>4 DEF AllocateId, Statement, Go, workerVars, cloudVars
  <2> QED BY <2>1

<1>5. ASSUME NEW t \in Threads, Insert(t)
      PROVE  NoStrayTransaction'
  <2>1. intake[t].pc # "idle" /\ intake'[t].pc \in {"node", "allocate", "insert", "commit"}
    BY <1>5 DEF Insert, Statement, Go, workerVars, cloudVars
  <2> QED BY <2>1

<1>6. ASSUME NEW t \in Threads, Commit(t)
      PROVE  NoStrayTransaction'
  BY <1>6, Connection DEF Commit, Go, workerVars, cloudVars
<1>7. ASSUME NEW t \in Threads, Accept(t)
      PROVE  NoStrayTransaction'
  BY <1>7 DEF Accept, CacheAndAnswer, Answer, Go, workerVars, cloudVars
<1>8. ASSUME NEW t \in Threads, NEW r \in Requests, Receive(t, r)
      PROVE  NoStrayTransaction'
  BY <1>8 DEF Receive, Answer, Go, workerVars, cloudVars
<1>9. ASSUME NEW t \in Threads, StatementFails(t)
      PROVE  NoStrayTransaction'
  BY <1>9, Connection DEF StatementFails, Go, workerVars, cloudVars
<1>10. ASSUME NEW r \in Requests, CacheForgets(r)
      PROVE  NoStrayTransaction'
  BY <1>10 DEF CacheForgets, workerVars, cloudVars
<1>11. ASSUME StartPass
      PROVE  NoStrayTransaction'
  BY <1>11 DEF StartPass, intakeVars, cloudVars
<1>12. ASSUME Post
      PROVE  NoStrayTransaction'
  BY <1>12 DEF Post, WorkerAt, intakeVars
<1>13. ASSUME MarkRetry
      PROVE  NoStrayTransaction'
  BY <1>13 DEF MarkRetry, WorkerAt, intakeVars, cloudVars
<1>14. ASSUME Delete
      PROVE  NoStrayTransaction'
  BY <1>14 DEF Delete, WorkerAt, intakeVars, cloudVars
<1>15. ASSUME CommitWrite
      PROVE  NoStrayTransaction'
  BY <1>15, Connection DEF CommitWrite, NextRecord, intakeVars, cloudVars
<1>16. ASSUME DeadLetter
      PROVE  NoStrayTransaction'
  <2> DEFINE new == DeadLettered(conn.db, Current)
  <2>1. conn' = Committed(Executed(conn, new))
    BY <1>16 DEF DeadLetter, NextRecord, intakeVars
  <2>2. conn'.durable = new /\ conn'.db = new /\ conn'.inTx = FALSE
    BY <2>1 DEF Committed, Executed, Good, ConnShape
  <2> QED BY <2>2

<1>17. ASSUME NEW i \in later, Elapse(i)
      PROVE  NoStrayTransaction'
  BY <1>17 DEF Elapse, intakeVars, cloudVars
<1>18. ASSUME NEW m \in wire, Handle(m)
      PROVE  NoStrayTransaction'
  BY <1>18 DEF Handle, intakeVars
<1>19. ASSUME NEW m \in wire, Lose(m)
      PROVE  NoStrayTransaction'
  BY <1>19 DEF Lose, intakeVars, workerVars
<1>20. ASSUME Crash
      PROVE  NoStrayTransaction'
  BY <1>20, Connection DEF Crash, cloudVars
<1>21. ASSUME UNCHANGED vars
      PROVE  NoStrayTransaction'
  BY <1>21 DEF vars, intakeVars, workerVars, cloudVars
<1> QED BY <1>1, <1>2, <1>3, <1>4, <1>5, <1>6, <1>7, <1>8, <1>9, <1>10,
      <1>11, <1>12, <1>13, <1>14, <1>15, <1>16, <1>17, <1>18, <1>19, <1>20,
      <1>21 DEF Next, IntakeStep, WorkerStep

\* What is in the tables as the connection sees them stays or is accounted for.
OpenKept ==
    /\ conn.db.next <= conn'.db.next
    /\ \A id : Held(conn.db, id) => Held(conn.db, id)'

\* Only a step that leaves no thread in a transaction takes statements back.
LEMMA OpenStep ==
    ASSUME ConnShape, ReceiptIsReal, ThreadShape, OneTransaction, [Next]_vars
    PROVE  LockFree' \/ OpenKept
<1>1. ASSUME NEW t \in Threads, Refuse(t)
      PROVE  LockFree' \/ OpenKept
  <2>1. conn' = conn
    BY <1>1 DEF Refuse, CacheAndAnswer, Answer, Go, workerVars, cloudVars
  <2> QED BY <2>1, CloudStep DEF CloudGrows, OpenKept, Held, ConnShape, TableShape

<1>2. ASSUME NEW t \in Threads, Begin(t)
      PROVE  LockFree' \/ OpenKept
  <2>1. CASE conn.inTx
    <3>1. LockFree'
      BY <1>2, <2>1 DEF Begin, Go, workerVars, cloudVars, LockFree, InTransaction, ThreadShape, IdleThread
    <3> QED BY <3>1
  <2>2. CASE ~conn.inTx
    <3>1. conn'.db = conn.db /\ csp' = csp
      BY <1>2, <2>2, Connection DEF Begin, Go, workerVars, cloudVars
    <3> QED BY <3>1 DEF OpenKept, Held, ConnShape, TableShape
  <2> QED BY <2>1, <2>2

<1>3. ASSUME NEW t \in Threads, UpsertNode(t)
      PROVE  LockFree' \/ OpenKept
  <2> DEFINE new == NodeSeen(conn.db, NodeOf[intake[t].request])
  <2>1. conn'.db = new /\ csp' = csp
    BY <1>3, Connection DEF UpsertNode, Statement, Go, workerVars, cloudVars
  <2>2. Kept(conn.db, new)
    BY Statements DEF ConnShape
  <2> HIDE DEF new
  <2> QED BY <2>1, <2>2 DEF OpenKept, Kept, Held

<1>4. ASSUME NEW t \in Threads, AllocateId(t)
      PROVE  LockFree' \/ OpenKept
  <2> DEFINE new == IdAllocated(conn.db)
  <2>1. conn'.db = new /\ csp' = csp
    BY <1>4, Connection DEF AllocateId, Statement, Go, workerVars, cloudVars
  <2>2. Kept(conn.db, new)
    BY Statements DEF ConnShape
  <2> HIDE DEF new
  <2> QED BY <2>1, <2>2 DEF OpenKept, Kept, Held

<1>5. ASSUME NEW t \in Threads, Insert(t)
      PROVE  LockFree' \/ OpenKept
  <2> DEFINE new == Enqueued(conn.db, intake[t].id, intake[t].request)
  <2>1. conn'.db = new /\ csp' = csp
    BY <1>5, Connection DEF Insert, Statement, Go, workerVars, cloudVars
  <2>2. Kept(conn.db, new)
    BY Statements DEF ConnShape
  <2> HIDE DEF new
  <2> QED BY <2>1, <2>2 DEF OpenKept, Kept, Held

<1>6. ASSUME NEW t \in Threads, Commit(t)
      PROVE  LockFree' \/ OpenKept
  <2>1. conn'.db = conn.db /\ csp' = csp
    BY <1>6, Connection DEF Commit, Go, workerVars, cloudVars
  <2> QED BY <2>1 DEF OpenKept, Held, ConnShape, TableShape

<1>7. ASSUME NEW t \in Threads, Accept(t)
      PROVE  LockFree' \/ OpenKept
  <2>1. conn' = conn
    BY <1>7 DEF Accept, CacheAndAnswer, Answer, Go, workerVars, cloudVars
  <2> QED BY <2>1, CloudStep DEF CloudGrows, OpenKept, Held, ConnShape, TableShape

<1>8. ASSUME NEW t \in Threads, NEW r \in Requests, Receive(t, r)
      PROVE  LockFree' \/ OpenKept
  <2>1. conn' = conn
    BY <1>8 DEF Receive, Answer, Go, workerVars, cloudVars
  <2> QED BY <2>1, CloudStep DEF CloudGrows, OpenKept, Held, ConnShape, TableShape

<1>9. ASSUME NEW t \in Threads, StatementFails(t)
      PROVE  LockFree' \/ OpenKept
  <2>1. LockFree'
    BY <1>9 DEF StatementFails, Go, workerVars, cloudVars, LockFree, InTransaction, ThreadShape, OneTransaction, IdleThread
  <2> QED BY <2>1

<1>10. ASSUME NEW r \in Requests, CacheForgets(r)
      PROVE  LockFree' \/ OpenKept
  <2>1. conn' = conn
    BY <1>10 DEF CacheForgets, workerVars, cloudVars
  <2> QED BY <2>1, CloudStep DEF CloudGrows, OpenKept, Held, ConnShape, TableShape

<1>11. ASSUME StartPass
      PROVE  LockFree' \/ OpenKept
  <2>1. conn' = conn
    BY <1>11 DEF StartPass, intakeVars, cloudVars
  <2> QED BY <2>1, CloudStep DEF CloudGrows, OpenKept, Held, ConnShape, TableShape

<1>12. ASSUME Post
      PROVE  LockFree' \/ OpenKept
  <2>1. conn' = conn
    BY <1>12 DEF Post, WorkerAt, intakeVars
  <2> QED BY <2>1, CloudStep DEF CloudGrows, OpenKept, Held, ConnShape, TableShape

<1>13. ASSUME MarkRetry
      PROVE  LockFree' \/ OpenKept
  <2>1. conn'.db = conn.db /\ csp' = csp
    BY <1>13, Connection DEF MarkRetry, WorkerAt, intakeVars, cloudVars
  <2> QED BY <2>1 DEF OpenKept, Held, ConnShape, TableShape

<1>14. ASSUME Delete
      PROVE  LockFree' \/ OpenKept
  <2> DEFINE new == Deleted(conn.db, Current)
  <2>1. conn'.db = new /\ csp' = csp
    BY <1>14, Connection DEF Delete, WorkerAt, intakeVars, cloudVars
  <2>2. Kept(conn.db, new)
    BY <1>14, Statements DEF Delete, ReceiptIsReal, ConnShape
  <2> HIDE DEF new
  <2> QED BY <2>1, <2>2 DEF OpenKept, Kept, Held

<1>15. ASSUME CommitWrite
      PROVE  LockFree' \/ OpenKept
  <2>1. conn'.db = conn.db /\ csp' = csp
    BY <1>15, Connection DEF CommitWrite, NextRecord, intakeVars, cloudVars
  <2> QED BY <2>1 DEF OpenKept, Held, ConnShape, TableShape

<1>16. ASSUME DeadLetter
      PROVE  LockFree' \/ OpenKept
  <2> DEFINE new == DeadLettered(conn.db, Current)
  <2>1. conn' = Committed(Executed(conn, new)) /\ csp' = csp
    BY <1>16 DEF DeadLetter, NextRecord, intakeVars
  <2>2. conn'.db = new
    BY <2>1 DEF Committed, Executed, ConnShape
  <2>3. Kept(conn.db, new)
    BY Statements DEF ConnShape
  <2> HIDE DEF new
  <2> QED BY <2>1, <2>2, <2>3 DEF OpenKept, Kept, Held

<1>17. ASSUME NEW i \in later, Elapse(i)
      PROVE  LockFree' \/ OpenKept
  <2>1. conn' = conn
    BY <1>17 DEF Elapse, intakeVars, cloudVars
  <2> QED BY <2>1, CloudStep DEF CloudGrows, OpenKept, Held, ConnShape, TableShape

<1>18. ASSUME NEW m \in wire, Handle(m)
      PROVE  LockFree' \/ OpenKept
  <2>1. conn' = conn
    BY <1>18 DEF Handle, intakeVars
  <2> QED BY <2>1, CloudStep DEF CloudGrows, OpenKept, Held, ConnShape, TableShape

<1>19. ASSUME NEW m \in wire, Lose(m)
      PROVE  LockFree' \/ OpenKept
  <2>1. conn' = conn
    BY <1>19 DEF Lose, intakeVars, workerVars
  <2> QED BY <2>1, CloudStep DEF CloudGrows, OpenKept, Held, ConnShape, TableShape

<1>20. ASSUME Crash
      PROVE  LockFree' \/ OpenKept
  <2>1. LockFree'
    BY <1>20 DEF Crash, cloudVars, LockFree, InTransaction, ThreadShape, OneTransaction, IdleThread
  <2> QED BY <2>1

<1>21. ASSUME UNCHANGED vars
      PROVE  LockFree' \/ OpenKept
  <2>1. conn' = conn
    BY <1>21 DEF vars, intakeVars, workerVars, cloudVars
  <2> QED BY <2>1, CloudStep DEF CloudGrows, OpenKept, Held, ConnShape, TableShape

<1> QED BY <1>1, <1>2, <1>3, <1>4, <1>5, <1>6, <1>7, <1>8, <1>9, <1>10,
      <1>11, <1>12, <1>13, <1>14, <1>15, <1>16, <1>17, <1>18, <1>19, <1>20,
      <1>21 DEF Next, IntakeStep, WorkerStep

\* A thread that does not move keeps its id.
LEMMA Resting ==
    ASSUME Good, Good', DiskKept, LockFree' \/ OpenKept, ThreadIds,
           NEW u \in Threads, intake'[u] = intake[u]
    PROVE  HasId(u)'
<1>1. HasId(u)
  BY DEF ThreadIds
<1>2. CASE intake[u].pc \in {"insert", "commit"}
  <2>1. OpenKept
    BY <1>2 DEF LockFree, InTransaction
  <2> QED BY <1>1, <1>2, <2>1 DEF HasId, Naming, OpenKept, Good, ConnShape, TableShape
<1>3. CASE intake[u].pc = "store"
  <2>1. conn'.durable.next <= conn'.db.next
    BY DEF Good, NothingLost, Kept
  <2> QED BY <1>1, <1>3, <2>1 DEF HasId, Naming, DiskKept, Good, ConnShape, TableShape
<1>4. CASE intake[u].pc \notin Naming
  BY <1>4 DEF HasId, Naming
<1> QED BY <1>2, <1>3, <1>4 DEF Naming

\* The id a thread has is in use, and once committed it is so on disk.
LEMMA ThreadIdsStep ==
    ASSUME Good, ReceiptIsReal, ThreadShape, OneTransaction, ThreadIds, [Next]_vars
    PROVE  ThreadIds'
<1>1. ASSUME NEW t \in Threads, Refuse(t)
      PROVE  ThreadIds'
  <2>1. Good' /\ DiskKept /\ (LockFree' \/ OpenKept)
    BY StoreStep, OpenStep DEF Good
  <2>2. ASSUME NEW u \in Threads, intake'[u] = intake[u]
        PROVE  HasId(u)'
    BY <2>1, <2>2, Resting
  <2>3. \A u \in Threads \ {t} : intake'[u] = intake[u]
    BY <1>1 DEF ThreadShape, Refuse, CacheAndAnswer, Answer, Go, workerVars, cloudVars
  <2>4. intake'[t].pc \notin Naming
    BY <1>1 DEF ThreadShape, InTransaction, IdleThread, At, Naming, Refuse, CacheAndAnswer, Answer, Go, workerVars, cloudVars
  <2>5. HasId(t)'
    BY <2>4 DEF HasId, Naming
  <2> QED BY <2>2, <2>3, <2>5 DEF ThreadIds

<1>2. ASSUME NEW t \in Threads, Begin(t)
      PROVE  ThreadIds'
  <2>1. Good' /\ DiskKept /\ (LockFree' \/ OpenKept)
    BY StoreStep, OpenStep DEF Good
  <2>2. ASSUME NEW u \in Threads, intake'[u] = intake[u]
        PROVE  HasId(u)'
    BY <2>1, <2>2, Resting
  <2>3. \A u \in Threads \ {t} : intake'[u] = intake[u]
    BY <1>2 DEF ThreadShape, Begin, Go, workerVars, cloudVars
  <2>4. intake'[t].pc \notin Naming
    BY <1>2 DEF ThreadShape, InTransaction, IdleThread, At, Naming, Begin, Go, workerVars, cloudVars
  <2>5. HasId(t)'
    BY <2>4 DEF HasId, Naming
  <2> QED BY <2>2, <2>3, <2>5 DEF ThreadIds

<1>3. ASSUME NEW t \in Threads, UpsertNode(t)
      PROVE  ThreadIds'
  <2>1. Good' /\ DiskKept /\ (LockFree' \/ OpenKept)
    BY StoreStep, OpenStep DEF Good
  <2>2. ASSUME NEW u \in Threads, intake'[u] = intake[u]
        PROVE  HasId(u)'
    BY <2>1, <2>2, Resting
  <2>3. \A u \in Threads \ {t} : intake'[u] = intake[u]
    BY <1>3 DEF ThreadShape, UpsertNode, Statement, Go, workerVars, cloudVars
  <2>4. intake'[t].pc \notin Naming
    BY <1>3 DEF ThreadShape, InTransaction, IdleThread, At, Naming, UpsertNode, Statement, Go, workerVars, cloudVars
  <2>5. HasId(t)'
    BY <2>4 DEF HasId, Naming
  <2> QED BY <2>2, <2>3, <2>5 DEF ThreadIds

<1>4. ASSUME NEW t \in Threads, AllocateId(t)
      PROVE  ThreadIds'
  <2>1. Good' /\ DiskKept /\ (LockFree' \/ OpenKept)
    BY StoreStep, OpenStep DEF Good
  <2>2. ASSUME NEW u \in Threads, intake'[u] = intake[u]
        PROVE  HasId(u)'
    BY <2>1, <2>2, Resting
  <2>3. \A u \in Threads \ {t} : intake'[u] = intake[u]
    BY <1>4 DEF ThreadShape, AllocateId, Statement, Go, workerVars, cloudVars
  <2>4. intake'[t].pc = "insert" /\ intake'[t].id = conn.db.next
    BY <1>4 DEF ThreadShape, AllocateId, Statement, Go
  <2>5. conn'.db.next = conn.db.next + 1 /\ conn.db.next \in Nat \ {0}
    <3>1. conn'.db = IdAllocated(conn.db)
      BY <1>4, Connection DEF AllocateId, Statement, Good
    <3>2. TableShape(conn.db)
      BY DEF Good, ConnShape
    <3> QED BY <3>1, <3>2 DEF IdAllocated, TableShape
  <2>6. HasId(t)'
    BY <2>4, <2>5 DEF HasId, Naming
  <2> QED BY <2>2, <2>3, <2>6 DEF ThreadIds

<1>5. ASSUME NEW t \in Threads, Insert(t)
      PROVE  ThreadIds'
  <2>1. Good' /\ DiskKept /\ (LockFree' \/ OpenKept)
    BY StoreStep, OpenStep DEF Good
  <2>2. ASSUME NEW u \in Threads, intake'[u] = intake[u]
        PROVE  HasId(u)'
    BY <2>1, <2>2, Resting
  <2>3. \A u \in Threads \ {t} : intake'[u] = intake[u]
    BY <1>5 DEF ThreadShape, Insert, Statement, Go, workerVars, cloudVars
  <2>4. intake'[t].pc = "commit" /\ intake'[t].id = intake[t].id /\ intake[t].pc = "insert"
    BY <1>5 DEF ThreadShape, Insert, Statement, Go
  <2>5. conn'.db = Enqueued(conn.db, intake[t].id, intake[t].request)
    BY <1>5, Connection DEF Insert, Statement, Good
  <2>6. Held(conn'.db, intake[t].id)
    BY <2>5, Statements DEF Good, ConnShape
  <2>7. csp' = csp
    BY <1>5 DEF Insert, Statement, Go, workerVars, cloudVars
  <2>8. OpenKept
    BY <2>1, <2>4 DEF LockFree, InTransaction
  <2>9. intake[t].id \in Nat \ {0} /\ intake[t].id < conn'.db.next
    BY <2>1, <2>4, <2>8 DEF ThreadIds, HasId, Naming, OpenKept, Good, ConnShape, TableShape
  <2>10. HasId(t)'
    BY <2>4, <2>6, <2>7, <2>9 DEF HasId, Naming, Held
  <2> QED BY <2>2, <2>3, <2>10 DEF ThreadIds

<1>6. ASSUME NEW t \in Threads, Commit(t)
      PROVE  ThreadIds'
  <2>1. Good' /\ DiskKept /\ (LockFree' \/ OpenKept)
    BY StoreStep, OpenStep DEF Good
  <2>2. ASSUME NEW u \in Threads, intake'[u] = intake[u]
        PROVE  HasId(u)'
    BY <2>1, <2>2, Resting
  <2>3. \A u \in Threads \ {t} : intake'[u] = intake[u]
    BY <1>6 DEF ThreadShape, Commit, Go, workerVars, cloudVars
  <2>4. intake'[t].pc = "store" /\ intake'[t].id = intake[t].id /\ intake[t].pc = "commit"
    BY <1>6 DEF ThreadShape, Commit, Go
  <2>5. conn'.db = conn.db /\ conn'.durable = conn.db /\ csp' = csp
    BY <1>6, Connection DEF Good, Commit, Go, workerVars, cloudVars
  <2>6. HasId(t)'
    BY <2>4, <2>5 DEF ThreadIds, HasId, Naming, Held
  <2> QED BY <2>2, <2>3, <2>6 DEF ThreadIds

<1>7. ASSUME NEW t \in Threads, Accept(t)
      PROVE  ThreadIds'
  <2>1. Good' /\ DiskKept /\ (LockFree' \/ OpenKept)
    BY StoreStep, OpenStep DEF Good
  <2>2. ASSUME NEW u \in Threads, intake'[u] = intake[u]
        PROVE  HasId(u)'
    BY <2>1, <2>2, Resting
  <2>3. \A u \in Threads \ {t} : intake'[u] = intake[u]
    BY <1>7 DEF ThreadShape, Accept, CacheAndAnswer, Answer, Go, workerVars, cloudVars
  <2>4. intake'[t].pc \notin Naming
    BY <1>7 DEF ThreadShape, InTransaction, IdleThread, At, Naming, Accept, CacheAndAnswer, Answer, Go, workerVars, cloudVars
  <2>5. HasId(t)'
    BY <2>4 DEF HasId, Naming
  <2> QED BY <2>2, <2>3, <2>5 DEF ThreadIds

<1>8. ASSUME NEW t \in Threads, NEW r \in Requests, Receive(t, r)
      PROVE  ThreadIds'
  <2>1. Good' /\ DiskKept /\ (LockFree' \/ OpenKept)
    BY StoreStep, OpenStep DEF Good
  <2>2. ASSUME NEW u \in Threads, intake'[u] = intake[u]
        PROVE  HasId(u)'
    BY <2>1, <2>2, Resting
  <2>3. \A u \in Threads \ {t} : intake'[u] = intake[u]
    BY <1>8 DEF ThreadShape, Receive, Answer, Go, workerVars, cloudVars
  <2>4. intake'[t].pc \notin Naming
    BY <1>8 DEF ThreadShape, InTransaction, IdleThread, At, Naming, Receive, Answer, Go, workerVars, cloudVars
  <2>5. HasId(t)'
    BY <2>4 DEF HasId, Naming
  <2> QED BY <2>2, <2>3, <2>5 DEF ThreadIds

<1>9. ASSUME NEW t \in Threads, StatementFails(t)
      PROVE  ThreadIds'
  <2>1. Good' /\ DiskKept /\ (LockFree' \/ OpenKept)
    BY StoreStep, OpenStep DEF Good
  <2>2. ASSUME NEW u \in Threads, intake'[u] = intake[u]
        PROVE  HasId(u)'
    BY <2>1, <2>2, Resting
  <2>3. \A u \in Threads \ {t} : intake'[u] = intake[u]
    BY <1>9 DEF ThreadShape, StatementFails, Go, workerVars, cloudVars
  <2>4. intake'[t].pc \notin Naming
    BY <1>9 DEF ThreadShape, InTransaction, IdleThread, At, Naming, StatementFails, Go, workerVars, cloudVars
  <2>5. HasId(t)'
    BY <2>4 DEF HasId, Naming
  <2> QED BY <2>2, <2>3, <2>5 DEF ThreadIds

<1>10. ASSUME NEW r \in Requests, CacheForgets(r)
      PROVE  ThreadIds'
  <2>1. Good' /\ DiskKept /\ (LockFree' \/ OpenKept)
    BY StoreStep, OpenStep DEF Good
  <2>2. ASSUME NEW u \in Threads, intake'[u] = intake[u]
        PROVE  HasId(u)'
    BY <2>1, <2>2, Resting
  <2>3. intake' = intake
    BY <1>10 DEF CacheForgets, workerVars, cloudVars
  <2> QED BY <2>2, <2>3 DEF ThreadIds

<1>11. ASSUME StartPass
      PROVE  ThreadIds'
  <2>1. Good' /\ DiskKept /\ (LockFree' \/ OpenKept)
    BY StoreStep, OpenStep DEF Good
  <2>2. ASSUME NEW u \in Threads, intake'[u] = intake[u]
        PROVE  HasId(u)'
    BY <2>1, <2>2, Resting
  <2>3. intake' = intake
    BY <1>11 DEF StartPass, intakeVars, cloudVars
  <2> QED BY <2>2, <2>3 DEF ThreadIds

<1>12. ASSUME Post
      PROVE  ThreadIds'
  <2>1. Good' /\ DiskKept /\ (LockFree' \/ OpenKept)
    BY StoreStep, OpenStep DEF Good
  <2>2. ASSUME NEW u \in Threads, intake'[u] = intake[u]
        PROVE  HasId(u)'
    BY <2>1, <2>2, Resting
  <2>3. intake' = intake
    BY <1>12 DEF Post, WorkerAt, intakeVars
  <2> QED BY <2>2, <2>3 DEF ThreadIds

<1>13. ASSUME MarkRetry
      PROVE  ThreadIds'
  <2>1. Good' /\ DiskKept /\ (LockFree' \/ OpenKept)
    BY StoreStep, OpenStep DEF Good
  <2>2. ASSUME NEW u \in Threads, intake'[u] = intake[u]
        PROVE  HasId(u)'
    BY <2>1, <2>2, Resting
  <2>3. intake' = intake
    BY <1>13 DEF MarkRetry, WorkerAt, intakeVars, cloudVars
  <2> QED BY <2>2, <2>3 DEF ThreadIds

<1>14. ASSUME Delete
      PROVE  ThreadIds'
  <2>1. Good' /\ DiskKept /\ (LockFree' \/ OpenKept)
    BY StoreStep, OpenStep DEF Good
  <2>2. ASSUME NEW u \in Threads, intake'[u] = intake[u]
        PROVE  HasId(u)'
    BY <2>1, <2>2, Resting
  <2>3. intake' = intake
    BY <1>14 DEF Delete, WorkerAt, intakeVars, cloudVars
  <2> QED BY <2>2, <2>3 DEF ThreadIds

<1>15. ASSUME CommitWrite
      PROVE  ThreadIds'
  <2>1. Good' /\ DiskKept /\ (LockFree' \/ OpenKept)
    BY StoreStep, OpenStep DEF Good
  <2>2. ASSUME NEW u \in Threads, intake'[u] = intake[u]
        PROVE  HasId(u)'
    BY <2>1, <2>2, Resting
  <2>3. intake' = intake
    BY <1>15 DEF CommitWrite, NextRecord, intakeVars, cloudVars
  <2> QED BY <2>2, <2>3 DEF ThreadIds

<1>16. ASSUME DeadLetter
      PROVE  ThreadIds'
  <2>1. Good' /\ DiskKept /\ (LockFree' \/ OpenKept)
    BY StoreStep, OpenStep DEF Good
  <2>2. ASSUME NEW u \in Threads, intake'[u] = intake[u]
        PROVE  HasId(u)'
    BY <2>1, <2>2, Resting
  <2>3. intake' = intake
    BY <1>16 DEF DeadLetter, NextRecord, intakeVars
  <2> QED BY <2>2, <2>3 DEF ThreadIds

<1>17. ASSUME NEW i \in later, Elapse(i)
      PROVE  ThreadIds'
  <2>1. Good' /\ DiskKept /\ (LockFree' \/ OpenKept)
    BY StoreStep, OpenStep DEF Good
  <2>2. ASSUME NEW u \in Threads, intake'[u] = intake[u]
        PROVE  HasId(u)'
    BY <2>1, <2>2, Resting
  <2>3. intake' = intake
    BY <1>17 DEF Elapse, intakeVars, cloudVars
  <2> QED BY <2>2, <2>3 DEF ThreadIds

<1>18. ASSUME NEW m \in wire, Handle(m)
      PROVE  ThreadIds'
  <2>1. Good' /\ DiskKept /\ (LockFree' \/ OpenKept)
    BY StoreStep, OpenStep DEF Good
  <2>2. ASSUME NEW u \in Threads, intake'[u] = intake[u]
        PROVE  HasId(u)'
    BY <2>1, <2>2, Resting
  <2>3. intake' = intake
    BY <1>18 DEF Handle, intakeVars
  <2> QED BY <2>2, <2>3 DEF ThreadIds

<1>19. ASSUME NEW m \in wire, Lose(m)
      PROVE  ThreadIds'
  <2>1. Good' /\ DiskKept /\ (LockFree' \/ OpenKept)
    BY StoreStep, OpenStep DEF Good
  <2>2. ASSUME NEW u \in Threads, intake'[u] = intake[u]
        PROVE  HasId(u)'
    BY <2>1, <2>2, Resting
  <2>3. intake' = intake
    BY <1>19 DEF Lose, intakeVars, workerVars
  <2> QED BY <2>2, <2>3 DEF ThreadIds

<1>20. ASSUME Crash
      PROVE  ThreadIds'
  <2>1. \A u \in Threads : intake'[u].pc \notin Naming
    BY <1>20 DEF Crash, IdleThread, Naming
  <2> QED BY <2>1 DEF ThreadIds, HasId, Naming

<1>21. ASSUME UNCHANGED vars
      PROVE  ThreadIds'
  <2>1. Good' /\ DiskKept /\ (LockFree' \/ OpenKept)
    BY StoreStep, OpenStep DEF Good
  <2>2. ASSUME NEW u \in Threads, intake'[u] = intake[u]
        PROVE  HasId(u)'
    BY <2>1, <2>2, Resting
  <2>3. intake' = intake
    BY <1>21 DEF vars, intakeVars, workerVars, cloudVars
  <2> QED BY <2>2, <2>3 DEF ThreadIds

<1> QED BY <1>1, <1>2, <1>3, <1>4, <1>5, <1>6, <1>7, <1>8, <1>9, <1>10,
      <1>11, <1>12, <1>13, <1>14, <1>15, <1>16, <1>17, <1>18, <1>19, <1>20,
      <1>21 DEF Next, IntakeStep, WorkerStep

\* An allocated id is on no other thread's way.
LEMMA DistinctStep ==
    ASSUME Good, ThreadShape, ThreadIds, Distinct, [Next]_vars
    PROVE  Distinct'
<1> USE DEF ThreadShape, Distinct, InTransaction, IdleThread, At, Naming
<1>1. ASSUME NEW t \in Threads, Refuse(t)
      PROVE  Distinct'
  BY <1>1 DEF Refuse, CacheAndAnswer, Answer, Go, workerVars, cloudVars
<1>2. ASSUME NEW t \in Threads, Begin(t)
      PROVE  Distinct'
  BY <1>2 DEF Begin, Go, workerVars, cloudVars
<1>3. ASSUME NEW t \in Threads, UpsertNode(t)
      PROVE  Distinct'
  BY <1>3 DEF UpsertNode, Statement, Go, workerVars, cloudVars
<1>4. ASSUME NEW t \in Threads, AllocateId(t)
      PROVE  Distinct'
  <2>1. \A u \in Threads \ {t} : intake'[u] = intake[u]
    BY <1>4 DEF AllocateId, Statement, Go
  <2>2. intake'[t].pc = "insert" /\ intake'[t].id = conn.db.next
    BY <1>4 DEF AllocateId, Statement, Go
  <2>3. \A u \in Threads : intake[u].pc \in Naming => intake[u].id # conn.db.next
    BY DEF ThreadIds, HasId, Naming, Good, ConnShape, TableShape
  <2> QED BY <2>1, <2>2, <2>3

<1>5. ASSUME NEW t \in Threads, Insert(t)
      PROVE  Distinct'
  BY <1>5 DEF Insert, Statement, Go, workerVars, cloudVars
<1>6. ASSUME NEW t \in Threads, Commit(t)
      PROVE  Distinct'
  BY <1>6 DEF Commit, Go, workerVars, cloudVars
<1>7. ASSUME NEW t \in Threads, Accept(t)
      PROVE  Distinct'
  BY <1>7 DEF Accept, CacheAndAnswer, Answer, Go, workerVars, cloudVars
<1>8. ASSUME NEW t \in Threads, NEW r \in Requests, Receive(t, r)
      PROVE  Distinct'
  BY <1>8 DEF Receive, Answer, Go, workerVars, cloudVars
<1>9. ASSUME NEW t \in Threads, StatementFails(t)
      PROVE  Distinct'
  BY <1>9 DEF StatementFails, Go, workerVars, cloudVars
<1>10. ASSUME NEW r \in Requests, CacheForgets(r)
      PROVE  Distinct'
  BY <1>10 DEF CacheForgets, workerVars, cloudVars
<1>11. ASSUME StartPass
      PROVE  Distinct'
  BY <1>11 DEF StartPass, intakeVars, cloudVars
<1>12. ASSUME Post
      PROVE  Distinct'
  BY <1>12 DEF Post, WorkerAt, intakeVars
<1>13. ASSUME MarkRetry
      PROVE  Distinct'
  BY <1>13 DEF MarkRetry, WorkerAt, intakeVars, cloudVars
<1>14. ASSUME Delete
      PROVE  Distinct'
  BY <1>14 DEF Delete, WorkerAt, intakeVars, cloudVars
<1>15. ASSUME CommitWrite
      PROVE  Distinct'
  BY <1>15 DEF CommitWrite, NextRecord, intakeVars, cloudVars
<1>16. ASSUME DeadLetter
      PROVE  Distinct'
  BY <1>16 DEF DeadLetter, NextRecord, intakeVars
<1>17. ASSUME NEW i \in later, Elapse(i)
      PROVE  Distinct'
  BY <1>17 DEF Elapse, intakeVars, cloudVars
<1>18. ASSUME NEW m \in wire, Handle(m)
      PROVE  Distinct'
  BY <1>18 DEF Handle, intakeVars
<1>19. ASSUME NEW m \in wire, Lose(m)
      PROVE  Distinct'
  BY <1>19 DEF Lose, intakeVars, workerVars
<1>20. ASSUME Crash
      PROVE  Distinct'
  BY <1>20 DEF Crash, cloudVars
<1>21. ASSUME UNCHANGED vars
      PROVE  Distinct'
  BY <1>21 DEF vars, intakeVars, workerVars, cloudVars
<1> QED BY <1>1, <1>2, <1>3, <1>4, <1>5, <1>6, <1>7, <1>8, <1>9, <1>10,
      <1>11, <1>12, <1>13, <1>14, <1>15, <1>16, <1>17, <1>18, <1>19, <1>20,
      <1>21 DEF Next, IntakeStep, WorkerStep

\* The id of an answer is not given out again, whatever was rolled back.
LEMMA FreshStep ==
    ASSUME Good, ThreadShape, ThreadIds, Distinct, Fresh, AnswersHeld, CacheAnswered, [Next]_vars
    PROVE  Fresh'
<1> USE DEF ThreadShape, Fresh, InTransaction, IdleThread, At, Naming
<1>1. ASSUME NEW t \in Threads, Refuse(t)
      PROVE  Fresh'
  <2>1. \A u \in Threads \ {t} : intake'[u] = intake[u]
    BY <1>1 DEF Refuse, CacheAndAnswer, Answer, Go, workerVars, cloudVars
  <2>2. intake'[t].pc = "idle" /\ answered' = answered \cup {<<intake[t].request, BadRequest>>}
    BY <1>1 DEF Refuse, CacheAndAnswer, Answer, Go, workerVars, cloudVars
  <2>3. \A u \in Threads : intake[u].pc \in Naming => intake[u].id # BadRequest
    BY DEF ThreadIds, HasId, BadRequest
  <2> QED BY <2>1, <2>2, <2>3

<1>2. ASSUME NEW t \in Threads, Begin(t)
      PROVE  Fresh'
  BY <1>2 DEF Begin, Go, workerVars, cloudVars
<1>3. ASSUME NEW t \in Threads, UpsertNode(t)
      PROVE  Fresh'
  BY <1>3 DEF UpsertNode, Statement, Go, workerVars, cloudVars
<1>4. ASSUME NEW t \in Threads, AllocateId(t)
      PROVE  Fresh'
  <2>1. \A u \in Threads \ {t} : intake'[u] = intake[u]
    BY <1>4 DEF AllocateId, Statement, Go
  <2>2. intake'[t].pc = "insert" /\ intake'[t].id = conn.db.next /\ answered' = answered
    BY <1>4 DEF AllocateId, Statement, Go
  <2>3. \A x \in answered : x[2] # conn.db.next
    BY DEF AnswersHeld, BadRequest, NothingLost, Kept, Good, ConnShape, TableShape
  <2> QED BY <2>1, <2>2, <2>3

<1>5. ASSUME NEW t \in Threads, Insert(t)
      PROVE  Fresh'
  BY <1>5 DEF Insert, Statement, Go, workerVars, cloudVars
<1>6. ASSUME NEW t \in Threads, Commit(t)
      PROVE  Fresh'
  BY <1>6 DEF Commit, Go, workerVars, cloudVars
<1>7. ASSUME NEW t \in Threads, Accept(t)
      PROVE  Fresh'
  <2>1. \A u \in Threads \ {t} : intake'[u] = intake[u]
    BY <1>7 DEF Accept, CacheAndAnswer, Answer, Go, workerVars, cloudVars
  <2>2. intake'[t].pc = "idle" /\ intake[t].pc = "store"
        /\ answered' = answered \cup {<<intake[t].request, intake[t].id>>}
    BY <1>7 DEF Accept, CacheAndAnswer, Answer, Go, workerVars, cloudVars
  <2>3. \A u \in Threads : intake'[u].pc \in Naming => intake[u].pc \in Naming /\ intake[u].id # intake[t].id
    BY <2>1, <2>2 DEF Distinct
  <2> QED BY <2>1, <2>2, <2>3

<1>8. ASSUME NEW t \in Threads, NEW r \in Requests, Receive(t, r)
      PROVE  Fresh'
  <2>1. answered' \in {answered, answered \cup {<<r, cache[r]>>}}
        /\ (answered' # answered => r \in DOMAIN cache)
    BY <1>8 DEF Receive, Answer, Go, workerVars, cloudVars
  <2>2. answered' = answered
    BY <2>1 DEF CacheAnswered
  <2> QED BY <1>8, <2>2 DEF Receive, Answer, Go, workerVars, cloudVars

<1>9. ASSUME NEW t \in Threads, StatementFails(t)
      PROVE  Fresh'
  BY <1>9 DEF StatementFails, Go, workerVars, cloudVars
<1>10. ASSUME NEW r \in Requests, CacheForgets(r)
      PROVE  Fresh'
  BY <1>10 DEF CacheForgets, workerVars, cloudVars
<1>11. ASSUME StartPass
      PROVE  Fresh'
  BY <1>11 DEF StartPass, intakeVars, cloudVars
<1>12. ASSUME Post
      PROVE  Fresh'
  BY <1>12 DEF Post, WorkerAt, intakeVars
<1>13. ASSUME MarkRetry
      PROVE  Fresh'
  BY <1>13 DEF MarkRetry, WorkerAt, intakeVars, cloudVars
<1>14. ASSUME Delete
      PROVE  Fresh'
  BY <1>14 DEF Delete, WorkerAt, intakeVars, cloudVars
<1>15. ASSUME CommitWrite
      PROVE  Fresh'
  BY <1>15 DEF CommitWrite, NextRecord, intakeVars, cloudVars
<1>16. ASSUME DeadLetter
      PROVE  Fresh'
  BY <1>16 DEF DeadLetter, NextRecord, intakeVars
<1>17. ASSUME NEW i \in later, Elapse(i)
      PROVE  Fresh'
  BY <1>17 DEF Elapse, intakeVars, cloudVars
<1>18. ASSUME NEW m \in wire, Handle(m)
      PROVE  Fresh'
  BY <1>18 DEF Handle, intakeVars
<1>19. ASSUME NEW m \in wire, Lose(m)
      PROVE  Fresh'
  BY <1>19 DEF Lose, intakeVars, workerVars
<1>20. ASSUME Crash
      PROVE  Fresh'
  BY <1>20 DEF Crash, cloudVars
<1>21. ASSUME UNCHANGED vars
      PROVE  Fresh'
  BY <1>21 DEF vars, intakeVars, workerVars, cloudVars
<1> QED BY <1>1, <1>2, <1>3, <1>4, <1>5, <1>6, <1>7, <1>8, <1>9, <1>10,
      <1>11, <1>12, <1>13, <1>14, <1>15, <1>16, <1>17, <1>18, <1>19, <1>20,
      <1>21 DEF Next, IntakeStep, WorkerStep

\* What was answered stays on disk or goes to the cloud.
LEMMA AnswersHeldStep ==
    ASSUME Good, ReceiptIsReal, ThreadShape, ThreadIds, CacheAnswered, AnswersHeld, [Next]_vars
    PROVE  AnswersHeld'
<1> USE DEF AnswersHeld
<1>1. ASSUME NEW t \in Threads, Refuse(t)
      PROVE  AnswersHeld'
  <2>1. answered' = answered \cup {<<intake[t].request, BadRequest>>} /\ conn' = conn
    BY <1>1 DEF Refuse, CacheAndAnswer, Answer, Go, workerVars, cloudVars
  <2>2. DiskKept /\ Good'
    BY StoreStep
  <2> QED BY <2>1, <2>2 DEF DiskKept, Good, ConnShape, TableShape

<1>2. ASSUME NEW t \in Threads, Begin(t)
      PROVE  AnswersHeld'
  <2>1. answered' = answered
    BY <1>2 DEF Begin, Go, workerVars, cloudVars
  <2>2. DiskKept /\ Good'
    BY StoreStep
  <2> QED BY <2>1, <2>2 DEF DiskKept, Good, ConnShape, TableShape

<1>3. ASSUME NEW t \in Threads, UpsertNode(t)
      PROVE  AnswersHeld'
  <2>1. answered' = answered
    BY <1>3 DEF UpsertNode, Statement, Go, workerVars, cloudVars
  <2>2. DiskKept /\ Good'
    BY StoreStep
  <2> QED BY <2>1, <2>2 DEF DiskKept, Good, ConnShape, TableShape

<1>4. ASSUME NEW t \in Threads, AllocateId(t)
      PROVE  AnswersHeld'
  <2>1. answered' = answered
    BY <1>4 DEF AllocateId, Statement, Go, workerVars, cloudVars
  <2>2. DiskKept /\ Good'
    BY StoreStep
  <2> QED BY <2>1, <2>2 DEF DiskKept, Good, ConnShape, TableShape

<1>5. ASSUME NEW t \in Threads, Insert(t)
      PROVE  AnswersHeld'
  <2>1. answered' = answered
    BY <1>5 DEF Insert, Statement, Go, workerVars, cloudVars
  <2>2. DiskKept /\ Good'
    BY StoreStep
  <2> QED BY <2>1, <2>2 DEF DiskKept, Good, ConnShape, TableShape

<1>6. ASSUME NEW t \in Threads, Commit(t)
      PROVE  AnswersHeld'
  <2>1. answered' = answered
    BY <1>6 DEF Commit, Go, workerVars, cloudVars
  <2>2. DiskKept /\ Good'
    BY StoreStep
  <2> QED BY <2>1, <2>2 DEF DiskKept, Good, ConnShape, TableShape

<1>7. ASSUME NEW t \in Threads, Accept(t)
      PROVE  AnswersHeld'
  <2>1. answered' = answered \cup {<<intake[t].request, intake[t].id>>} /\ conn' = conn
    BY <1>7 DEF Accept, CacheAndAnswer, Answer, Go, workerVars, cloudVars
  <2>2. DiskKept /\ Good'
    BY StoreStep
  <2>3. intake[t].id \in Nat /\ intake[t].id < conn.durable.next /\ Held(conn.durable, intake[t].id)
    BY <1>7 DEF Accept, ThreadIds, HasId, Naming
  <2> QED BY <2>1, <2>2, <2>3 DEF DiskKept, Good, ConnShape, TableShape

<1>8. ASSUME NEW t \in Threads, NEW r \in Requests, Receive(t, r)
      PROVE  AnswersHeld'
  <2>1. answered' = answered
    BY <1>8 DEF CacheAnswered, Receive, Answer, Go, workerVars, cloudVars
  <2>2. DiskKept /\ Good'
    BY StoreStep
  <2> QED BY <2>1, <2>2 DEF DiskKept, Good, ConnShape, TableShape

<1>9. ASSUME NEW t \in Threads, StatementFails(t)
      PROVE  AnswersHeld'
  <2>1. answered' = answered
    BY <1>9 DEF StatementFails, Go, workerVars, cloudVars
  <2>2. DiskKept /\ Good'
    BY StoreStep
  <2> QED BY <2>1, <2>2 DEF DiskKept, Good, ConnShape, TableShape

<1>10. ASSUME NEW r \in Requests, CacheForgets(r)
      PROVE  AnswersHeld'
  <2>1. answered' = answered
    BY <1>10 DEF CacheForgets, workerVars, cloudVars
  <2>2. DiskKept /\ Good'
    BY StoreStep
  <2> QED BY <2>1, <2>2 DEF DiskKept, Good, ConnShape, TableShape

<1>11. ASSUME StartPass
      PROVE  AnswersHeld'
  <2>1. answered' = answered
    BY <1>11 DEF StartPass, intakeVars, cloudVars
  <2>2. DiskKept /\ Good'
    BY StoreStep
  <2> QED BY <2>1, <2>2 DEF DiskKept, Good, ConnShape, TableShape

<1>12. ASSUME Post
      PROVE  AnswersHeld'
  <2>1. answered' = answered
    BY <1>12 DEF Post, WorkerAt, intakeVars
  <2>2. DiskKept /\ Good'
    BY StoreStep
  <2> QED BY <2>1, <2>2 DEF DiskKept, Good, ConnShape, TableShape

<1>13. ASSUME MarkRetry
      PROVE  AnswersHeld'
  <2>1. answered' = answered
    BY <1>13 DEF MarkRetry, WorkerAt, intakeVars, cloudVars
  <2>2. DiskKept /\ Good'
    BY StoreStep
  <2> QED BY <2>1, <2>2 DEF DiskKept, Good, ConnShape, TableShape

<1>14. ASSUME Delete
      PROVE  AnswersHeld'
  <2>1. answered' = answered
    BY <1>14 DEF Delete, WorkerAt, intakeVars, cloudVars
  <2>2. DiskKept /\ Good'
    BY StoreStep
  <2> QED BY <2>1, <2>2 DEF DiskKept, Good, ConnShape, TableShape

<1>15. ASSUME CommitWrite
      PROVE  AnswersHeld'
  <2>1. answered' = answered
    BY <1>15 DEF CommitWrite, NextRecord, intakeVars, cloudVars
  <2>2. DiskKept /\ Good'
    BY StoreStep
  <2> QED BY <2>1, <2>2 DEF DiskKept, Good, ConnShape, TableShape

<1>16. ASSUME DeadLetter
      PROVE  AnswersHeld'
  <2>1. answered' = answered
    BY <1>16 DEF DeadLetter, NextRecord, intakeVars
  <2>2. DiskKept /\ Good'
    BY StoreStep
  <2> QED BY <2>1, <2>2 DEF DiskKept, Good, ConnShape, TableShape

<1>17. ASSUME NEW i \in later, Elapse(i)
      PROVE  AnswersHeld'
  <2>1. answered' = answered
    BY <1>17 DEF Elapse, intakeVars, cloudVars
  <2>2. DiskKept /\ Good'
    BY StoreStep
  <2> QED BY <2>1, <2>2 DEF DiskKept, Good, ConnShape, TableShape

<1>18. ASSUME NEW m \in wire, Handle(m)
      PROVE  AnswersHeld'
  <2>1. answered' = answered
    BY <1>18 DEF Handle, intakeVars
  <2>2. DiskKept /\ Good'
    BY StoreStep
  <2> QED BY <2>1, <2>2 DEF DiskKept, Good, ConnShape, TableShape

<1>19. ASSUME NEW m \in wire, Lose(m)
      PROVE  AnswersHeld'
  <2>1. answered' = answered
    BY <1>19 DEF Lose, intakeVars, workerVars
  <2>2. DiskKept /\ Good'
    BY StoreStep
  <2> QED BY <2>1, <2>2 DEF DiskKept, Good, ConnShape, TableShape

<1>20. ASSUME Crash
      PROVE  AnswersHeld'
  <2>1. answered' = answered
    BY <1>20 DEF Crash, cloudVars
  <2>2. DiskKept /\ Good'
    BY StoreStep
  <2> QED BY <2>1, <2>2 DEF DiskKept, Good, ConnShape, TableShape

<1>21. ASSUME UNCHANGED vars
      PROVE  AnswersHeld'
  <2>1. answered' = answered
    BY <1>21 DEF vars, intakeVars, workerVars, cloudVars
  <2>2. DiskKept /\ Good'
    BY StoreStep
  <2> QED BY <2>1, <2>2 DEF DiskKept, Good, ConnShape, TableShape

<1> QED BY <1>1, <1>2, <1>3, <1>4, <1>5, <1>6, <1>7, <1>8, <1>9, <1>10,
      <1>11, <1>12, <1>13, <1>14, <1>15, <1>16, <1>17, <1>18, <1>19, <1>20,
      <1>21 DEF Next, IntakeStep, WorkerStep

\* What enters the cache is answered in the same step.
LEMMA CacheStep ==
    ASSUME ThreadShape, CacheAnswered, [Next]_vars
    PROVE  CacheAnswered'
<1> USE DEF CacheAnswered, With, Nothing
<1>1. ASSUME NEW t \in Threads, Refuse(t)
      PROVE  CacheAnswered'
  BY <1>1 DEF Refuse, CacheAndAnswer, Answer, Go, workerVars, cloudVars
<1>2. ASSUME NEW t \in Threads, Begin(t)
      PROVE  CacheAnswered'
  BY <1>2 DEF Begin, Go, workerVars, cloudVars
<1>3. ASSUME NEW t \in Threads, UpsertNode(t)
      PROVE  CacheAnswered'
  BY <1>3 DEF UpsertNode, Statement, Go, workerVars, cloudVars
<1>4. ASSUME NEW t \in Threads, AllocateId(t)
      PROVE  CacheAnswered'
  BY <1>4 DEF AllocateId, Statement, Go, workerVars, cloudVars
<1>5. ASSUME NEW t \in Threads, Insert(t)
      PROVE  CacheAnswered'
  BY <1>5 DEF Insert, Statement, Go, workerVars, cloudVars
<1>6. ASSUME NEW t \in Threads, Commit(t)
      PROVE  CacheAnswered'
  BY <1>6 DEF Commit, Go, workerVars, cloudVars
<1>7. ASSUME NEW t \in Threads, Accept(t)
      PROVE  CacheAnswered'
  BY <1>7 DEF Accept, CacheAndAnswer, Answer, Go, workerVars, cloudVars
<1>8. ASSUME NEW t \in Threads, NEW r \in Requests, Receive(t, r)
      PROVE  CacheAnswered'
  BY <1>8 DEF Receive, Answer, Go, workerVars, cloudVars
<1>9. ASSUME NEW t \in Threads, StatementFails(t)
      PROVE  CacheAnswered'
  BY <1>9 DEF StatementFails, Go, workerVars, cloudVars
<1>10. ASSUME NEW r \in Requests, CacheForgets(r)
      PROVE  CacheAnswered'
  BY <1>10 DEF CacheForgets, workerVars, cloudVars
<1>11. ASSUME StartPass
      PROVE  CacheAnswered'
  BY <1>11 DEF StartPass, intakeVars, cloudVars
<1>12. ASSUME Post
      PROVE  CacheAnswered'
  BY <1>12 DEF Post, WorkerAt, intakeVars
<1>13. ASSUME MarkRetry
      PROVE  CacheAnswered'
  BY <1>13 DEF MarkRetry, WorkerAt, intakeVars, cloudVars
<1>14. ASSUME Delete
      PROVE  CacheAnswered'
  BY <1>14 DEF Delete, WorkerAt, intakeVars, cloudVars
<1>15. ASSUME CommitWrite
      PROVE  CacheAnswered'
  BY <1>15 DEF CommitWrite, NextRecord, intakeVars, cloudVars
<1>16. ASSUME DeadLetter
      PROVE  CacheAnswered'
  BY <1>16 DEF DeadLetter, NextRecord, intakeVars
<1>17. ASSUME NEW i \in later, Elapse(i)
      PROVE  CacheAnswered'
  BY <1>17 DEF Elapse, intakeVars, cloudVars
<1>18. ASSUME NEW m \in wire, Handle(m)
      PROVE  CacheAnswered'
  BY <1>18 DEF Handle, intakeVars
<1>19. ASSUME NEW m \in wire, Lose(m)
      PROVE  CacheAnswered'
  BY <1>19 DEF Lose, intakeVars, workerVars
<1>20. ASSUME Crash
      PROVE  CacheAnswered'
  BY <1>20 DEF Crash, cloudVars
<1>21. ASSUME UNCHANGED vars
      PROVE  CacheAnswered'
  BY <1>21 DEF vars, intakeVars, workerVars, cloudVars
<1> QED BY <1>1, <1>2, <1>3, <1>4, <1>5, <1>6, <1>7, <1>8, <1>9, <1>10,
      <1>11, <1>12, <1>13, <1>14, <1>15, <1>16, <1>17, <1>18, <1>19, <1>20,
      <1>21 DEF Next, IntakeStep, WorkerStep

\* A second answer with an id is for the same request.
LEMMA OneRequestStep ==
    ASSUME CacheAnswered, Fresh, IdAnswersOneRequest, [Next]_vars
    PROVE  IdAnswersOneRequest'
<1> USE DEF IdAnswersOneRequest
<1>1. ASSUME NEW t \in Threads, Refuse(t)
      PROVE  IdAnswersOneRequest'
  BY <1>1 DEF Refuse, CacheAndAnswer, Answer, Go, workerVars, cloudVars
<1>2. ASSUME NEW t \in Threads, Begin(t)
      PROVE  IdAnswersOneRequest'
  BY <1>2 DEF Begin, Go, workerVars, cloudVars
<1>3. ASSUME NEW t \in Threads, UpsertNode(t)
      PROVE  IdAnswersOneRequest'
  BY <1>3 DEF UpsertNode, Statement, Go, workerVars, cloudVars
<1>4. ASSUME NEW t \in Threads, AllocateId(t)
      PROVE  IdAnswersOneRequest'
  BY <1>4 DEF AllocateId, Statement, Go, workerVars, cloudVars
<1>5. ASSUME NEW t \in Threads, Insert(t)
      PROVE  IdAnswersOneRequest'
  BY <1>5 DEF Insert, Statement, Go, workerVars, cloudVars
<1>6. ASSUME NEW t \in Threads, Commit(t)
      PROVE  IdAnswersOneRequest'
  BY <1>6 DEF Commit, Go, workerVars, cloudVars
<1>7. ASSUME NEW t \in Threads, Accept(t)
      PROVE  IdAnswersOneRequest'
  <2>1. answered' = answered \cup {<<intake[t].request, intake[t].id>>} /\ intake[t].pc = "store"
    BY <1>7 DEF Accept, CacheAndAnswer, Answer, Go, workerVars, cloudVars
  <2>2. \A x \in answered : x[2] # intake[t].id
    BY <2>1 DEF Fresh, Naming
  <2> QED BY <2>1, <2>2

<1>8. ASSUME NEW t \in Threads, NEW r \in Requests, Receive(t, r)
      PROVE  IdAnswersOneRequest'
  <2>1. answered' = answered
    BY <1>8 DEF CacheAnswered, Receive, Answer, Go, workerVars, cloudVars
  <2> QED BY <2>1

<1>9. ASSUME NEW t \in Threads, StatementFails(t)
      PROVE  IdAnswersOneRequest'
  BY <1>9 DEF StatementFails, Go, workerVars, cloudVars
<1>10. ASSUME NEW r \in Requests, CacheForgets(r)
      PROVE  IdAnswersOneRequest'
  BY <1>10 DEF CacheForgets, workerVars, cloudVars
<1>11. ASSUME StartPass
      PROVE  IdAnswersOneRequest'
  BY <1>11 DEF StartPass, intakeVars, cloudVars
<1>12. ASSUME Post
      PROVE  IdAnswersOneRequest'
  BY <1>12 DEF Post, WorkerAt, intakeVars
<1>13. ASSUME MarkRetry
      PROVE  IdAnswersOneRequest'
  BY <1>13 DEF MarkRetry, WorkerAt, intakeVars, cloudVars
<1>14. ASSUME Delete
      PROVE  IdAnswersOneRequest'
  BY <1>14 DEF Delete, WorkerAt, intakeVars, cloudVars
<1>15. ASSUME CommitWrite
      PROVE  IdAnswersOneRequest'
  BY <1>15 DEF CommitWrite, NextRecord, intakeVars, cloudVars
<1>16. ASSUME DeadLetter
      PROVE  IdAnswersOneRequest'
  BY <1>16 DEF DeadLetter, NextRecord, intakeVars
<1>17. ASSUME NEW i \in later, Elapse(i)
      PROVE  IdAnswersOneRequest'
  BY <1>17 DEF Elapse, intakeVars, cloudVars
<1>18. ASSUME NEW m \in wire, Handle(m)
      PROVE  IdAnswersOneRequest'
  BY <1>18 DEF Handle, intakeVars
<1>19. ASSUME NEW m \in wire, Lose(m)
      PROVE  IdAnswersOneRequest'
  BY <1>19 DEF Lose, intakeVars, workerVars
<1>20. ASSUME Crash
      PROVE  IdAnswersOneRequest'
  BY <1>20 DEF Crash, cloudVars
<1>21. ASSUME UNCHANGED vars
      PROVE  IdAnswersOneRequest'
  BY <1>21 DEF vars, intakeVars, workerVars, cloudVars
<1> QED BY <1>1, <1>2, <1>3, <1>4, <1>5, <1>6, <1>7, <1>8, <1>9, <1>10,
      <1>11, <1>12, <1>13, <1>14, <1>15, <1>16, <1>17, <1>18, <1>19, <1>20,
      <1>21 DEF Next, IntakeStep, WorkerStep

----------------------------------------------------------------------------
(* Types.                                                                  *)

\* The numbers below the members of a set, under inclusion: one of them is
\* the smallest, because inclusion is well-founded on finite sets.
LEMMA LeastNat ==
    ASSUME NEW S \in SUBSET Nat, S # {}
    PROVE  \E x \in S : \A y \in S : x <= y
<1> DEFINE T == {0..(x - 1) : x \in S}
<1>1. IsWellFoundedOn(StrictSubsetOrdering(Nat), FiniteSubsetsOf(Nat))
  BY FS_StrictSubsetOrderingWellFounded
<1>2. T \subseteq FiniteSubsetsOf(Nat) /\ T # {}
  <2>1. ASSUME NEW x \in S PROVE 0..(x - 1) \in FiniteSubsetsOf(Nat)
    <3>1. IsFiniteSet(0..(x - 1))
      BY FS_Interval
    <3> QED BY <3>1 DEF FiniteSubsetsOf
  <2> QED BY <2>1
<1>3. PICK B \in T : \A C \in T : <<C, B>> \notin StrictSubsetOrdering(Nat)
  BY <1>1, <1>2, WFMin
<1>4. PICK x \in S : B = 0..(x - 1)
  BY <1>3
<1>5. ASSUME NEW y \in S, y < x PROVE FALSE
  <2>1. 0..(y - 1) \in T
    OBVIOUS
  <2>2. 0..(y - 1) \subseteq 0..(x - 1) /\ y \in 0..(x - 1) /\ y \notin 0..(y - 1)
    BY <1>5
  <2>3. <<0..(y - 1), 0..(x - 1)>> \in StrictSubsetOrdering(Nat)
    BY <2>2 DEF StrictSubsetOrdering
  <2> QED BY <1>3, <1>4, <2>1, <2>3
<1> QED BY <1>5

\* Rows and nodes of the tables
TablesTyped(t) ==
    /\ t.nodes \subseteq {NodeOf[p] : p \in Packet}
    /\ \A rows \in {t.outbox, t.dead} : \A i \in DOMAIN rows :
          i \in Nat \ {0} /\ i < t.next /\ rows[i] \in Packet

\* Threads whose request has arrived and has no id yet
Waiting == {t \in Threads : intake[t].pc \in {"begin", "node", "allocate"}}

\* Each of them may still take an id; all ids fit the requests received.
Budget ==
    /\ received \in 0..MaxReceived
    /\ IsFiniteSet(Waiting)
    /\ conn.durable.next + Cardinality(Waiting) <= received + 1
    /\ conn.db.next + Cardinality(Waiting) <= received + 1

ThreadsTyped ==
    \A t \in Threads : intake[t] = IdleThread
        \/ /\ intake[t] \in [pc : Pcs, request : Requests, id : Ids \cup {BadRequest}]
           /\ intake[t].pc # "refuse" => intake[t].request \in Packet

\* The pass over the outbox: there is a current record whenever it is not over.
WorkerTyped ==
    /\ worker.pc \in {"idle", "post", "wait", "receipt", "done"}
    /\ (worker.pc = "idle") = (worker.batch = NoRows)
    /\ DOMAIN worker.batch \subseteq Ids
    /\ worker.batch \in [DOMAIN worker.batch -> Packet]

CacheTyped == \A r \in DOMAIN cache : r \in Requests /\ cache[r] \in Ids \cup {BadRequest}

WireTyped ==
    /\ later \subseteq Ids
    /\ wire \subseteq [id : Ids, packet : Packet]
    /\ csp.projected \subseteq DOMAIN csp.uplinks

TInv ==
    /\ TablesTyped(conn.durable) /\ TablesTyped(conn.db)
    /\ Budget
    /\ ThreadsTyped
    /\ WorkerTyped
    /\ CacheTyped
    /\ WireTyped

\* The statements keep the types of the tables.
LEMMA TypedStatements ==
    ASSUME NEW t, TableShape(t), TablesTyped(t), NEW p \in Packet, NEW id
    PROVE  /\ TablesTyped(NodeSeen(t, NodeOf[p])) /\ NodeSeen(t, NodeOf[p]).next = t.next
           /\ TablesTyped(IdAllocated(t))
           /\ id \in Nat \ {0} /\ id < t.next => TablesTyped(Enqueued(t, id, p))
           /\ Enqueued(t, id, p).next = t.next
           /\ TablesTyped(Deleted(t, id)) /\ Deleted(t, id).next = t.next
           /\ TablesTyped(DeadLettered(t, id)) /\ DeadLettered(t, id).next = t.next
<1> USE DEF TableShape, TablesTyped
<1>1. TablesTyped(NodeSeen(t, NodeOf[p])) /\ NodeSeen(t, NodeOf[p]).next = t.next
  BY DEF NodeSeen
<1>2. TablesTyped(IdAllocated(t))
  <2>1. /\ IdAllocated(t).nodes = t.nodes /\ IdAllocated(t).outbox = t.outbox
        /\ IdAllocated(t).dead = t.dead /\ IdAllocated(t).next = t.next + 1
    BY DEF IdAllocated
  <2>2. \A i \in Nat : i < t.next => i < t.next + 1
    OBVIOUS
  <2> QED BY <2>1, <2>2
<1>3. /\ DOMAIN With(t.outbox, id, p) = {id} \cup DOMAIN t.outbox
      /\ \A i \in DOMAIN With(t.outbox, id, p) :
            With(t.outbox, id, p)[i] = IF i = id THEN p ELSE t.outbox[i]
  BY DEF With
<1>4. /\ Enqueued(t, id, p).nodes = t.nodes /\ Enqueued(t, id, p).dead = t.dead
      /\ Enqueued(t, id, p).next = t.next
      /\ Enqueued(t, id, p).outbox = With(t.outbox, id, p)
  BY DEF Enqueued
<1>5. id \in Nat \ {0} /\ id < t.next => TablesTyped(Enqueued(t, id, p))
  BY <1>3, <1>4
<1>6. /\ DOMAIN Without(t.outbox, id) = DOMAIN t.outbox \ {id}
      /\ \A i \in DOMAIN Without(t.outbox, id) : Without(t.outbox, id)[i] = t.outbox[i]
  BY DEF Without
<1>7. TablesTyped(Deleted(t, id)) /\ Deleted(t, id).next = t.next
  <2>1. /\ Deleted(t, id).nodes = t.nodes /\ Deleted(t, id).dead = t.dead
        /\ Deleted(t, id).next = t.next /\ Deleted(t, id).outbox = Without(t.outbox, id)
    BY DEF Deleted
  <2> QED BY <1>6, <2>1
<1>8. TablesTyped(DeadLettered(t, id)) /\ DeadLettered(t, id).next = t.next
  <2>1. CASE id \notin DOMAIN t.outbox
    BY <2>1 DEF DeadLettered
  <2>2. CASE id \in DOMAIN t.outbox
    <3> DEFINE q == t.outbox[id]
    <3>1. /\ DOMAIN With(t.dead, id, q) = {id} \cup DOMAIN t.dead
          /\ \A i \in DOMAIN With(t.dead, id, q) :
                With(t.dead, id, q)[i] = IF i = id THEN q ELSE t.dead[i]
      BY DEF With
    <3>2. /\ DeadLettered(t, id).nodes = t.nodes /\ DeadLettered(t, id).next = t.next
          /\ DeadLettered(t, id).outbox = Without(t.outbox, id)
          /\ DeadLettered(t, id).dead = With(t.dead, id, q)
      BY <2>2 DEF DeadLettered
    <3>3. q \in Packet /\ id \in Nat \ {0} /\ id < t.next
      BY <2>2
    <3> HIDE DEF q
    <3> QED BY <1>6, <3>1, <3>2, <3>3
  <2> QED BY <2>1, <2>2
<1> QED BY <1>1, <1>2, <1>4, <1>5, <1>7, <1>8

\* All ids in the tables are ids of requests that arrived.
LEMMA RowIds ==
    ASSUME ConnShape, TInv
    PROVE  \A i \in DOMAIN conn.db.outbox : i \in Ids /\ conn.db.outbox[i] \in Packet
<1>1. Cardinality(Waiting) \in Nat
  BY FS_CardinalityType DEF TInv, Budget
<1>2. conn.db.next <= MaxReceived + 1
  BY <1>1 DEF TInv, Budget, ConnShape, TableShape
<1> QED BY <1>2 DEF TInv, TablesTyped, Ids, ConnShape, TableShape

\* There is a current record.
LEMMA CurrentRecord ==
    ASSUME WorkerTyped, worker.pc # "idle"
    PROVE  Current \in DOMAIN worker.batch /\ Posted \in [id : Ids, packet : Packet]
<1> DEFINE D == DOMAIN worker.batch
<1>1. D \subseteq Nat /\ D \subseteq Ids
  BY DEF WorkerTyped, Ids
<1>2. D # {}
  <2>1. SUFFICES ASSUME D = {} PROVE FALSE
    OBVIOUS
  <2>2. worker.batch = [i \in D |-> worker.batch[i]]
    BY DEF WorkerTyped
  <2>3. worker.batch = NoRows
    BY <2>1, <2>2 DEF NoRows
  <2> QED BY <2>3 DEF WorkerTyped
<1>3. \E x \in D : \A y \in D : x <= y
  BY <1>1, <1>2, LeastNat
<1>4. Current \in D
  BY <1>3 DEF Current, Min
<1> QED BY <1>1, <1>4 DEF Posted, WorkerTyped


\* The tables keep their types, and only an allocation takes an id.
NoneTaken ==
    {conn'.durable.next, conn'.db.next} \subseteq {conn.durable.next, conn.db.next}

LEMMA TablesStep ==
    ASSUME IInv, TInv, [Next]_vars
    PROVE  /\ TablesTyped(conn'.durable) /\ TablesTyped(conn'.db)
           /\ \/ NoneTaken
              \/ \E t \in Threads : AllocateId(t)
<1> DEFINE Goal == /\ TablesTyped(conn'.durable) /\ TablesTyped(conn'.db)
                   /\ NoneTaken \/ \E t \in Threads : AllocateId(t)
<1>1. /\ TablesTyped(conn.durable) /\ TablesTyped(conn.db) /\ ConnShape
      /\ TableShape(conn.durable) /\ TableShape(conn.db)
  BY DEF TInv, IInv, Shape, ConnShape
<1>2. ASSUME conn' \in {conn, Begun(conn), Committed(conn), RolledBack(conn),
                        Executed(conn, conn.db)}
      PROVE  Goal
  <2>1. {conn'.durable, conn'.db} \subseteq {conn.durable, conn.db}
    BY <1>1, <1>2, Connection
  <2> QED BY <1>1, <2>1 DEF NoneTaken
<1>3. ASSUME NEW tables, TablesTyped(tables), tables.next = conn.db.next,
             conn' = Executed(conn, tables) \/ conn' = Committed(Executed(conn, tables))
      PROVE  Goal
  <2>1. /\ Executed(conn, tables).db = tables /\ Executed(conn, tables).durable = conn.durable
        /\ Committed(Executed(conn, tables)).db = tables
        /\ Committed(Executed(conn, tables)).durable = tables
    BY <1>1 DEF ConnShape, Executed, Committed
  <2> QED BY <1>1, <1>3, <2>1 DEF NoneTaken
<1>4. ASSUME NEW t \in Threads, Begin(t) \/ Commit(t) \/ StatementFails(t)
      PROVE  Goal
  BY <1>2, <1>4 DEF Begin, Commit, StatementFails
<1>5. ASSUME NEW t \in Threads, UpsertNode(t) \/ Insert(t)
      PROVE  Goal
  <2>1. intake[t].pc \in {"node", "insert"} /\ intake[t] # IdleThread
    BY <1>5 DEF UpsertNode, Insert, Statement, IdleThread
  <2>2. intake[t].request \in Packet
    BY <2>1 DEF TInv, ThreadsTyped
  <2>3. CASE UpsertNode(t)
    BY <1>1, <1>3, <2>2, <2>3, TypedStatements DEF UpsertNode, Statement
  <2>4. CASE Insert(t)
    <3>1. intake[t].id \in Nat \ {0} /\ intake[t].id < conn.db.next
      BY <2>4 DEF Insert, Statement, IInv, ThreadIds, HasId, Naming
    <3>2. conn' = Executed(conn, Enqueued(conn.db, intake[t].id, intake[t].request))
      BY <2>4 DEF Insert, Statement
    <3>3. /\ TablesTyped(Enqueued(conn.db, intake[t].id, intake[t].request))
          /\ Enqueued(conn.db, intake[t].id, intake[t].request).next = conn.db.next
      BY <1>1, <2>2, <3>1, TypedStatements
    <3> QED BY <1>3, <3>2, <3>3
  <2> QED BY <1>5, <2>3, <2>4
<1>6. ASSUME NEW t \in Threads, AllocateId(t)
      PROVE  Goal
  <2>1. conn' = Executed(conn, IdAllocated(conn.db))
    BY <1>6 DEF AllocateId, Statement
  <2>2. intake[t].pc = "allocate" /\ intake[t] # IdleThread
    BY <1>6 DEF AllocateId, Statement, IdleThread
  <2>3. intake[t].request \in Packet
    BY <2>2 DEF TInv, ThreadsTyped
  <2>4. TablesTyped(IdAllocated(conn.db))
    BY <1>1, <2>3, TypedStatements
  <2>5. conn'.db = IdAllocated(conn.db) /\ conn'.durable = conn.durable
    BY <1>1, <2>1, Connection
  <2> QED BY <1>1, <1>6, <2>4, <2>5
<1>7. CASE Delete \/ DeadLetter
  <2>1. worker.pc # "idle"
    BY <1>7 DEF Delete, DeadLetter
  <2>2. PICK p : p \in Packet
    BY <2>1, CurrentRecord DEF TInv
  <2>3. /\ TablesTyped(Deleted(conn.db, Current)) /\ TablesTyped(DeadLettered(conn.db, Current))
        /\ Deleted(conn.db, Current).next = conn.db.next
        /\ DeadLettered(conn.db, Current).next = conn.db.next
    BY <1>1, <2>2, TypedStatements
  <2> QED BY <1>3, <1>7, <2>3 DEF Delete, DeadLetter
<1>8. CASE MarkRetry \/ CommitWrite \/ Crash
  BY <1>2, <1>8 DEF MarkRetry, CommitWrite, Crash
<1>9. CASE UNCHANGED conn
  BY <1>2, <1>9
<1> QED BY <1>4, <1>5, <1>6, <1>7, <1>8, <1>9
    DEF Next, IntakeStep, WorkerStep, Refuse, Accept, CacheAndAnswer, Receive, CacheForgets,
        StartPass, Post, Elapse, Handle, Lose, vars

\* The numbers of threads waiting for an id and of ids taken stay within the
\* number of requests received.
LEMMA BudgetStep ==
    ASSUME IInv, TInv, [Next]_vars
    PROVE  Budget'
<1>1. /\ received \in Nat /\ received <= MaxReceived /\ MaxReceived \in Nat
      /\ IsFiniteSet(Waiting) /\ Cardinality(Waiting) \in Nat
      /\ conn.durable.next \in Nat \ {0} /\ conn.db.next \in Nat \ {0}
      /\ conn.durable.next + Cardinality(Waiting) <= received + 1
      /\ conn.db.next + Cardinality(Waiting) <= received + 1
      /\ DOMAIN intake = Threads
  BY FS_CardinalityType
     DEF TInv, Budget, IInv, Shape, ConnShape, TableShape, ThreadShape
<1>2. ASSUME NEW t \in Threads, AllocateId(t)
      PROVE  Budget'
  <2>1. Waiting' = Waiting \ {t} /\ t \in Waiting
    BY <1>1, <1>2 DEF AllocateId, Statement, Go, Waiting
  <2>2. IsFiniteSet(Waiting') /\ Cardinality(Waiting') = Cardinality(Waiting) - 1
    BY <1>1, <2>1, FS_RemoveElement
  <2>3. conn'.durable.next = conn.durable.next /\ conn'.db.next = conn.db.next + 1
    <3>1. conn' = Executed(conn, IdAllocated(conn.db)) /\ ConnShape
      BY <1>2 DEF AllocateId, Statement, IInv, Shape
    <3>2. conn'.durable = conn.durable /\ conn'.db = IdAllocated(conn.db)
      BY <3>1, Connection
    <3>3. IdAllocated(conn.db).next = conn.db.next + 1
      BY <3>1 DEF IdAllocated, ConnShape, TableShape
    <3> QED BY <3>2, <3>3
  <2>4. received' = received
    BY <1>2 DEF AllocateId, Statement
  <2> QED BY <1>1, <2>2, <2>3, <2>4 DEF Budget
<1>3. ASSUME Waiting' \subseteq Waiting, received' = received
      PROVE  Budget'
  <2>1. /\ IsFiniteSet(Waiting') /\ Cardinality(Waiting') <= Cardinality(Waiting)
        /\ Cardinality(Waiting') \in Nat
    BY <1>1, <1>3, FS_Subset, FS_CardinalityType
  <2>2. CASE NoneTaken
    BY <1>1, <1>3, <2>1, <2>2 DEF Budget, NoneTaken
  <2> QED BY <1>2, <2>2, TablesStep
<1>4. ASSUME NEW t \in Threads, NEW r \in Requests, Receive(t, r)
      PROVE  Budget'
  <2>1. /\ Waiting' \subseteq Waiting \cup {t} /\ t \notin Waiting
        /\ received' = received + 1 /\ received < MaxReceived /\ conn' = conn
    BY <1>1, <1>4 DEF Receive, Answer, Go, At, IdleThread, Waiting
  <2>2. /\ IsFiniteSet(Waiting \cup {t})
        /\ Cardinality(Waiting \cup {t}) = Cardinality(Waiting) + 1
    BY <1>1, <2>1, FS_AddElement
  <2>3. /\ IsFiniteSet(Waiting') /\ Cardinality(Waiting') <= Cardinality(Waiting) + 1
        /\ Cardinality(Waiting') \in Nat
    BY <2>1, <2>2, FS_Subset, FS_CardinalityType
  <2> QED BY <1>1, <2>1, <2>3 DEF Budget
<1>5. ASSUME NEW t \in Threads, IntakeStep(t) \/ StatementFails(t)
      PROVE  Waiting' \subseteq Waiting /\ received' = received
  <2> DEFINE Waits(step) == step.pc \in {"begin", "node", "allocate"}
  <2>1. ASSUME NEW step, Go(t, step), Waits(step) => Waits(intake[t])
        PROVE  Waiting' \subseteq Waiting
    <3>1. DOMAIN intake = Threads
      BY <1>1
    <3> QED BY <2>1, <3>1 DEF Go, Waiting
  <2>2. CASE Refuse(t) \/ Accept(t) \/ StatementFails(t)
    <3>1. ~Waits(IdleThread)
      BY DEF IdleThread
    <3> QED BY <2>1, <2>2, <3>1 DEF Refuse, Accept, CacheAndAnswer, Answer, StatementFails
  <2>3. CASE Begin(t)
    <3>1. Waits(intake[t]) /\ received' = received
      BY <2>3 DEF Begin
    <3>2. PICK step : Go(t, step)
      BY <2>3 DEF Begin
    <3> QED BY <2>1, <3>1, <3>2
  <2>4. CASE UpsertNode(t) \/ AllocateId(t) \/ Insert(t) \/ Commit(t)
    <3>1. PICK step : Go(t, step) /\ (Waits(step) => Waits(intake[t]))
      <4>1. CASE UpsertNode(t)
        BY <4>1 DEF UpsertNode, Statement
      <4>2. CASE AllocateId(t)
        BY <4>2 DEF AllocateId, Statement
      <4>3. CASE Insert(t)
        <5>1. ~Waits([intake[t] EXCEPT !.pc = "commit"])
          BY <1>1, <4>3 DEF IInv, Shape, ThreadShape, Insert, Statement
        <5> QED BY <4>3, <5>1 DEF Insert, Statement
      <4>4. CASE Commit(t)
        <5>1. ~Waits([intake[t] EXCEPT !.pc = "store"])
          BY <1>1, <4>4 DEF IInv, Shape, ThreadShape, Commit
        <5> QED BY <4>4, <5>1 DEF Commit
      <4> QED BY <2>4, <4>1, <4>2, <4>3, <4>4
    <3>2. received' = received
      BY <2>4 DEF UpsertNode, AllocateId, Insert, Commit, Statement
    <3> QED BY <2>1, <3>1, <3>2
  <2> QED BY <1>5, <2>2, <2>3, <2>4 DEF IntakeStep
<1>6. CASE Crash
  BY <1>3, <1>6 DEF Crash, Waiting, IdleThread
<1>7. CASE UNCHANGED <<intake, received>>
  BY <1>3, <1>7 DEF Waiting
<1>8. ASSUME NEW t \in Threads, IntakeStep(t) \/ StatementFails(t)
      PROVE  Budget'
  BY <1>3, <1>5, <1>8
<1> QED BY <1>4, <1>6, <1>7, <1>8
    DEF Next, WorkerStep, CacheForgets, StartPass, Post, MarkRetry, Delete, CommitWrite,
        DeadLetter, Elapse, Handle, Lose, intakeVars, vars

\* A thread that waits for an id gets one of a request received.
LEMMA NextId ==
    ASSUME IInv, TInv, NEW t \in Threads, t \in Waiting
    PROVE  conn.db.next \in Ids
<1>1. /\ IsFiniteSet(Waiting) /\ Cardinality(Waiting) \in Nat
      /\ IsFiniteSet(Waiting \ {t}) /\ Cardinality(Waiting \ {t}) \in Nat
      /\ Cardinality(Waiting \ {t}) = Cardinality(Waiting) - 1
  BY FS_RemoveElement, FS_CardinalityType DEF TInv, Budget
<1>2. /\ received \in Nat /\ received <= MaxReceived /\ conn.db.next \in Nat \ {0}
      /\ conn.db.next + Cardinality(Waiting) <= received + 1
  BY DEF TInv, Budget, IInv, Shape, ConnShape, TableShape
<1> QED BY <1>1, <1>2 DEF Ids

ThreadTyped(x) ==
    x = IdleThread \/ /\ x \in [pc : Pcs, request : Requests, id : Ids \cup {BadRequest}]
                      /\ x.pc # "refuse" => x.request \in Packet

LEMMA ThreadsStep ==
    ASSUME IInv, TInv, [Next]_vars
    PROVE  ThreadsTyped'
<1>1. DOMAIN intake = Threads /\ \A t \in Threads : ThreadTyped(intake[t])
  BY DEF TInv, ThreadsTyped, ThreadTyped, IInv, Shape, ThreadShape
<1>2. ASSUME NEW t \in Threads, NEW step, Go(t, step), ThreadTyped(step)
      PROVE  ThreadsTyped'
  <2>1. \A u \in Threads : intake'[u] = IF u = t THEN step ELSE intake[u]
    BY <1>1, <1>2 DEF Go
  <2>2. \A u \in Threads : ThreadTyped(intake'[u])
    BY <1>1, <1>2, <2>1
  <2> QED BY <2>2 DEF ThreadsTyped, ThreadTyped
<1>3. ThreadTyped(IdleThread)
  BY DEF ThreadTyped
<1>4. ASSUME NEW t \in Threads, NEW pc \in Pcs \ {"refuse"},
             intake[t].pc \notin {"idle", "refuse"}
      PROVE  ThreadTyped([intake[t] EXCEPT !.pc = pc])
  <2>1. intake[t] # IdleThread
    BY <1>4 DEF IdleThread
  <2> QED BY <1>1, <1>4, <2>1 DEF ThreadTyped
<1>5. ASSUME NEW t \in Threads, Refuse(t) \/ Accept(t) \/ StatementFails(t)
      PROVE  ThreadsTyped'
  BY <1>2, <1>3, <1>5 DEF Refuse, Accept, CacheAndAnswer, Answer, StatementFails
<1>6. ASSUME NEW t \in Threads, Begin(t) \/ UpsertNode(t) \/ Insert(t) \/ Commit(t)
      PROVE  ThreadsTyped'
  <2>1. intake[t].pc \notin {"idle", "refuse"}
    BY <1>6 DEF Begin, UpsertNode, Insert, Commit, Statement
  <2>2. {"node", "allocate", "commit", "store"} \subseteq Pcs \ {"refuse"}
    BY DEF Pcs
  <2>3. \E pc \in {"node", "allocate", "commit", "store"} :
            Go(t, IdleThread) \/ Go(t, [intake[t] EXCEPT !.pc = pc])
    BY <1>6 DEF Begin, UpsertNode, Insert, Commit, Statement
  <2> QED BY <1>2, <1>3, <1>4, <2>1, <2>2, <2>3
<1>7. ASSUME NEW t \in Threads, AllocateId(t)
      PROVE  ThreadsTyped'
  <2>1. intake[t].pc = "allocate"
        /\ Go(t, [intake[t] EXCEPT !.pc = "insert", !.id = conn.db.next])
    BY <1>7 DEF AllocateId, Statement
  <2>2. conn.db.next \in Ids
    BY <2>1, NextId DEF Waiting
  <2>3. intake[t] # IdleThread
    BY <2>1 DEF IdleThread
  <2>4. ThreadTyped([intake[t] EXCEPT !.pc = "insert", !.id = conn.db.next])
    BY <1>1, <2>1, <2>2, <2>3 DEF ThreadTyped, Pcs
  <2> QED BY <1>2, <2>1, <2>4
<1>8. ASSUME NEW t \in Threads, NEW r \in Requests, Receive(t, r)
      PROVE  ThreadsTyped'
  <2>1. ThreadTyped(At(IF r \in Packet THEN "begin" ELSE "refuse", r, BadRequest))
    BY DEF ThreadTyped, At, Pcs, BadRequest
  <2> QED BY <1>2, <1>3, <1>8, <2>1 DEF Receive, Answer
<1>9. CASE Crash
  BY <1>9 DEF Crash, ThreadsTyped
<1>10. CASE UNCHANGED intake
  BY <1>10 DEF TInv, ThreadsTyped
<1> QED BY <1>5, <1>6, <1>7, <1>8, <1>9, <1>10
    DEF Next, IntakeStep, WorkerStep, CacheForgets, StartPass, Post, MarkRetry, Delete,
        CommitWrite, DeadLetter, Elapse, Handle, Lose, intakeVars, vars

LEMMA CacheTypedStep ==
    ASSUME IInv, TInv, [Next]_vars
    PROVE  CacheTyped'
<1>1. CacheTyped
  BY DEF TInv
<1>2. ASSUME NEW t \in Threads, Refuse(t) \/ Accept(t)
      PROVE  CacheTyped'
  <2>1. intake[t] # IdleThread
    BY <1>2 DEF Refuse, Accept, IdleThread
  <2>2. intake[t].request \in Requests /\ intake[t].id \in Ids \cup {BadRequest}
    BY <2>1 DEF TInv, ThreadsTyped
  <2>3. \E a \in Ids \cup {BadRequest} : cache' = With(cache, intake[t].request, a)
    BY <1>2, <2>2 DEF Refuse, Accept, CacheAndAnswer
  <2> QED BY <1>1, <2>2, <2>3 DEF CacheTyped, With
<1>3. CASE \E r \in Requests : CacheForgets(r)
  BY <1>1, <1>3 DEF CacheForgets, CacheTyped
<1>4. CASE Crash
  BY <1>4 DEF Crash, CacheTyped, Nothing
<1>5. CASE UNCHANGED cache
  BY <1>1, <1>5 DEF CacheTyped
<1> QED BY <1>2, <1>3, <1>4, <1>5
    DEF Next, IntakeStep, WorkerStep, Begin, UpsertNode, AllocateId, Insert, Commit, Statement,
        StatementFails, Receive, StartPass, Post, MarkRetry, Delete, CommitWrite, DeadLetter,
        Elapse, Handle, Lose, intakeVars, vars

LEMMA WorkerTypedStep ==
    ASSUME IInv, TInv, [Next]_vars
    PROVE  WorkerTyped'
<1>1. WorkerTyped /\ {"pc", "batch"} \subseteq DOMAIN worker
  BY DEF TInv, IInv, Shape
<1>2. ASSUME NEW pc \in {"post", "wait", "receipt", "done"}, worker.pc # "idle", WorkerAt(pc)
      PROVE  WorkerTyped'
  <2>1. worker'.pc = pc /\ worker'.batch = worker.batch
    BY <1>1, <1>2 DEF WorkerAt
  <2> QED BY <1>1, <1>2, <2>1 DEF WorkerTyped
<1>3. ASSUME NEW batch, DOMAIN batch \subseteq Ids, batch \in [DOMAIN batch -> Packet],
             worker' = [pc |-> PassFrom(batch), batch |-> batch]
      PROVE  WorkerTyped'
  BY <1>3 DEF WorkerTyped, PassFrom
<1>4. CASE StartPass
  <2> DEFINE batch == [i \in Batch |-> conn.db.outbox[i]]
  <2>1. ConnShape
    BY DEF IInv, Shape
  <2>2. DOMAIN batch \subseteq Ids /\ batch \in [DOMAIN batch -> Packet]
    BY <2>1, RowIds DEF Batch, Due
  <2>3. worker' = [pc |-> PassFrom(batch), batch |-> batch]
    BY <1>4 DEF StartPass
  <2> HIDE DEF batch
  <2> QED BY <1>3, <2>2, <2>3
<1>5. CASE Post \/ MarkRetry \/ Delete
  BY <1>2, <1>5 DEF Post, MarkRetry, Delete
<1>6. CASE CommitWrite \/ DeadLetter
  <2> DEFINE rest == Without(worker.batch, Current)
  <2>1. DOMAIN rest \subseteq Ids /\ rest \in [DOMAIN rest -> Packet]
    BY <1>1 DEF WorkerTyped, Without
  <2>2. worker' = [pc |-> PassFrom(rest), batch |-> rest]
    BY <1>6 DEF CommitWrite, DeadLetter, NextRecord
  <2> HIDE DEF rest
  <2> QED BY <1>3, <2>1, <2>2
<1>7. CASE \E m \in wire : Handle(m)
  <2>1. worker' = worker \/ (worker.pc = "wait" /\ WorkerAt("receipt"))
    BY <1>7 DEF Handle, WorkerAt
  <2> QED BY <1>1, <1>2, <2>1 DEF WorkerTyped
<1>8. CASE Crash
  BY <1>8 DEF Crash, IdleWorker, NoRows, WorkerTyped
<1>9. CASE UNCHANGED worker
  BY <1>1, <1>9 DEF WorkerTyped
<1> QED BY <1>4, <1>5, <1>6, <1>7, <1>8, <1>9
    DEF Next, IntakeStep, WorkerStep, Refuse, Accept, CacheAndAnswer, Begin, UpsertNode,
        AllocateId, Insert, Commit, Statement, StatementFails, Receive, CacheForgets, Elapse,
        Lose, workerVars, vars

LEMMA WireTypedStep ==
    ASSUME IInv, TInv, [Next]_vars
    PROVE  WireTyped'
<1>1. WireTyped
  BY DEF TInv
<1>2. CASE MarkRetry
  <2>1. {Current} \cap DOMAIN conn.db.outbox \subseteq Ids
    BY RowIds DEF IInv, Shape
  <2> QED BY <1>1, <1>2, <2>1 DEF MarkRetry, cloudVars, WireTyped
<1>3. CASE Post
  <2>1. Posted \in [id : Ids, packet : Packet]
    BY <1>3, CurrentRecord DEF TInv, Post
  <2> QED BY <1>1, <1>3, <2>1 DEF Post, WireTyped
<1>4. CASE \E m \in wire : Handle(m)
  <2>1. PICK m \in wire : csp' = Ingested(csp, m.id, m.packet) /\ wire' = wire \ {m} /\ later' = later
    BY <1>4 DEF Handle
  <2>2. csp'.projected \subseteq DOMAIN csp'.uplinks
    BY <1>1, <2>1 DEF Ingested, WireTyped
  <2> QED BY <1>1, <2>1, <2>2 DEF WireTyped
<1>5. CASE UNCHANGED csp /\ wire' \subseteq wire /\ later' \subseteq later
  BY <1>1, <1>5 DEF WireTyped
<1> QED BY <1>2, <1>3, <1>4, <1>5
    DEF Next, IntakeStep, WorkerStep, Refuse, Accept, CacheAndAnswer, Begin, UpsertNode,
        AllocateId, Insert, Commit, Statement, StatementFails, Receive, CacheForgets, StartPass,
        Delete, CommitWrite, DeadLetter, Elapse, Lose, Crash, workerVars, cloudVars, vars

LEMMA InitTInv == Init => TInv
<1> SUFFICES ASSUME Init PROVE TInv
  OBVIOUS
<1>1. TablesTyped(conn.durable) /\ TablesTyped(conn.db)
  BY DEF Init, Opened, NewTables, NoRows, TablesTyped
<1>2. Budget
  <2>1. Waiting = {}
    BY DEF Init, Waiting, IdleThread
  <2>2. IsFiniteSet(Waiting) /\ Cardinality(Waiting) = 0
    BY <2>1, FS_EmptySet
  <2> QED BY <2>2 DEF Init, Opened, NewTables, Budget
<1>3. ThreadsTyped /\ CacheTyped
  BY DEF Init, ThreadsTyped, CacheTyped, Nothing
<1>4. WorkerTyped
  BY DEF Init, IdleWorker, NoRows, WorkerTyped
<1>5. WireTyped
  BY DEF Init, EmptyCsp, WireTyped
<1> QED BY <1>1, <1>2, <1>3, <1>4, <1>5 DEF TInv

LEMMA StepTInv == IInv /\ TInv /\ [Next]_vars => TInv'
BY TablesStep, BudgetStep, ThreadsStep, WorkerTypedStep, CacheTypedStep, WireTypedStep DEF TInv

LEMMA TypesFollow ==
    ASSUME IInv, TInv
    PROVE  TypeOK
<1>1. /\ received \in Nat /\ Cardinality(Waiting) \in Nat
      /\ conn.durable.next + Cardinality(Waiting) <= received + 1
      /\ conn.db.next + Cardinality(Waiting) <= received + 1
      /\ conn.durable.next \in Nat \ {0} /\ conn.db.next \in Nat \ {0}
      /\ conn.inTx \in BOOLEAN
  BY FS_CardinalityType DEF TInv, Budget, IInv, Shape, ConnShape, TableShape
<1>2. conn.durable.next \in 1..received + 1 /\ conn.db.next \in 1..received + 1
  BY <1>1
<1>3. \A t \in Threads : intake[t] = IdleThread
          \/ intake[t] \in [pc : Pcs, request : Requests, id : Ids \cup {BadRequest}]
  BY DEF TInv, ThreadsTyped
<1>4. WorkerTyped /\ WireTyped /\ CacheTyped
      /\ TablesTyped(conn.durable) /\ TablesTyped(conn.db)
  BY DEF TInv
<1> QED BY <1>1, <1>2, <1>3, <1>4 DEF TypeOK, WorkerTyped, WireTyped, CacheTyped, TablesTyped

----------------------------------------------------------------------------
(* The outbox on disk is the one promised (GatewayOutbox): what the open     *)
(* transaction holds that the disk does not is one row, of the thread about  *)
(* to commit it, with an id that is nowhere else.                            *)

Separate(t) == DOMAIN t.outbox \cap DOMAIN t.dead = {}

SameRows ==
    /\ conn.db.dead = conn.durable.dead
    /\ \A i \in DOMAIN conn.db.outbox \cap DOMAIN conn.durable.outbox :
          conn.db.outbox[i] = conn.durable.outbox[i]

\* A row that is not on disk is one a thread is about to commit.
NewRowsOwned ==
    \A i \in DOMAIN conn.db.outbox \ DOMAIN conn.durable.outbox :
        \E t \in Threads : intake[t].pc = "commit" /\ intake[t].id = i

\* The id of a row to be inserted has no row, open or on disk.
IdIsNew(i) ==
    i \notin DOMAIN conn.db.outbox \cup DOMAIN conn.durable.outbox \cup DOMAIN conn.db.dead
InsertsNew == \A t \in Threads : intake[t].pc = "insert" => IdIsNew(intake[t].id)

RowsInv ==
    /\ SameRows
    /\ NewRowsOwned
    /\ InsertsNew
    /\ Separate(conn.db) /\ Separate(conn.durable)

\* Threads that insert were about to, threads that commit still are.
NoneInserts == \A t \in Threads : intake'[t].pc = "insert" => intake'[t] = intake[t]
CommitsStay == \A t \in Threads : intake[t].pc = "commit" => intake'[t] = intake[t]

\* Where nothing is written, and where all is committed or rolled back
LEMMA RowsCarried ==
    ASSUME RowsInv, NoneInserts,
           \/ conn'.db = conn.db /\ conn'.durable = conn.durable /\ CommitsStay
           \/ conn'.db = conn.durable /\ conn'.durable = conn.durable
           \/ conn'.db = conn.db /\ conn'.durable = conn.db
    PROVE  RowsInv'
<1> USE DEF RowsInv, SameRows, NewRowsOwned, InsertsNew, IdIsNew, Separate, NoneInserts
<1>1. CASE conn'.db = conn.db /\ conn'.durable = conn.durable /\ CommitsStay
  BY <1>1 DEF CommitsStay
<1>2. CASE conn'.db = conn.durable /\ conn'.durable = conn.durable
  BY <1>2
<1>3. CASE conn'.db = conn.db /\ conn'.durable = conn.db
  BY <1>3
<1> QED BY <1>1, <1>2, <1>3

\* Where a statement leaves the rows and the dead letters alone, or deletes one
LEMMA RowsFewer ==
    ASSUME RowsInv, NoneInserts, CommitsStay, conn'.durable = conn.durable,
           conn'.db.dead = conn.db.dead,
           DOMAIN conn'.db.outbox \subseteq DOMAIN conn.db.outbox,
           \A i \in DOMAIN conn'.db.outbox : conn'.db.outbox[i] = conn.db.outbox[i]
    PROVE  RowsInv'
BY DEF RowsInv, SameRows, NewRowsOwned, InsertsNew, IdIsNew, Separate, NoneInserts, CommitsStay

\* The pass moves a row to the dead letters when nothing else is open.
LEMMA DeadLetterRows ==
    ASSUME IInv, RowsInv, DeadLetter
    PROVE  /\ RowsInv'
           /\ conn'.durable = DeadLettered(conn.durable, Current)
<1>1. conn.db = conn.durable
  BY DEF IInv, NoStrayTransaction, DeadLetter
<1>2. conn'.durable = DeadLettered(conn.db, Current) /\ conn'.db = conn'.durable
  <2> DEFINE new == DeadLettered(conn.db, Current)
  <2>1. conn' = Committed(Executed(conn, new))
    BY DEF DeadLetter
  <2> HIDE DEF new
  <2>2. {"durable", "db", "inTx"} \subseteq DOMAIN conn
    BY DEF IInv, Shape, ConnShape
  <2> DEFINE c == Executed(conn, new)
  <2>3. c.db = new /\ {"durable", "db", "inTx"} \subseteq DOMAIN c
    BY <2>2 DEF Executed
  <2>4. conn' = Committed(c)
    BY <2>1
  <2> HIDE DEF c
  <2>5. conn'.durable = new /\ conn'.db = new
    BY <2>3, <2>4 DEF Committed
  <2> QED BY <2>5 DEF new
<1>3. intake' = intake /\ \A t \in Threads : intake[t].pc \notin {"insert", "commit"}
  BY DEF DeadLetter, intakeVars, LockFree, InTransaction
<1>4. Separate(DeadLettered(conn.db, Current))
  <2>1. TableShape(conn.db) /\ Separate(conn.db)
    BY DEF IInv, Shape, ConnShape, RowsInv
  <2>2. CASE Current \notin DOMAIN conn.db.outbox
    BY <2>1, <2>2 DEF DeadLettered
  <2>3. CASE Current \in DOMAIN conn.db.outbox
    <3> DEFINE id == Current
    <3>1. DOMAIN With(conn.db.dead, id, conn.db.outbox[id]) = {id} \cup DOMAIN conn.db.dead
      BY DEF With
    <3>2. DOMAIN Without(conn.db.outbox, id) = DOMAIN conn.db.outbox \ {id}
      BY DEF Without
    <3> HIDE DEF id
    <3>3. /\ DeadLettered(conn.db, id).outbox = Without(conn.db.outbox, id)
          /\ DeadLettered(conn.db, id).dead = With(conn.db.dead, id, conn.db.outbox[id])
      BY <2>1, <2>3 DEF DeadLettered, TableShape, id
    <3>4. Separate(DeadLettered(conn.db, id))
      BY <2>1, <3>1, <3>2, <3>3 DEF Separate
    <3> QED BY <3>4 DEF id
  <2> QED BY <2>2, <2>3
<1>5. RowsInv'
  BY <1>2, <1>3, <1>4 DEF RowsInv, SameRows, NewRowsOwned, InsertsNew, Separate
<1> QED BY <1>1, <1>2, <1>5

LEMMA RowsStep ==
    ASSUME IInv, TInv, RowsInv, [Next]_vars
    PROVE  RowsInv'
<1>1. ConnShape /\ DOMAIN intake = Threads
  BY DEF IInv, Shape, ThreadShape
<1>2. ASSUME NEW t \in Threads, NEW step, Go(t, step)
      PROVE  /\ step.pc # "insert" => NoneInserts
             /\ intake[t].pc # "commit" => CommitsStay
             /\ intake'[t] = step /\ \A u \in Threads \ {t} : intake'[u] = intake[u]
  BY <1>1, <1>2 DEF Go, NoneInserts, CommitsStay
<1>3. ASSUME NEW t \in Threads, NEW pc, intake[t] # IdleThread
      PROVE  [intake[t] EXCEPT !.pc = pc].pc = pc /\ [intake[t] EXCEPT !.pc = pc].id = intake[t].id
  BY <1>3 DEF TInv, ThreadsTyped
<1>4. IdleThread.pc # "insert" /\ IdleThread.pc # "commit"
  BY DEF IdleThread
<1>5. ASSUME NEW t \in Threads, Refuse(t) \/ Accept(t)
      PROVE  RowsInv'
  <2>1. Go(t, IdleThread) /\ conn' = conn /\ intake[t].pc # "commit"
    BY <1>5 DEF Refuse, Accept, CacheAndAnswer, Answer
  <2> QED BY <1>2, <1>4, <2>1, RowsCarried
<1>6. ASSUME NEW t \in Threads, NEW r \in Requests, Receive(t, r)
      PROVE  RowsInv'
  <2>1. PICK step : Go(t, step) /\ step.pc # "insert"
    BY <1>4, <1>6 DEF Receive, Answer, At
  <2>2. conn' = conn /\ intake[t].pc # "commit"
    BY <1>6 DEF Receive
  <2> QED BY <1>2, <2>1, <2>2, RowsCarried
<1>7. ASSUME NEW t \in Threads, Begin(t)
      PROVE  RowsInv'
  <2>1. intake[t].pc = "begin" /\ intake[t] # IdleThread
    BY <1>7 DEF Begin, IdleThread
  <2>2. [intake[t] EXCEPT !.pc = "node"].pc = "node"
    BY <1>3, <2>1
  <2>3. Go(t, IdleThread) \/ Go(t, [intake[t] EXCEPT !.pc = "node"])
    BY <1>7 DEF Begin
  <2>4. NoneInserts /\ CommitsStay
    BY <1>2, <1>4, <2>1, <2>2, <2>3
  <2>5. \/ conn'.db = conn.db /\ conn'.durable = conn.durable
        \/ conn'.db = conn.durable /\ conn'.durable = conn.durable
    BY <1>1, <1>7, Connection DEF Begin
  <2> QED BY <2>4, <2>5, RowsCarried
<1>8. ASSUME NEW t \in Threads, UpsertNode(t)
      PROVE  RowsInv'
  <2> DEFINE new == NodeSeen(conn.db, NodeOf[intake[t].request])
  <2>1. intake[t].pc = "node" /\ intake[t] # IdleThread
    BY <1>8 DEF UpsertNode, Statement, IdleThread
  <2>2. /\ [intake[t] EXCEPT !.pc = "allocate"].pc = "allocate"
        /\ Go(t, [intake[t] EXCEPT !.pc = "allocate"])
    BY <1>3, <1>8, <2>1 DEF UpsertNode, Statement
  <2>3. conn'.db = new /\ conn'.durable = conn.durable
    BY <1>1, <1>8, Connection DEF UpsertNode, Statement
  <2>4. new.outbox = conn.db.outbox /\ new.dead = conn.db.dead
    BY <1>1 DEF NodeSeen, ConnShape, TableShape
  <2> HIDE DEF new
  <2> QED BY <1>2, <2>1, <2>2, <2>3, <2>4, RowsFewer
<1>9. ASSUME NEW t \in Threads, AllocateId(t)
      PROVE  RowsInv'
  <2> DEFINE new == IdAllocated(conn.db)
           step == [intake[t] EXCEPT !.pc = "insert", !.id = conn.db.next]
  <2>1. intake[t].pc = "allocate" /\ Go(t, step) /\ conn' = Executed(conn, new)
    BY <1>9 DEF AllocateId, Statement
  <2>2. intake[t] # IdleThread
    BY <2>1 DEF IdleThread
  <2>3. step.pc = "insert" /\ step.id = conn.db.next
    BY <2>2 DEF TInv, ThreadsTyped
  <2>4. conn'.db = new /\ conn'.durable = conn.durable
    BY <1>1, <2>1, Connection
  <2>5. new.outbox = conn.db.outbox /\ new.dead = conn.db.dead
    BY <1>1 DEF IdAllocated, ConnShape, TableShape
  <2>6. IdIsNew(conn.db.next)
    <3>1. TablesTyped(conn.db) /\ TablesTyped(conn.durable)
      BY DEF TInv
    <3>2. conn.durable.next \in Nat /\ conn.db.next \in Nat /\ conn.durable.next <= conn.db.next
      BY <1>1 DEF IInv, NothingLost, Kept, ConnShape, TableShape
    <3> QED BY <3>1, <3>2 DEF TablesTyped, IdIsNew
  <2> HIDE DEF new, step
  <2>7. intake'[t] = step /\ CommitsStay /\ \A u \in Threads \ {t} : intake'[u] = intake[u]
    BY <1>2, <2>1
  <2>8. NewRowsOwned'
    BY <2>4, <2>5, <2>7 DEF RowsInv, NewRowsOwned, CommitsStay
  <2>9. InsertsNew'
    BY <2>3, <2>4, <2>5, <2>6, <2>7 DEF RowsInv, InsertsNew, IdIsNew
  <2> QED BY <2>4, <2>5, <2>8, <2>9 DEF RowsInv, SameRows, Separate
<1>10. ASSUME NEW t \in Threads, Insert(t)
      PROVE  RowsInv'
  <2> DEFINE id == intake[t].id
             new == Enqueued(conn.db, id, intake[t].request)
             step == [intake[t] EXCEPT !.pc = "commit"]
  <2>1. intake[t].pc = "insert" /\ Go(t, step) /\ conn' = Executed(conn, new)
    BY <1>10 DEF Insert, Statement
  <2>2. step.pc = "commit" /\ step.id = id
    BY <1>3, <2>1 DEF IdleThread
  <2>3. conn'.db = new /\ conn'.durable = conn.durable
    BY <1>1, <2>1, Connection
  <2>4. /\ new.dead = conn.db.dead
        /\ DOMAIN new.outbox = {id} \cup DOMAIN conn.db.outbox
        /\ \A i \in DOMAIN conn.db.outbox \ {id} : new.outbox[i] = conn.db.outbox[i]
    BY <1>1 DEF Enqueued, With, ConnShape, TableShape
  <2>5. IdIsNew(id)
    BY <2>1 DEF RowsInv, InsertsNew
  <2>6. \A u \in Threads : intake[u].pc = "insert" => u = t
    BY <2>1 DEF IInv, OneTransaction, InTransaction
  <2> HIDE DEF new, step, id
  <2>7. /\ intake'[t] = step /\ CommitsStay /\ \A u \in Threads \ {t} : intake'[u] = intake[u]
    BY <1>2, <2>1
  <2>8. InsertsNew'
    BY <2>2, <2>6, <2>7 DEF InsertsNew
  <2>9. NewRowsOwned'
    BY <2>2, <2>3, <2>4, <2>7 DEF RowsInv, NewRowsOwned, CommitsStay
  <2>10. SameRows' /\ Separate(conn.db)' /\ Separate(conn.durable)'
    BY <2>3, <2>4, <2>5 DEF RowsInv, SameRows, IdIsNew, Separate
  <2> QED BY <2>8, <2>9, <2>10 DEF RowsInv
<1>11. ASSUME NEW t \in Threads, Commit(t)
      PROVE  RowsInv'
  <2>1. intake[t].pc = "commit" /\ intake[t] # IdleThread
    BY <1>11 DEF Commit, IdleThread
  <2>2. /\ [intake[t] EXCEPT !.pc = "store"].pc = "store"
        /\ Go(t, [intake[t] EXCEPT !.pc = "store"])
    BY <1>3, <1>11, <2>1 DEF Commit
  <2>3. conn'.db = conn.db /\ conn'.durable = conn.db
    BY <1>1, <1>11, Connection DEF Commit
  <2> QED BY <1>2, <2>2, <2>3, RowsCarried
<1>12. ASSUME NEW t \in Threads, StatementFails(t)
      PROVE  RowsInv'
  <2>1. Go(t, IdleThread) /\ conn'.db = conn.durable /\ conn'.durable = conn.durable
    BY <1>1, <1>12, Connection DEF StatementFails
  <2> QED BY <1>2, <1>4, <2>1, RowsCarried
<1>13. CASE UNCHANGED <<conn, intake>>
  BY <1>13, RowsCarried DEF NoneInserts, CommitsStay
<1>14. CASE MarkRetry \/ Delete
  <2>1. intake' = intake
    BY <1>14 DEF MarkRetry, Delete, intakeVars
  <2>2. \E new \in {conn.db, Deleted(conn.db, Current)} : conn' = Executed(conn, new)
    BY <1>14 DEF MarkRetry, Delete
  <2>3. conn'.durable = conn.durable /\ conn'.db \in {conn.db, Deleted(conn.db, Current)}
    BY <1>1, <2>2, Connection
  <2>4. /\ Deleted(conn.db, Current).dead = conn.db.dead
        /\ Deleted(conn.db, Current).outbox = Without(conn.db.outbox, Current)
    BY <1>1 DEF Deleted, ConnShape, TableShape
  <2>5. /\ DOMAIN Without(conn.db.outbox, Current) \subseteq DOMAIN conn.db.outbox
        /\ \A i \in DOMAIN Without(conn.db.outbox, Current) :
              Without(conn.db.outbox, Current)[i] = conn.db.outbox[i]
    BY DEF Without
  <2>6. NoneInserts /\ CommitsStay
    BY <2>1 DEF NoneInserts, CommitsStay
  <2>7. /\ conn'.db.dead = conn.db.dead
        /\ conn'.db.outbox \in {conn.db.outbox, Without(conn.db.outbox, Current)}
    BY <2>3, <2>4
  <2> QED BY <2>3, <2>5, <2>6, <2>7, RowsFewer
<1>15. CASE CommitWrite
  <2>1. intake' = intake /\ conn'.db = conn.db /\ conn'.durable = conn.db
    BY <1>1, <1>15, Connection DEF CommitWrite, intakeVars
  <2> QED BY <2>1, RowsCarried DEF NoneInserts
<1>16. CASE DeadLetter
  BY <1>16, DeadLetterRows
<1>17. CASE Crash
  <2>1. conn'.db = conn.durable /\ conn'.durable = conn.durable
    BY <1>1, <1>17, Connection DEF Crash
  <2>2. NoneInserts
    BY <1>4, <1>17 DEF Crash, NoneInserts
  <2> QED BY <2>1, <2>2, RowsCarried
<1> QED BY <1>5, <1>6, <1>7, <1>8, <1>9, <1>10, <1>11, <1>12, <1>13, <1>14, <1>15, <1>16, <1>17
    DEF Next, IntakeStep, WorkerStep, CacheForgets, StartPass, Post, Elapse, Handle, Lose,
        intakeVars, vars

LEMMA InitRows == Init => RowsInv
BY DEF Init, Opened, NewTables, NoRows, IdleThread, RowsInv, SameRows, NewRowsOwned,
       InsertsNew, Separate

\* The step of the promised outbox that a step of the gateway is
OutboxStep == Outbox!Commit \/ UNCHANGED Outbox!vars

Given == {x \in answered : x[2] # BadRequest}

\* A COMMIT of all that has been written since the last
LEMMA CommitIsCommit ==
    ASSUME IInv, RowsInv, conn'.durable = conn.db, csp' = csp, answered' = answered
    PROVE  Outbox!Commit
<1>1. \A i \in DOMAIN conn.durable.outbox \ DOMAIN conn.db.outbox :
         i \in DOMAIN csp.uplinks \cup DOMAIN conn.db.dead
  BY DEF IInv, NothingLost, Kept, Held
<1>2. ASSUME NEW i \in DOMAIN conn.db.outbox \ DOMAIN conn.durable.outbox
      PROVE  i \notin DOMAIN conn.durable.dead /\ \A x \in Given : x[2] # i
  <2>1. PICK t \in Threads : intake[t].pc = "commit" /\ intake[t].id = i
    BY DEF RowsInv, NewRowsOwned
  <2>2. \A x \in answered : x[2] # i
    BY <2>1 DEF IInv, Fresh, Naming
  <2>3. i \notin DOMAIN conn.durable.dead
    BY DEF RowsInv, SameRows, Separate
  <2> QED BY <2>2, <2>3 DEF Given
<1> QED BY <1>1, <1>2 DEF RowsInv, SameRows, Separate, Outbox!Commit, Given

LEMMA DeadLetterIsCommit ==
    ASSUME IInv, RowsInv, DeadLetter
    PROVE  OutboxStep
<1> DEFINE old == conn.durable
           id == Current
<1>1. conn'.durable = DeadLettered(old, id) /\ csp' = csp /\ answered' = answered
  BY DeadLetterRows DEF DeadLetter, intakeVars
<1>2. TableShape(old) /\ Separate(old)
  BY DEF IInv, Shape, ConnShape, RowsInv
<1> HIDE DEF id
<1>3. CASE id \notin DOMAIN old.outbox
  BY <1>1, <1>3 DEF DeadLettered, OutboxStep, Outbox!vars
<1>4. CASE id \in DOMAIN old.outbox
  <2>1. /\ conn'.durable.outbox = Without(old.outbox, id)
        /\ conn'.durable.dead = With(old.dead, id, old.outbox[id])
    BY <1>1, <1>2, <1>4 DEF DeadLettered, TableShape
  <2>2. /\ DOMAIN Without(old.outbox, id) = DOMAIN old.outbox \ {id}
        /\ \A i \in DOMAIN old.outbox \ {id} : Without(old.outbox, id)[i] = old.outbox[i]
    BY DEF Without
  <2>3. /\ DOMAIN With(old.dead, id, old.outbox[id]) = {id} \cup DOMAIN old.dead
        /\ With(old.dead, id, old.outbox[id])[id] = old.outbox[id]
        /\ \A i \in DOMAIN old.dead \ {id} : With(old.dead, id, old.outbox[id])[i] = old.dead[i]
    BY DEF With
  <2>4. Outbox!Commit
    BY <1>1, <1>2, <1>4, <2>1, <2>2, <2>3 DEF Separate, Outbox!Commit
  <2> QED BY <2>4 DEF OutboxStep
<1> QED BY <1>3, <1>4

\* A thread answers what it has committed, with an id no answer has had.
LEMMA AcceptIsAnswer ==
    ASSUME IInv, TInv, NEW t \in Threads, Accept(t),
           NEW CONSTANT r, r = intake[t].request, NEW CONSTANT i, i = intake[t].id
    PROVE  Outbox!Answer(r, i)
<1>1. /\ intake[t].pc = "store" /\ UNCHANGED <<conn, csp>>
      /\ answered' = answered \cup {<<r, i>>}
  BY DEF Accept, CacheAndAnswer, Answer, cloudVars
<1>2. i # BadRequest
  BY <1>1 DEF IInv, ThreadIds, HasId, Naming, BadRequest
<1>3. i \in DOMAIN conn.durable.outbox \cup DOMAIN conn.durable.dead \cup DOMAIN csp.uplinks
  BY <1>1 DEF IInv, ThreadIds, HasId, Held
<1>4. \A x \in answered : x[2] # i
  BY <1>1 DEF IInv, Fresh, Naming
<1>5. Given' = Given \cup {<<r, i>>}
  BY <1>1, <1>2 DEF Given
<1> QED BY <1>1, <1>3, <1>4, <1>5 DEF Outbox!Answer, Given

\* The cloud stores a packet it has not, or stores nothing.
LEMMA HandleIsIngest ==
    ASSUME TInv, NEW m \in wire, Handle(m)
    PROVE  Outbox!Ingest(m.id, m.packet) \/ UNCHANGED Outbox!vars
<1>1. csp' = Ingested(csp, m.id, m.packet) /\ conn' = conn /\ answered' = answered
  BY DEF Handle, intakeVars
<1>2. CASE m.id \in DOMAIN csp.uplinks
  BY <1>1, <1>2 DEF Ingested, Outbox!vars
<1>3. CASE m.id \notin DOMAIN csp.uplinks
  <2>1. csp'.uplinks = [j \in {m.id} \cup DOMAIN csp.uplinks |->
                          IF j = m.id THEN m.packet ELSE csp.uplinks[j]]
    BY <1>1, <1>3 DEF Ingested
  <2> QED BY <1>1, <1>3, <2>1 DEF Outbox!Ingest
<1> QED BY <1>2, <1>3

\* Every step of the gateway is one of the promised outbox, or none.
LEMMA OutboxSimulated ==
    ASSUME IInv, TInv, RowsInv, [Next]_vars
    PROVE  Outbox!Next \/ UNCHANGED Outbox!vars
<1>1. ConnShape
  BY DEF IInv, Shape
<1>2. ASSUME conn'.durable = conn.durable, csp' = csp, Given' = Given
      PROVE  UNCHANGED Outbox!vars
  BY <1>2 DEF Outbox!vars, Given
<1>3. ASSUME NEW t \in Threads, Accept(t)
      PROVE  Outbox!Next
  <2>1. intake[t].pc = "store" /\ intake[t] # IdleThread
    BY <1>3 DEF Accept, IdleThread
  <2>2. PICK r \in Requests, i \in Ids : r = intake[t].request /\ i = intake[t].id
    BY <2>1 DEF TInv, ThreadsTyped, IInv, ThreadIds, HasId, Naming, BadRequest
  <2>3. Outbox!Answer(r, i)
    BY <1>3, <2>2, AcceptIsAnswer
  <2> QED BY <2>2, <2>3 DEF Outbox!Next
<1>4. ASSUME NEW t \in Threads, Refuse(t)
      PROVE  UNCHANGED Outbox!vars
  <2>1. answered' = answered \cup {<<intake[t].request, BadRequest>>} /\ conn' = conn /\ csp' = csp
    BY <1>4 DEF Refuse, CacheAndAnswer, Answer, cloudVars
  <2> QED BY <1>2, <2>1 DEF Given
<1>5. ASSUME NEW t \in Threads, NEW r \in Requests, Receive(t, r)
      PROVE  UNCHANGED Outbox!vars
  <2>1. answered' = answered
    BY <1>5 DEF Receive, Answer, IInv, CacheAnswered
  <2> QED BY <1>2, <1>5, <2>1 DEF Receive, cloudVars, Given
<1>6. ASSUME NEW t \in Threads, Commit(t)
      PROVE  Outbox!Next
  BY <1>1, <1>6, Connection, CommitIsCommit DEF Commit, cloudVars, Outbox!Next
<1>7. CASE CommitWrite
  BY <1>1, <1>7, Connection, CommitIsCommit DEF CommitWrite, cloudVars, intakeVars, Outbox!Next
<1>8. CASE DeadLetter
  BY <1>8, DeadLetterIsCommit DEF OutboxStep, Outbox!Next
<1>9. ASSUME NEW m \in wire, Handle(m)
      PROVE  Outbox!Next \/ UNCHANGED Outbox!vars
  <2>1. m.id \in Ids /\ m.packet \in Packet
    BY <1>9 DEF TInv, WireTyped
  <2> QED BY <1>9, <2>1, HandleIsIngest DEF Outbox!Next
<1>10. ASSUME NEW t \in Threads, Begin(t) \/ UpsertNode(t) \/ AllocateId(t) \/ Insert(t)
                                 \/ StatementFails(t)
      PROVE  UNCHANGED Outbox!vars
  <2>1. \/ conn' \in {RolledBack(conn), Begun(conn)}
        \/ \E tables : conn' = Executed(conn, tables)
    BY <1>10 DEF Begin, UpsertNode, AllocateId, Insert, Statement, StatementFails
  <2>2. conn'.durable = conn.durable
    BY <1>1, <2>1, Connection
  <2>3. csp' = csp /\ answered' = answered
    BY <1>10 DEF Begin, UpsertNode, AllocateId, Insert, Statement, StatementFails, cloudVars
  <2> QED BY <1>2, <2>2, <2>3 DEF Given
<1>11. CASE MarkRetry \/ Delete \/ Crash
  <2>1. conn' = RolledBack(conn) \/ \E tables : conn' = Executed(conn, tables)
    BY <1>11 DEF MarkRetry, Delete, Crash
  <2>2. conn'.durable = conn.durable
    BY <1>1, <2>1, Connection
  <2>3. csp' = csp /\ answered' = answered
    BY <1>11 DEF MarkRetry, Delete, Crash, cloudVars, intakeVars
  <2> QED BY <1>2, <2>2, <2>3 DEF Given
<1>12. CASE UNCHANGED <<conn, csp, answered>>
  BY <1>2, <1>12 DEF Given
<1> QED BY <1>3, <1>4, <1>5, <1>6, <1>7, <1>8, <1>9, <1>10, <1>11, <1>12
    DEF Next, IntakeStep, WorkerStep, CacheForgets, StartPass, Post, Elapse, Lose,
        intakeVars, workerVars, cloudVars, vars

LEMMA InitOutbox == Init => Outbox!Init
BY DEF Init, Opened, NewTables, NoRows, EmptyCsp, Outbox!Init

----------------------------------------------------------------------------
(* What AcceptedIsKept takes to fail.  As long as no statement fails and the *)
(* process is not killed, every place that has an uplink_id has the same     *)
(* packet with it: ids are taken by threads only, from the open sequence, and *)
(* the rollbacks left - of a BEGIN that finds the main thread's write - take *)
(* back no id.                                                               *)

OfRows(rows, i, p) == i \in DOMAIN rows /\ rows[i] = p
OfTables(t, i, p) == OfRows(t.outbox, i, p) \/ OfRows(t.dead, i, p)
Taken(i, p) ==
    \E t \in Threads : intake[t].pc \in Naming /\ intake[t].id = i /\ intake[t].request = p
Said(i, p) == \E x \in answered : x[2] = i /\ x[1] = p /\ i # BadRequest

IsNamed(i, p) ==
    \/ OfTables(conn.db, i, p) \/ OfTables(conn.durable, i, p)
    \/ OfRows(csp.uplinks, i, p)
    \/ OfRows(worker.batch, i, p)
    \/ \E m \in wire : m.id = i /\ m.packet = p
    \/ Taken(i, p) \/ Said(i, p)

OnePacketPerId ==
    /\ \A i, p : IsNamed(i, p) => i \in Nat /\ i < conn.db.next
    /\ \A i, p, q : IsNamed(i, p) /\ IsNamed(i, q) => p = q
    /\ LockFree => conn.db.next = conn.durable.next

NInv == faults \in Nat /\ (faults = 0 => OnePacketPerId)

\* Nothing is named that was not before.
Follows == \A i, p : IsNamed(i, p)' => IsNamed(i, p)

LEMMA NamesFollow ==
    ASSUME OnePacketPerId, Follows, conn'.db.next = conn.db.next,
           LockFree' => conn'.db.next = conn'.durable.next
    PROVE  OnePacketPerId'
BY DEF OnePacketPerId, Follows

\* A thread takes the next id for its request.
LEMMA NameTaken ==
    ASSUME OnePacketPerId, conn.db.next \in Nat, ~LockFree', conn'.db.next = conn.db.next + 1, NEW r,
           \A i, p : IsNamed(i, p)' => IsNamed(i, p) \/ (i = conn.db.next /\ p = r)
    PROVE  OnePacketPerId'
BY DEF OnePacketPerId

\* The names of a step that changes threads and answers only, or the connection
\* and threads
LEMMA NamesOfIntake ==
    ASSUME UNCHANGED <<wire, csp, worker>>,
           \A i, p : OfTables(conn'.db, i, p) \/ OfTables(conn'.durable, i, p) => IsNamed(i, p),
           \A i, p : Taken(i, p)' \/ Said(i, p)' => IsNamed(i, p)
    PROVE  Follows
BY DEF Follows, IsNamed

\* Threads other than t go on with the ids they have.
LEMMA TakenByOthers ==
    ASSUME ThreadShape, NEW t \in Threads, NEW step, Go(t, step), NEW i, NEW p, Taken(i, p)'
    PROVE  Taken(i, p) \/ (step.pc \in Naming /\ step.id = i /\ step.request = p)
<1>1. PICK u \in Threads : intake'[u].pc \in Naming /\ intake'[u].id = i /\ intake'[u].request = p
  BY DEF Taken
<1>2. intake'[u] = IF u = t THEN step ELSE intake[u]
  BY DEF Go, ThreadShape
<1> QED BY <1>1, <1>2 DEF Taken

LEMMA NamesOfThread ==
    ASSUME IInv, TInv, OnePacketPerId, NEW t \in Threads, IntakeStep(t)
    PROVE  OnePacketPerId'
<1>1. ConnShape /\ ThreadShape
  BY DEF IInv, Shape
<1>2. UNCHANGED <<wire, csp, worker>>
  BY DEF IntakeStep, Refuse, Begin, UpsertNode, AllocateId, Insert, Commit, Accept, Statement,
         cloudVars, workerVars
<1>3. ASSUME NEW step, Go(t, step), ~(step.pc \in Naming), answered' = answered
      PROVE  \A i, p : Taken(i, p)' \/ Said(i, p)' => IsNamed(i, p)
  BY <1>1, <1>3, TakenByOthers DEF IsNamed, Said
<1>4. ASSUME NEW pc, intake[t].pc \notin {"idle", "refuse"}
      PROVE  /\ [intake[t] EXCEPT !.pc = pc].pc = pc
             /\ [intake[t] EXCEPT !.pc = pc].id = intake[t].id
             /\ [intake[t] EXCEPT !.pc = pc].request = intake[t].request
  BY <1>4 DEF TInv, ThreadsTyped, IdleThread
<1>5. ~(IdleThread.pc \in Naming)
  BY DEF IdleThread, Naming
<1>6. CASE Refuse(t)
  <2>1. /\ Go(t, IdleThread) /\ conn' = conn
        /\ answered' = answered \cup {<<intake[t].request, BadRequest>>}
        /\ ~InTransaction(t)
    BY <1>6 DEF Refuse, CacheAndAnswer, Answer, InTransaction
  <2>2. \A i, p : Taken(i, p)' \/ Said(i, p)' => IsNamed(i, p)
    BY <1>1, <1>5, <2>1, TakenByOthers DEF IsNamed, Said
  <2>3. Follows
    BY <1>2, <2>1, <2>2, NamesOfIntake DEF IsNamed
  <2>4. LockFree' => LockFree
    BY <1>1, <2>1 DEF LockFree, InTransaction, Go, ThreadShape
  <2> QED BY <2>1, <2>3, <2>4, NamesFollow DEF OnePacketPerId
<1>7. CASE Begin(t)
  <2>1. LockFree /\ intake[t].pc = "begin" /\ answered' = answered
    BY <1>7 DEF Begin
  <2>2. \/ conn'.db = conn.db /\ conn'.durable = conn.durable
        \/ conn'.db = conn.durable /\ conn'.durable = conn.durable
    BY <1>1, <1>7, Connection DEF Begin
  <2>3. Go(t, IdleThread) \/ Go(t, [intake[t] EXCEPT !.pc = "node"])
    BY <1>7 DEF Begin
  <2>4. \A i, p : Taken(i, p)' \/ Said(i, p)' => IsNamed(i, p)
    BY <1>3, <1>4, <1>5, <2>1, <2>3 DEF Naming
  <2>5. Follows
    BY <1>2, <2>2, <2>4, NamesOfIntake DEF IsNamed
  <2>6. conn.db.next = conn.durable.next
    BY <2>1 DEF OnePacketPerId
  <2> QED BY <2>2, <2>5, <2>6, NamesFollow
<1>8. CASE UpsertNode(t)
  <2> DEFINE new == NodeSeen(conn.db, NodeOf[intake[t].request])
  <2>1. /\ intake[t].pc = "node" /\ Go(t, [intake[t] EXCEPT !.pc = "allocate"])
        /\ answered' = answered /\ conn' = Executed(conn, new)
    BY <1>8 DEF UpsertNode, Statement
  <2>2. conn'.db = new /\ conn'.durable = conn.durable
    BY <1>1, <2>1, Connection
  <2>3. new.outbox = conn.db.outbox /\ new.dead = conn.db.dead /\ new.next = conn.db.next
    BY <1>1 DEF NodeSeen, ConnShape, TableShape
  <2> HIDE DEF new
  <2>4. \A i, p : Taken(i, p)' \/ Said(i, p)' => IsNamed(i, p)
    BY <1>3, <1>4, <2>1 DEF Naming
  <2>5. Follows
    BY <1>2, <2>2, <2>3, <2>4, NamesOfIntake DEF IsNamed, OfTables
  <2>6. ~LockFree'
    BY <1>1, <1>4, <2>1 DEF LockFree, InTransaction, Go, ThreadShape
  <2> QED BY <2>2, <2>3, <2>5, <2>6, NamesFollow
<1>9. CASE AllocateId(t)
  <2> DEFINE new == IdAllocated(conn.db)
             step == [intake[t] EXCEPT !.pc = "insert", !.id = conn.db.next]
             r == intake[t].request
  <2>1. /\ intake[t].pc = "allocate" /\ Go(t, step)
        /\ answered' = answered /\ conn' = Executed(conn, new)
    BY <1>9 DEF AllocateId, Statement
  <2>2. conn'.db = new /\ conn'.durable = conn.durable
    BY <1>1, <2>1, Connection
  <2>3. new.outbox = conn.db.outbox /\ new.dead = conn.db.dead /\ new.next = conn.db.next + 1
    BY <1>1 DEF IdAllocated, ConnShape, TableShape
  <2>4. step.pc = "insert" /\ step.id = conn.db.next /\ step.request = r
    BY <2>1 DEF TInv, ThreadsTyped, IdleThread
  <2> HIDE DEF new, step, r
  <2>5. \A i, p : Taken(i, p)' => Taken(i, p) \/ (i = conn.db.next /\ p = r)
    BY <1>1, <2>1, <2>4, TakenByOthers
  <2>6. \A i, p : IsNamed(i, p)' => IsNamed(i, p) \/ (i = conn.db.next /\ p = r)
    BY <1>2, <2>1, <2>2, <2>3, <2>5 DEF IsNamed, OfTables, Said
  <2>7. ~LockFree'
    BY <1>1, <2>1, <2>4 DEF LockFree, InTransaction, Go, ThreadShape
  <2>8. conn.db.next \in Nat
    BY <1>1 DEF ConnShape, TableShape
  <2> QED BY <2>2, <2>3, <2>6, <2>7, <2>8, NameTaken
<1>10. CASE Insert(t)
  <2> DEFINE id == intake[t].id
             r == intake[t].request
             new == Enqueued(conn.db, id, r)
             step == [intake[t] EXCEPT !.pc = "commit"]
  <2>1. /\ intake[t].pc = "insert" /\ Go(t, step)
        /\ answered' = answered /\ conn' = Executed(conn, new)
    BY <1>10 DEF Insert, Statement
  <2>2. step.pc = "commit" /\ step.id = id /\ step.request = r
    BY <1>4, <2>1
  <2>3. conn'.db = new /\ conn'.durable = conn.durable
    BY <1>1, <2>1, Connection
  <2>4. /\ new.dead = conn.db.dead /\ new.next = conn.db.next
        /\ \A i, p : OfRows(new.outbox, i, p) => OfRows(conn.db.outbox, i, p) \/ (i = id /\ p = r)
    BY <1>1 DEF Enqueued, With, ConnShape, TableShape, OfRows
  <2>5. Taken(id, r)
    BY <2>1 DEF Taken, Naming
  <2> HIDE DEF id, r, new, step
  <2>6. \A i, p : Taken(i, p)' \/ Said(i, p)' => IsNamed(i, p)
    BY <1>1, <2>1, <2>2, <2>5, TakenByOthers DEF IsNamed, Said
  <2>7. Follows
    BY <1>2, <2>3, <2>4, <2>5, <2>6, NamesOfIntake DEF IsNamed, OfTables
  <2>8. ~LockFree'
    BY <1>1, <2>1, <2>2 DEF LockFree, InTransaction, Go, ThreadShape
  <2> QED BY <2>3, <2>4, <2>7, <2>8, NamesFollow
<1>11. CASE Commit(t)
  <2> DEFINE step == [intake[t] EXCEPT !.pc = "store"]
  <2>1. intake[t].pc = "commit" /\ Go(t, step) /\ answered' = answered
    BY <1>11 DEF Commit
  <2>2. step.pc = "store" /\ step.id = intake[t].id /\ step.request = intake[t].request
    BY <1>4, <2>1
  <2>3. conn'.db = conn.db /\ conn'.durable = conn.db
    BY <1>1, <1>11, Connection DEF Commit
  <2>4. Taken(intake[t].id, intake[t].request)
    BY <2>1 DEF Taken, Naming
  <2> HIDE DEF step
  <2>5. \A i, p : Taken(i, p)' \/ Said(i, p)' => IsNamed(i, p)
    BY <1>1, <2>1, <2>2, <2>4, TakenByOthers DEF IsNamed, Said
  <2>6. Follows
    BY <1>2, <2>3, <2>5, NamesOfIntake DEF IsNamed
  <2> QED BY <2>3, <2>6, NamesFollow
<1>12. CASE Accept(t)
  <2>1. /\ Go(t, IdleThread) /\ conn' = conn /\ intake[t].pc = "store"
        /\ answered' = answered \cup {<<intake[t].request, intake[t].id>>}
    BY <1>12 DEF Accept, CacheAndAnswer, Answer
  <2>2. Taken(intake[t].id, intake[t].request)
    BY <2>1 DEF Taken, Naming
  <2>3. \A i, p : Taken(i, p)' \/ Said(i, p)' => IsNamed(i, p)
    BY <1>1, <1>5, <2>1, <2>2, TakenByOthers DEF IsNamed, Said
  <2>4. Follows
    BY <1>2, <2>1, <2>3, NamesOfIntake DEF IsNamed
  <2>5. LockFree' => LockFree
    BY <1>1, <2>1 DEF LockFree, InTransaction, Go, ThreadShape
  <2> QED BY <2>1, <2>4, <2>5, NamesFollow DEF OnePacketPerId
<1> QED BY <1>6, <1>7, <1>8, <1>9, <1>10, <1>11, <1>12 DEF IntakeStep

LEMMA NamesOfReceive ==
    ASSUME IInv, OnePacketPerId, NEW t \in Threads, NEW r \in Requests, Receive(t, r)
    PROVE  OnePacketPerId'
<1>1. ThreadShape
  BY DEF IInv, Shape
<1>2. answered' = answered /\ UNCHANGED <<conn, wire, csp, worker>> /\ intake[t].pc = "idle"
  BY DEF Receive, Answer, IInv, CacheAnswered, cloudVars, workerVars
<1>3. PICK step : Go(t, step) /\ ~(step.pc \in Naming)
  BY DEF Receive, Answer, At, IdleThread, Naming
<1>4. \A i, p : Taken(i, p)' \/ Said(i, p)' => IsNamed(i, p)
  BY <1>1, <1>2, <1>3, TakenByOthers DEF IsNamed, Said
<1>5. Follows
  BY <1>2, <1>4, NamesOfIntake DEF IsNamed
<1>6. LockFree' => LockFree
  BY <1>1, <1>2, <1>3 DEF LockFree, InTransaction, Go, ThreadShape
<1> QED BY <1>2, <1>5, <1>6, NamesFollow DEF OnePacketPerId

\* Where threads and answers stay as they are
LEMMA NamesOfPass ==
    ASSUME OnePacketPerId, UNCHANGED <<intake, answered>>, conn'.db.next = conn.db.next,
           conn'.durable.next \in {conn.durable.next, conn.db.next},
           \A i, p : OfTables(conn'.db, i, p) \/ OfTables(conn'.durable, i, p) => IsNamed(i, p),
           \A i, p : OfRows(csp'.uplinks, i, p) \/ OfRows(worker'.batch, i, p) => IsNamed(i, p),
           \A m \in wire' : IsNamed(m.id, m.packet)
    PROVE  OnePacketPerId'
<1>1. \A i, p : Taken(i, p)' \/ Said(i, p)' => IsNamed(i, p)
  BY DEF Taken, Said, IsNamed
<1>2. Follows
  BY <1>1 DEF Follows, IsNamed
<1>3. LockFree' => conn'.db.next = conn'.durable.next
  BY DEF LockFree, InTransaction, OnePacketPerId
<1> QED BY <1>2, <1>3, NamesFollow

LEMMA NamesOfWorker ==
    ASSUME IInv, TInv, OnePacketPerId,
           WorkerStep \/ DeadLetter \/ \E m \in wire : Handle(m) \/ Lose(m)
    PROVE  OnePacketPerId'
<1>1. ConnShape
  BY DEF IInv, Shape
<1>2. \A m \in wire : IsNamed(m.id, m.packet)
  BY DEF IsNamed
<1>3. \A i, p : OfTables(conn.db, i, p) \/ OfTables(conn.durable, i, p) => IsNamed(i, p)
  BY DEF IsNamed
<1>4. \A i, p : OfRows(csp.uplinks, i, p) \/ OfRows(worker.batch, i, p) => IsNamed(i, p)
  BY DEF IsNamed
<1>5. \A rows, id, i, p : OfRows(Without(rows, id), i, p) => OfRows(rows, i, p)
  BY DEF OfRows, Without
<1>6. CASE StartPass
  <2>1. UNCHANGED <<intake, answered, conn, csp, wire>>
    BY <1>6 DEF StartPass, intakeVars, cloudVars
  <2>2. worker'.batch = [i \in Batch |-> conn.db.outbox[i]]
    BY <1>6 DEF StartPass
  <2>3. \A i, p : OfRows(worker'.batch, i, p) => IsNamed(i, p)
    BY <2>2 DEF OfRows, Batch, Due, IsNamed, OfTables
  <2> QED BY <1>2, <1>3, <1>4, <2>1, <2>3, NamesOfPass
<1>7. CASE Post
  <2>1. UNCHANGED <<intake, answered, conn, csp>> /\ wire' = wire \cup {Posted}
        /\ worker'.batch = worker.batch
    BY <1>7 DEF Post, WorkerAt, intakeVars, IInv, Shape
  <2>2. Current \in DOMAIN worker.batch
    BY <1>7, CurrentRecord DEF Post, TInv
  <2>3. IsNamed(Posted.id, Posted.packet)
    BY <2>2 DEF Posted, IsNamed, OfRows
  <2>4. \A m \in wire' : IsNamed(m.id, m.packet)
    BY <1>2, <2>1, <2>3
  <2> QED BY <1>3, <1>4, <2>1, <2>4, NamesOfPass
<1>8. CASE MarkRetry \/ Delete
  <2>1. UNCHANGED <<intake, answered, csp, wire>> /\ worker'.batch = worker.batch
    BY <1>8 DEF MarkRetry, Delete, WorkerAt, intakeVars, cloudVars, IInv, Shape
  <2>2. \E new \in {conn.db, Deleted(conn.db, Current)} : conn' = Executed(conn, new)
    BY <1>8 DEF MarkRetry, Delete
  <2>3. conn'.durable = conn.durable /\ conn'.db \in {conn.db, Deleted(conn.db, Current)}
    BY <1>1, <2>2, Connection
  <2>4. /\ Deleted(conn.db, Current).dead = conn.db.dead
        /\ Deleted(conn.db, Current).outbox = Without(conn.db.outbox, Current)
        /\ Deleted(conn.db, Current).next = conn.db.next
    BY <1>1 DEF Deleted, ConnShape, TableShape
  <2>5. \A i, p : OfTables(conn'.db, i, p) => OfTables(conn.db, i, p)
    BY <1>5, <2>3, <2>4 DEF OfTables
  <2>6. conn'.db.next = conn.db.next
    BY <2>3, <2>4
  <2> QED BY <1>2, <1>3, <1>4, <2>1, <2>3, <2>5, <2>6, NamesOfPass
<1>9. CASE CommitWrite
  <2>1. UNCHANGED <<intake, answered, csp, wire>>
    BY <1>9 DEF CommitWrite, intakeVars, cloudVars
  <2>2. worker'.batch = Without(worker.batch, Current)
    BY <1>9 DEF CommitWrite, NextRecord
  <2>3. conn'.durable = conn.db /\ conn'.db = conn.db
    BY <1>1, <1>9, Connection DEF CommitWrite
  <2> QED BY <1>2, <1>3, <1>4, <1>5, <2>1, <2>2, <2>3, NamesOfPass
<1>10. CASE DeadLetter
  <2> DEFINE new == DeadLettered(conn.db, Current)
  <2>1. UNCHANGED <<intake, answered, csp>> /\ wire' \subseteq wire
    BY <1>10 DEF DeadLetter, intakeVars
  <2>2. worker'.batch = Without(worker.batch, Current)
    BY <1>10 DEF DeadLetter, NextRecord
  <2>3. conn' = Committed(Executed(conn, new))
    BY <1>10 DEF DeadLetter
  <2>4. /\ new.next = conn.db.next
        /\ \A i, p : OfTables(new, i, p) => OfTables(conn.db, i, p)
    <3>1. CASE Current \notin DOMAIN conn.db.outbox
      BY <3>1 DEF DeadLettered
    <3>2. CASE Current \in DOMAIN conn.db.outbox
      <4> DEFINE id == Current
      <4>1. /\ new.outbox = Without(conn.db.outbox, id) /\ new.next = conn.db.next
            /\ new.dead = With(conn.db.dead, id, conn.db.outbox[id])
        BY <1>1, <3>2 DEF DeadLettered, ConnShape, TableShape
      <4> HIDE DEF id, new
      <4>2. \A i, p : OfRows(With(conn.db.dead, id, conn.db.outbox[id]), i, p) =>
              OfRows(conn.db.dead, i, p) \/ (i = id /\ p = conn.db.outbox[id])
        BY DEF With, OfRows
      <4>3. \A i, p : OfTables(new, i, p) => OfTables(conn.db, i, p)
        BY <1>5, <3>2, <4>1, <4>2 DEF OfTables, OfRows, id
      <4> QED BY <4>1, <4>3
    <3> QED BY <3>1, <3>2
  <2> HIDE DEF new
  <2>5. conn'.db = new /\ conn'.durable = new
    <3> DEFINE c == Executed(conn, new)
    <3>1. c.db = new /\ {"durable", "db", "inTx"} \subseteq DOMAIN c
      BY <1>1 DEF Executed, ConnShape
    <3>2. conn' = Committed(c)
      BY <2>3
    <3> HIDE DEF c
    <3> QED BY <3>1, <3>2 DEF Committed
  <2> QED BY <1>2, <1>3, <1>4, <1>5, <2>1, <2>2, <2>4, <2>5, NamesOfPass
<1>11. ASSUME NEW m \in wire, Handle(m)
       PROVE  OnePacketPerId'
  <2>1. UNCHANGED <<intake, answered, conn>> /\ wire' = wire \ {m}
        /\ csp' = Ingested(csp, m.id, m.packet)
    BY <1>11 DEF Handle, intakeVars
  <2>2. worker'.batch = worker.batch
    BY <1>11 DEF Handle, IInv, Shape
  <2>3. \A i, p : OfRows(csp'.uplinks, i, p) =>
           OfRows(csp.uplinks, i, p) \/ (i = m.id /\ p = m.packet)
    BY <2>1 DEF Ingested, OfRows
  <2> QED BY <1>2, <1>3, <1>4, <2>1, <2>2, <2>3, NamesOfPass
<1>12. ASSUME NEW m \in wire, Lose(m)
       PROVE  OnePacketPerId'
  <2>1. UNCHANGED <<intake, answered, conn, csp, worker>> /\ wire' \subseteq wire
    BY <1>12 DEF Lose, intakeVars, workerVars
  <2> QED BY <1>2, <1>3, <1>4, <2>1, NamesOfPass
<1> QED BY <1>6, <1>7, <1>8, <1>9, <1>10, <1>11, <1>12 DEF WorkerStep

LEMMA NamesStep ==
    ASSUME IInv, TInv, NInv, [Next]_vars
    PROVE  NInv'
<1>1. faults \in Nat
  BY DEF NInv
<1>2. ASSUME UNCHANGED <<conn, intake, answered, csp, wire, worker>>, OnePacketPerId
      PROVE  OnePacketPerId'
  BY <1>2, NamesOfPass DEF IsNamed
<1>3. CASE Crash \/ \E t \in Threads : StatementFails(t)
  BY <1>1, <1>3 DEF Crash, StatementFails, NInv
<1>4. CASE (\E r \in Requests : CacheForgets(r)) \/ (\E i \in later : Elapse(i)) \/ UNCHANGED vars
  <2>1. UNCHANGED <<conn, intake, answered, csp, wire, worker, faults>>
    BY <1>4 DEF CacheForgets, Elapse, vars, workerVars, cloudVars, intakeVars
  <2> QED BY <1>2, <2>1 DEF NInv
<1>5. ASSUME NEW t \in Threads, IntakeStep(t)
      PROVE  NInv'
  <2>1. faults' = faults
    BY <1>5 DEF IntakeStep, Refuse, Begin, UpsertNode, AllocateId, Insert, Commit, Accept, Statement
  <2> QED BY <1>5, <2>1, NamesOfThread DEF NInv
<1>6. ASSUME NEW t \in Threads, NEW r \in Requests, Receive(t, r)
      PROVE  NInv'
  <2>1. faults' = faults
    BY <1>6 DEF Receive
  <2> QED BY <1>6, <2>1, NamesOfReceive DEF NInv
<1>7. CASE WorkerStep \/ DeadLetter \/ \E m \in wire : Handle(m) \/ Lose(m)
  <2>1. faults' = faults
    BY <1>7 DEF WorkerStep, StartPass, Post, MarkRetry, Delete, CommitWrite, DeadLetter, Handle, Lose
  <2> QED BY <1>7, <2>1, NamesOfWorker DEF NInv
<1> QED BY <1>3, <1>4, <1>5, <1>6, <1>7 DEF Next

LEMMA InitNames == Init => NInv
<1> SUFFICES ASSUME Init PROVE NInv
  OBVIOUS
<1>1. \A i, p : ~IsNamed(i, p)
  BY DEF Init, Opened, NewTables, NoRows, IdleThread, IdleWorker, EmptyCsp, IsNamed, OfTables,
         OfRows, Taken, Said, Naming
<1>2. conn.db.next = conn.durable.next
  BY DEF Init, Opened
<1>3. OnePacketPerId
  BY <1>1, <1>2 DEF OnePacketPerId
<1> QED BY <1>3 DEF Init, NInv

----------------------------------------------------------------------------
(* The theorems.                                                           *)

\* The invariant holds at the start.
LEMMA InitInv == Init => IInv
<1> SUFFICES ASSUME Init PROVE IInv
  OBVIOUS
<1> USE DEF Init, Opened, NewTables, NoRows, IdleThread, IdleWorker, Nothing, EmptyCsp
<1>1. Good
  BY DEF Good, ConnShape, TableShape, NothingLost, Kept, Held
<1>2. ThreadShape /\ OneTransaction /\ {"pc", "batch"} \subseteq DOMAIN worker /\ ReceiptIsReal
  BY DEF ThreadShape, OneTransaction, InTransaction, ReceiptIsReal
<1>3. NoStrayTransaction
  BY DEF NoStrayTransaction
<1>4. ThreadIds /\ Distinct /\ Fresh
  BY DEF ThreadIds, HasId, Distinct, Fresh, Naming
<1>5. AnswersHeld /\ CacheAnswered /\ IdAnswersOneRequest
  BY DEF AnswersHeld, CacheAnswered, IdAnswersOneRequest
<1> QED BY <1>1, <1>2, <1>3, <1>4, <1>5 DEF IInv, Shape, Good

\* Every step keeps it.
LEMMA StepInv == IInv /\ [Next]_vars => IInv'
<1> SUFFICES ASSUME IInv, [Next]_vars PROVE IInv'
  OBVIOUS
<1> USE DEF IInv, Shape
<1>1. Good
  BY DEF Good
<1>2. Good'
  BY <1>1, StoreStep
<1>3. ThreadShape' /\ OneTransaction'
  BY ThreadShapeStep, OneTransactionStep
<1>4. ReceiptIsReal' /\ {"pc", "batch"} \subseteq DOMAIN worker'
  BY ReceiptStep
<1>5. NoStrayTransaction'
  BY <1>1, NoStrayStep
<1>6. ThreadIds' /\ Distinct' /\ Fresh'
  BY <1>1, ThreadIdsStep, DistinctStep, FreshStep
<1>7. AnswersHeld' /\ CacheAnswered' /\ IdAnswersOneRequest'
  BY <1>1, AnswersHeldStep, CacheStep, OneRequestStep
<1> QED BY <1>2, <1>3, <1>4, <1>5, <1>6, <1>7 DEF Good

\* The invariant holds for ever.
THEOREM UplinkInvariant == Spec => []IInv
<1> QED BY InitInv, StepInv, PTL DEF Spec

\* Rows, threads and the pass keep the values the code gives them, and no more
\* ids are taken than requests arrived, for every number of threads and faults.
THEOREM UplinkTypeCorrect == Spec => []TypeOK
<1>1. IInv /\ TInv /\ [Next]_vars => TInv'
  BY StepTInv
<1>2. IInv /\ TInv => TypeOK
  BY TypesFollow
<1> QED BY <1>1, <1>2, InitTInv, UplinkInvariant, PTL DEF Spec

\* A transaction is open only under the lock or between the main thread's
\* write and its commit, whoever rolled back or committed whose statements.
THEOREM UplinkNoStray == Spec => []NoStrayTransaction
<1>1. IInv => NoStrayTransaction
  BY DEF IInv
<1> QED BY <1>1, UplinkInvariant, PTL

\* An id a node was answered with is on disk or at the cloud and is not given
\* out again, for every number of threads, copies and crashes.
THEOREM UplinkAnsweredIsDurable == Spec => []AnsweredIsDurable
<1>1. IInv => AnsweredIsDurable
  BY DEF IInv, AnswersHeld, Held, AnsweredIsDurable
<1> QED BY <1>1, UplinkInvariant, PTL

\* No id is the answer to two requests.
THEOREM UplinkIdAnswersOne == Spec => []IdAnswersOneRequest
<1>1. IInv => IdAnswersOneRequest
  BY DEF IInv
<1> QED BY <1>1, UplinkInvariant, PTL

\* A row leaves the outbox on disk for the cloud's receipt or for the dead
\* letters only.
THEOREM UplinkRowLeaves == Spec => RowLeavesForAReason
<1>1. ASSUME IInv, [Next]_vars
      PROVE  [\A i \in DOMAIN conn.durable.outbox \ DOMAIN conn'.durable.outbox :
                i \in DOMAIN csp.uplinks \/ i \in DOMAIN conn'.durable.dead]_vars
  <2>1. DiskKept
    BY <1>1, StoreStep DEF IInv, Shape, Good
  <2>2. conn'.durable = conn.durable \/ csp' = csp
    BY <1>1 DEF Next, IntakeStep, WorkerStep, Refuse, Begin, UpsertNode, AllocateId, Insert,
       Commit, Accept, Statement, Receive, StatementFails, CacheForgets, StartPass, Post,
       MarkRetry, Delete, CommitWrite, DeadLetter, Elapse, Handle, Lose, Crash, cloudVars, vars
  <2> QED BY <2>1, <2>2 DEF DiskKept, Held
<1> QED BY <1>1, UplinkInvariant, PTL DEF Spec, RowLeavesForAReason

\* Whatever the threads write, commit, roll back and lose on the one
\* connection: the disk, the cloud and the answers together behave as the
\* outbox of GatewayOutbox, for every number of threads, packets and faults.
THEOREM UplinkImplementsOutbox == Spec => ImplementsOutbox
<1>1. IInv /\ TInv /\ [Next]_vars => TInv'
  BY StepTInv
<1>2. IInv /\ TInv /\ RowsInv /\ [Next]_vars => RowsInv'
  BY RowsStep
<1>3. IInv /\ TInv /\ RowsInv /\ [Next]_vars => [Outbox!Next]_(Outbox!vars)
  BY OutboxSimulated
<1> QED BY <1>1, <1>2, <1>3, InitTInv, InitRows, InitOutbox, UplinkInvariant, PTL
      DEF Spec, ImplementsOutbox, Outbox!Spec

\* What a node was told is kept is kept, with its own packet, as long as no
\* statement failed and the process was not killed: the finding of the run
\* MCGatewayUplinkReuse takes a fault, and nothing else can bring it about.
THEOREM UplinkKeptWithoutFaults == Spec => [](faults = 0 => AcceptedIsKept)
<1>1. IInv /\ TInv /\ [Next]_vars => TInv'
  BY StepTInv
<1>2. IInv /\ TInv /\ NInv /\ [Next]_vars => NInv'
  BY NamesStep
<1>3. IInv /\ NInv => (faults = 0 => AcceptedIsKept)
  <2> SUFFICES ASSUME IInv, NInv, faults = 0, NEW x \in answered, x[2] # BadRequest
               PROVE  \E rows \in {conn.durable.outbox, conn.durable.dead, csp.uplinks} :
                          x[2] \in DOMAIN rows /\ rows[x[2]] = x[1]
    BY DEF AcceptedIsKept
  <2>1. PICK rows \in {conn.durable.outbox, conn.durable.dead, csp.uplinks} : x[2] \in DOMAIN rows
    BY DEF IInv, AnswersHeld, Held
  <2>2. IsNamed(x[2], rows[x[2]]) /\ IsNamed(x[2], x[1])
    BY <2>1 DEF IsNamed, OfTables, OfRows, Said
  <2> QED BY <2>1, <2>2 DEF NInv, OnePacketPerId
<1> QED BY <1>1, <1>2, <1>3, InitTInv, InitNames, UplinkInvariant, PTL DEF Spec
=============================================================================
