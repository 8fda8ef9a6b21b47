----------------------- MODULE GatewayDownlinkProofs -----------------------
(***************************************************************************)
(* The gateway answers for a downlink once, and the cloud records what it  *)
(* answered, for every number of downlinks, threads and faults.            *)
(***************************************************************************)
EXTENDS GatewayDownlink, TLAPS

USE DispatchAssumption, GatewayAssumption DEF DispatchAssumption, GatewayAssumption

\* _inflight names exactly the threads that have acquired and not released, and
\* whoever waits waits for one of them.
Ownership ==
    /\ \A t \in Threads : pc[t] \in Owning => owner[Served(t)] = t
    /\ \A d \in Downlink : owner[d] # None => pc[owner[d]] \in Owning /\ Served(owner[d]) = d
    /\ \A t \in Threads : pc[t] = "wait" => owner[Served(t)] # None

\* SQLiteDatabase._lock
OneTransaction == \A t, u \in Threads : InTransaction(t) /\ InTransaction(u) => t = u

\* An owner on its way to store a result has seen that there is none, and only
\* the row of the thread that is about to commit is not on disk yet.
Fresh == {"process", "exchange", "begin", "insert"}
Storing ==
    /\ \A t \in Threads : pc[t] \in Fresh => conn.db[Served(t)] = NoResult
    /\ \A t \in Threads : pc[t] = "commit" => conn.db[Served(t)] = res[t]
    /\ \A d \in Downlink : conn.db[d] # conn.durable[d] =>
         /\ conn.durable[d] = NoResult
         /\ \E t \in Threads : pc[t] = "commit" /\ Served(t) = d

\* A result is what the store has, unless a fault took it from there.
IsStored(d, result) == result = conn.db[d] \/ d \in lost

Results ==
    /\ \A t \in Threads : pc[t] \in {"release", "respond"} /\ res[t] # NoResult =>
         IsStored(Served(t), res[t])
    /\ dispatch.pc = "apply" => IsStored(dispatch.row, dispatch.result)
    /\ \A d \in Downlink : row[d] \in Statuses => row[d] = conn.db[d].status \/ d \in lost

\* An acknowledged downlink has its result stored or about to be.
Acknowledged ==
    \A d \in acked \ lost : \/ conn.db[d] # NoResult
                            \/ \E t \in Threads : pc[t] \in {"begin", "insert"} /\ Served(t) = d

Delivered ==
    /\ \A t \in Threads : pc[t] # "idle" /\ res[t].status = "delivered" => Served(t) \in acked
    /\ \A d \in Downlink : conn.db[d].status = "delivered" => d \in acked
    /\ \A d \in Downlink : conn.durable[d].status = "delivered" => d \in acked
    /\ dispatch.result.status = "delivered" => dispatch.row \in acked
    /\ \A d \in Downlink : row[d] = "delivered" => d \in acked

\* A thread has a result from the moment it comes to one.
Concluded ==
    \A t \in Threads :
      /\ pc[t] \notin {"begin", "insert", "commit", "release", "respond"} => res[t] = NoResult
      /\ pc[t] \in {"begin", "insert", "commit"} => res[t] # NoResult

IInv ==
    /\ TypeOK
    /\ Ownership
    /\ OneTransaction
    /\ Storing
    /\ Results
    /\ Acknowledged
    /\ Delivered
    /\ Concluded
\* The stamp of a request is a time the clock has shown.
LEMMA Whole == clock \in 0..MaxClock => WholeSeconds \in 0..MaxClock
<1> SUFFICES ASSUME clock \in 0..MaxClock PROVE WholeSeconds \in 0..MaxClock
  OBVIOUS
<1>1. clock \in Nat /\ clock % 2 \in 0..1 /\ (clock = 0 => clock % 2 = 0)
  OBVIOUS
<1> QED BY <1>1 DEF WholeSeconds

\* Requests nobody listens to any more are requests.
LEMMA AbandonedType ==
    ASSUME GatewayTypeOK, Abandoned
    PROVE  /\ wire' \in SUBSET Requests
           /\ req' \in [Threads -> [downlink : Downlink \cup {None}, live : BOOLEAN, now : 0..MaxClock]]
           /\ \A t \in Threads : req[t] \in Serving => req'[t] \in Serving
<1> DEFINE AnyRequest == [downlink : Downlink \cup {None}, live : BOOLEAN, now : 0..MaxClock]
<1>1. \A m \in Requests : [m EXCEPT !.live = FALSE] \in Requests
  BY DEF Requests
<1>2. wire' \in SUBSET Requests
  BY <1>1 DEF GatewayTypeOK, Abandoned
<1>3. req' = [t \in Threads |-> [req[t] EXCEPT !.live = FALSE]] /\ req \in [Threads -> AnyRequest]
  BY DEF GatewayTypeOK, Abandoned
<1>4. \A q \in AnyRequest : [q EXCEPT !.live = FALSE] \in AnyRequest
  OBVIOUS
<1>5. req' \in [Threads -> AnyRequest]
  <2> HIDE DEF AnyRequest
  <2> QED BY <1>3, <1>4
<1>6. \A q \in Serving : [q EXCEPT !.live = FALSE] \in Serving
  BY DEF Serving
<1> QED BY <1>2, <1>3, <1>5, <1>6

\* The rows and the dispatcher keep their types.
LEMMA CspTypeStep ==
    ASSUME IInv, [Next]_vars
    PROVE  CspTypeOK'
<1> USE DEF IInv, TypeOK, CspTypeOK, GatewayTypeOK, Result, NoResult, Idle, Serving, Served
<1>1. ASSUME NEW d \in Downlink, Queue(d), UNCHANGED <<wire, gatewayVars, faults>>
      PROVE  CspTypeOK'
  BY <1>1 DEF Queue, gatewayVars
<1>2. ASSUME NEW d \in Downlink, MarkFailure(d), UNCHANGED <<wire, gatewayVars, faults>>
      PROVE  CspTypeOK'
  BY <1>2 DEF MarkFailure, FinishRow, gatewayVars
<1>3. ASSUME NEW d \in Downlink, Apply(d), UNCHANGED <<wire, gatewayVars, faults>>
      PROVE  CspTypeOK'
  BY <1>3 DEF Apply, FinishRow, Working, gatewayVars
<1>4. ASSUME NEW claimed \in SUBSET Downlink, Claim(claimed), UNCHANGED <<wire, gatewayVars, faults>>
      PROVE  CspTypeOK'
  BY <1>4 DEF Claim, gatewayVars
<1>5. ASSUME Tick, UNCHANGED <<wire, gatewayVars, faults>>
      PROVE  CspTypeOK'
  BY <1>5 DEF Tick, gatewayVars
<1>6. ASSUME NEW d \in Downlink, Post(d)
      PROVE  CspTypeOK'
  BY <1>6 DEF Post, StartPost, Working, gatewayVars
<1>7. ASSUME NEW d \in Downlink, Disconnected(d) \/ TimedOut(d)
      PROVE  CspTypeOK'
  BY <1>7 DEF Disconnected, TimedOut, NoAnswer, Answered, Abandoned, Working, Waiting, Fault
<1>8. ASSUME DispatcherCrash
      PROVE  CspTypeOK'
  BY <1>8 DEF DispatcherCrash, DispatcherDies, Abandoned, Fault
<1>9. ASSUME NEW m \in wire, NEW t \in Threads, Arrive(m, t)
      PROVE  CspTypeOK'
  BY <1>9 DEF Arrive, Go, cspVars
<1>10. ASSUME NEW t \in Threads, FirstLookup(t) \/ WokenLookup(t) \/ OwnLookup(t)
      PROVE  CspTypeOK'
  BY <1>10 DEF FirstLookup, WokenLookup, OwnLookup, Lookup, Go, cspVars
<1>11. ASSUME NEW t \in Threads, Acquire(t)
      PROVE  CspTypeOK'
  BY <1>11 DEF Acquire, Go, cspVars
<1>12. ASSUME NEW t \in Threads, Process(t)
      PROVE  CspTypeOK'
  BY <1>12 DEF Process, Conclude, Go, cspVars
<1>13. ASSUME NEW t \in Threads, Exchange(t)
      PROVE  CspTypeOK'
  BY <1>13 DEF Exchange, Conclude, Go, Fault, cspVars
<1>14. ASSUME NEW t \in Threads, Begin(t)
      PROVE  CspTypeOK'
  BY <1>14 DEF Begin, Statement, Begun, Go, cspVars
<1>15. ASSUME NEW t \in Threads, Insert(t)
      PROVE  CspTypeOK'
  BY <1>15 DEF Insert, Statement, Executed, Go, cspVars
<1>16. ASSUME NEW t \in Threads, Commit(t)
      PROVE  CspTypeOK'
  BY <1>16 DEF Commit, Statement, Committed, Go, cspVars
<1>17. ASSUME NEW t \in Threads, Release(t)
      PROVE  CspTypeOK'
  BY <1>17 DEF Release, cspVars
<1>18. ASSUME NEW t \in Threads, Respond(t)
      PROVE  CspTypeOK'
  BY <1>18 DEF Respond, Answered, Working, Go
<1>19. ASSUME NEW t \in Threads, DatabaseFails(t)
      PROVE  CspTypeOK'
  BY <1>19 DEF DatabaseFails, Fault, RolledBack, Opened, Go, cspVars
<1>20. ASSUME Crash
      PROVE  CspTypeOK'
  BY <1>20 DEF Crash, Fault, RolledBack, Opened, cspVars
<1>21. ASSUME UNCHANGED vars
      PROVE  CspTypeOK'
  BY <1>21 DEF vars, gatewayVars, cspVars
<1> QED BY <1>1, <1>2, <1>3, <1>4, <1>5, <1>6, <1>7, <1>8, <1>9, <1>10,
      <1>11, <1>12, <1>13, <1>14, <1>15, <1>16, <1>17, <1>18, <1>19, <1>20,
      <1>21 DEF Next, CspStep, ThreadStep

\* So do the threads and their connection.
LEMMA GatewayTypeStep ==
    ASSUME IInv, [Next]_vars
    PROVE  GatewayTypeOK'
<1> USE DEF IInv, TypeOK, CspTypeOK, GatewayTypeOK, Tables, Result, NoResult, Requests, Serving, NoRequest, Served, Pcs
<1>1. ASSUME NEW d \in Downlink, Queue(d), UNCHANGED <<wire, gatewayVars, faults>>
      PROVE  GatewayTypeOK'
  BY <1>1 DEF Queue, gatewayVars
<1>2. ASSUME NEW d \in Downlink, MarkFailure(d), UNCHANGED <<wire, gatewayVars, faults>>
      PROVE  GatewayTypeOK'
  BY <1>2 DEF MarkFailure, FinishRow, gatewayVars
<1>3. ASSUME NEW d \in Downlink, Apply(d), UNCHANGED <<wire, gatewayVars, faults>>
      PROVE  GatewayTypeOK'
  BY <1>3 DEF Apply, FinishRow, Working, gatewayVars
<1>4. ASSUME NEW claimed \in SUBSET Downlink, Claim(claimed), UNCHANGED <<wire, gatewayVars, faults>>
      PROVE  GatewayTypeOK'
  BY <1>4 DEF Claim, gatewayVars
<1>5. ASSUME Tick, UNCHANGED <<wire, gatewayVars, faults>>
      PROVE  GatewayTypeOK'
  BY <1>5 DEF Tick, gatewayVars
<1>6. ASSUME NEW d \in Downlink, Post(d)
      PROVE  GatewayTypeOK'
  <2>1. [downlink |-> d, live |-> TRUE] \in Requests
    BY DEF Requests
  <2>2. wire' \in SUBSET Requests
    BY <1>6, <2>1 DEF Post
  <2> QED BY <1>6, <2>2 DEF Post, gatewayVars
<1>7. ASSUME NEW d \in Downlink, Disconnected(d) \/ TimedOut(d)
      PROVE  GatewayTypeOK'
  <2>1. Abandoned
    BY <1>7 DEF Disconnected, TimedOut, NoAnswer, DispatcherCrash
  <2> QED BY <1>7, <2>1, AbandonedType DEF Disconnected, TimedOut, NoAnswer, Fault
<1>8. ASSUME DispatcherCrash
      PROVE  GatewayTypeOK'
  <2>1. Abandoned
    BY <1>8 DEF Disconnected, TimedOut, NoAnswer, DispatcherCrash
  <2> QED BY <1>8, <2>1, AbandonedType DEF DispatcherCrash, Fault
<1>9. ASSUME NEW m \in wire, NEW t \in Threads, Arrive(m, t)
      PROVE  GatewayTypeOK'
  <2>1. m.downlink \in Downlink /\ m.live \in BOOLEAN
    BY <1>9 DEF Requests
  <2>2. WholeSeconds \in 0..MaxClock
    BY Whole
  <2>3. [downlink |-> m.downlink, live |-> m.live, now |-> WholeSeconds] \in Serving
    BY <2>1, <2>2 DEF Serving
  <2>4. req' \in [Threads -> [downlink : Downlink \cup {None}, live : BOOLEAN, now : 0..MaxClock]]
    <3> DEFINE AnyRequest == [downlink : Downlink \cup {None}, live : BOOLEAN, now : 0..MaxClock]
    <3> DEFINE arrived == [downlink |-> m.downlink, live |-> m.live, now |-> WholeSeconds]
    <3>1. arrived \in AnyRequest /\ req \in [Threads -> AnyRequest]
      BY <2>1, <2>2
    <3>2. req' = [req EXCEPT ![t] = arrived]
      BY <1>9 DEF Arrive
    <3> HIDE DEF AnyRequest, arrived
    <3>3. req' \in [Threads -> AnyRequest]
      BY <3>1, <3>2
    <3> QED BY <3>3 DEF AnyRequest
  <2>5. \A u \in Threads : pc'[u] # "idle" => req'[u] \in Serving
    BY <1>9, <2>3 DEF Arrive, Go
  <2> QED BY <1>9, <2>4, <2>5 DEF Arrive, Go, cspVars
<1>10. ASSUME NEW t \in Threads, FirstLookup(t) \/ WokenLookup(t) \/ OwnLookup(t)
      PROVE  GatewayTypeOK'
  <2>1. req[t] \in Serving /\ pc[t] # "idle"
    BY <1>10 DEF FirstLookup, WokenLookup, OwnLookup, Lookup, Go, cspVars
  <2>2. Served(t) \in Downlink
    BY <2>1
  <2>3. conn.db[Served(t)] \in Result \cup {NoResult}
    BY <2>2
  <2>4. res' = [res EXCEPT ![t] = conn.db[Served(t)]]
    BY <1>10 DEF FirstLookup, WokenLookup, OwnLookup, Lookup, Go, cspVars
  <2>5. res' \in [Threads -> Result \cup {NoResult}]
    BY <2>3, <2>4
  <2> QED BY <1>10, <2>1, <2>5 DEF FirstLookup, WokenLookup, OwnLookup, Lookup, Go, cspVars
<1>11. ASSUME NEW t \in Threads, Acquire(t)
      PROVE  GatewayTypeOK'
  <2>1. owner' \in [Downlink -> Threads \cup {None}]
    BY <1>11 DEF Acquire
  <2>2. pc' \in [Threads -> Pcs] /\ \A u \in Threads : pc'[u] # "idle" => pc[u] # "idle"
    BY <1>11 DEF Acquire, Go
  <2> QED BY <1>11, <2>1, <2>2 DEF Acquire, cspVars
<1>12. ASSUME NEW t \in Threads, Process(t)
      PROVE  GatewayTypeOK'
  <2>1. req[t].now \in 0..MaxClock
    BY <1>12 DEF Process, Conclude, Go, cspVars
  <2>2. \A status \in Statuses : [status |-> status, completed |-> req[t].now] \in Result
    BY <2>1 DEF Result
  <2>3. {"permanent_reject", "unknown_node", "delivered", "mesh_delivery_failed"} \subseteq Statuses
    BY DEF Statuses
  <2>4. res' \in [Threads -> Result \cup {NoResult}]
    <3>1. res' = res \/ \E status \in Statuses :
             res' = [res EXCEPT ![t] = [status |-> status, completed |-> req[t].now]]
      BY <1>12, <2>3 DEF Process, Conclude, Go, cspVars
    <3> QED BY <2>2, <3>1
  <2> QED BY <1>12, <2>4 DEF Process, Conclude, Go, cspVars
<1>13. ASSUME NEW t \in Threads, Exchange(t)
      PROVE  GatewayTypeOK'
  <2>1. req[t].now \in 0..MaxClock
    BY <1>13 DEF Exchange, Conclude, Go, Fault, cspVars
  <2>2. \A status \in Statuses : [status |-> status, completed |-> req[t].now] \in Result
    BY <2>1 DEF Result
  <2>3. {"permanent_reject", "unknown_node", "delivered", "mesh_delivery_failed"} \subseteq Statuses
    BY DEF Statuses
  <2>4. res' \in [Threads -> Result \cup {NoResult}]
    <3>1. res' = res \/ \E status \in Statuses :
             res' = [res EXCEPT ![t] = [status |-> status, completed |-> req[t].now]]
      BY <1>13, <2>3 DEF Exchange, Conclude, Go, Fault, cspVars
    <3> QED BY <2>2, <3>1
  <2> QED BY <1>13, <2>4 DEF Exchange, Conclude, Go, Fault, cspVars
<1>14. ASSUME NEW t \in Threads, Begin(t)
      PROVE  GatewayTypeOK'
  BY <1>14 DEF Begin, Statement, Begun, Go, cspVars
<1>15. ASSUME NEW t \in Threads, Insert(t)
      PROVE  GatewayTypeOK'
  BY <1>15 DEF Insert, Statement, Executed, Go, cspVars
<1>16. ASSUME NEW t \in Threads, Commit(t)
      PROVE  GatewayTypeOK'
  BY <1>16 DEF Commit, Statement, Committed, Go, cspVars
<1>17. ASSUME NEW t \in Threads, Release(t)
      PROVE  GatewayTypeOK'
  BY <1>17 DEF Release, cspVars
<1>18. ASSUME NEW t \in Threads, Respond(t)
      PROVE  GatewayTypeOK'
  BY <1>18 DEF Respond, Answered, Working, Go
<1>19. ASSUME NEW t \in Threads, DatabaseFails(t)
      PROVE  GatewayTypeOK'
  BY <1>19 DEF DatabaseFails, Fault, RolledBack, Opened, Go, cspVars
<1>20. ASSUME Crash
      PROVE  GatewayTypeOK'
  BY <1>20 DEF Crash, Fault, RolledBack, Opened, cspVars
<1>21. ASSUME UNCHANGED vars
      PROVE  GatewayTypeOK'
  BY <1>21 DEF vars, gatewayVars, cspVars
<1> QED BY <1>1, <1>2, <1>3, <1>4, <1>5, <1>6, <1>7, <1>8, <1>9, <1>10,
      <1>11, <1>12, <1>13, <1>14, <1>15, <1>16, <1>17, <1>18, <1>19, <1>20,
      <1>21 DEF Next, CspStep, ThreadStep

\* Ownership changes hands only through Acquire and Release.
LEMMA OwnershipStep ==
    ASSUME IInv, [Next]_vars
    PROVE  Ownership'
<1> USE DEF IInv, TypeOK, GatewayTypeOK, Ownership, Served, Owning, Serving, Serves, NoRequest
<1>1. ASSUME NEW d \in Downlink, Queue(d), UNCHANGED <<wire, gatewayVars, faults>>
      PROVE  Ownership'
  BY <1>1 DEF Queue, gatewayVars
<1>2. ASSUME NEW d \in Downlink, MarkFailure(d), UNCHANGED <<wire, gatewayVars, faults>>
      PROVE  Ownership'
  BY <1>2 DEF MarkFailure, FinishRow, gatewayVars
<1>3. ASSUME NEW d \in Downlink, Apply(d), UNCHANGED <<wire, gatewayVars, faults>>
      PROVE  Ownership'
  BY <1>3 DEF Apply, FinishRow, Working, gatewayVars
<1>4. ASSUME NEW claimed \in SUBSET Downlink, Claim(claimed), UNCHANGED <<wire, gatewayVars, faults>>
      PROVE  Ownership'
  BY <1>4 DEF Claim, gatewayVars
<1>5. ASSUME Tick, UNCHANGED <<wire, gatewayVars, faults>>
      PROVE  Ownership'
  BY <1>5 DEF Tick, gatewayVars
<1>6. ASSUME NEW d \in Downlink, Post(d)
      PROVE  Ownership'
  BY <1>6 DEF Post, StartPost, Working, gatewayVars
<1>7. ASSUME NEW d \in Downlink, Disconnected(d) \/ TimedOut(d)
      PROVE  Ownership'
  BY <1>7 DEF Disconnected, TimedOut, NoAnswer, Answered, Abandoned, Working, Waiting, Fault
<1>8. ASSUME DispatcherCrash
      PROVE  Ownership'
  BY <1>8 DEF DispatcherCrash, DispatcherDies, Abandoned, Fault
<1>9. ASSUME NEW m \in wire, NEW t \in Threads, Arrive(m, t)
      PROVE  Ownership'
  BY <1>9 DEF Arrive, Go, cspVars
<1>10. ASSUME NEW t \in Threads, FirstLookup(t) \/ WokenLookup(t) \/ OwnLookup(t)
      PROVE  Ownership'
  BY <1>10 DEF FirstLookup, WokenLookup, OwnLookup, Lookup, Go, cspVars
<1>11. ASSUME NEW t \in Threads, Acquire(t)
      PROVE  Ownership'
  BY <1>11 DEF Acquire, Go, cspVars
<1>12. ASSUME NEW t \in Threads, Process(t)
      PROVE  Ownership'
  BY <1>12 DEF Process, Conclude, Go, cspVars
<1>13. ASSUME NEW t \in Threads, Exchange(t)
      PROVE  Ownership'
  BY <1>13 DEF Exchange, Conclude, Go, Fault, cspVars
<1>14. ASSUME NEW t \in Threads, Begin(t)
      PROVE  Ownership'
  BY <1>14 DEF Begin, Statement, Begun, Go, cspVars
<1>15. ASSUME NEW t \in Threads, Insert(t)
      PROVE  Ownership'
  BY <1>15 DEF Insert, Statement, Executed, Go, cspVars
<1>16. ASSUME NEW t \in Threads, Commit(t)
      PROVE  Ownership'
  BY <1>16 DEF Commit, Statement, Committed, Go, cspVars
<1>17. ASSUME NEW t \in Threads, Release(t)
      PROVE  Ownership'
  BY <1>17 DEF Release, cspVars
<1>18. ASSUME NEW t \in Threads, Respond(t)
      PROVE  Ownership'
  BY <1>18 DEF Respond, Answered, Working, Go
<1>19. ASSUME NEW t \in Threads, DatabaseFails(t)
      PROVE  Ownership'
  BY <1>19 DEF DatabaseFails, Fault, RolledBack, Opened, Go, cspVars
<1>20. ASSUME Crash
      PROVE  Ownership'
  BY <1>20 DEF Crash, Fault, RolledBack, Opened, cspVars
<1>21. ASSUME UNCHANGED vars
      PROVE  Ownership'
  BY <1>21 DEF vars, gatewayVars, cspVars
<1> QED BY <1>1, <1>2, <1>3, <1>4, <1>5, <1>6, <1>7, <1>8, <1>9, <1>10,
      <1>11, <1>12, <1>13, <1>14, <1>15, <1>16, <1>17, <1>18, <1>19, <1>20,
      <1>21 DEF Next, CspStep, ThreadStep

\* A transaction begins only when no other is open.
LEMMA OneTransactionStep ==
    ASSUME IInv, [Next]_vars
    PROVE  OneTransaction'
<1> USE DEF IInv, TypeOK, GatewayTypeOK, OneTransaction, InTransaction
<1>1. ASSUME NEW d \in Downlink, Queue(d), UNCHANGED <<wire, gatewayVars, faults>>
      PROVE  OneTransaction'
  BY <1>1 DEF Queue, gatewayVars
<1>2. ASSUME NEW d \in Downlink, MarkFailure(d), UNCHANGED <<wire, gatewayVars, faults>>
      PROVE  OneTransaction'
  BY <1>2 DEF MarkFailure, FinishRow, gatewayVars
<1>3. ASSUME NEW d \in Downlink, Apply(d), UNCHANGED <<wire, gatewayVars, faults>>
      PROVE  OneTransaction'
  BY <1>3 DEF Apply, FinishRow, Working, gatewayVars
<1>4. ASSUME NEW claimed \in SUBSET Downlink, Claim(claimed), UNCHANGED <<wire, gatewayVars, faults>>
      PROVE  OneTransaction'
  BY <1>4 DEF Claim, gatewayVars
<1>5. ASSUME Tick, UNCHANGED <<wire, gatewayVars, faults>>
      PROVE  OneTransaction'
  BY <1>5 DEF Tick, gatewayVars
<1>6. ASSUME NEW d \in Downlink, Post(d)
      PROVE  OneTransaction'
  BY <1>6 DEF Post, StartPost, Working, gatewayVars
<1>7. ASSUME NEW d \in Downlink, Disconnected(d) \/ TimedOut(d)
      PROVE  OneTransaction'
  BY <1>7 DEF Disconnected, TimedOut, NoAnswer, Answered, Abandoned, Working, Waiting, Fault
<1>8. ASSUME DispatcherCrash
      PROVE  OneTransaction'
  BY <1>8 DEF DispatcherCrash, DispatcherDies, Abandoned, Fault
<1>9. ASSUME NEW m \in wire, NEW t \in Threads, Arrive(m, t)
      PROVE  OneTransaction'
  BY <1>9 DEF Arrive, Go, cspVars
<1>10. ASSUME NEW t \in Threads, FirstLookup(t) \/ WokenLookup(t) \/ OwnLookup(t)
      PROVE  OneTransaction'
  BY <1>10 DEF FirstLookup, WokenLookup, OwnLookup, Lookup, Go, cspVars
<1>11. ASSUME NEW t \in Threads, Acquire(t)
      PROVE  OneTransaction'
  BY <1>11 DEF Acquire, Go, cspVars
<1>12. ASSUME NEW t \in Threads, Process(t)
      PROVE  OneTransaction'
  BY <1>12 DEF Process, Conclude, Go, cspVars
<1>13. ASSUME NEW t \in Threads, Exchange(t)
      PROVE  OneTransaction'
  BY <1>13 DEF Exchange, Conclude, Go, Fault, cspVars
<1>14. ASSUME NEW t \in Threads, Begin(t)
      PROVE  OneTransaction'
  BY <1>14 DEF Begin, Statement, Begun, Go, cspVars
<1>15. ASSUME NEW t \in Threads, Insert(t)
      PROVE  OneTransaction'
  BY <1>15 DEF Insert, Statement, Executed, Go, cspVars
<1>16. ASSUME NEW t \in Threads, Commit(t)
      PROVE  OneTransaction'
  BY <1>16 DEF Commit, Statement, Committed, Go, cspVars
<1>17. ASSUME NEW t \in Threads, Release(t)
      PROVE  OneTransaction'
  BY <1>17 DEF Release, cspVars
<1>18. ASSUME NEW t \in Threads, Respond(t)
      PROVE  OneTransaction'
  BY <1>18 DEF Respond, Answered, Working, Go
<1>19. ASSUME NEW t \in Threads, DatabaseFails(t)
      PROVE  OneTransaction'
  BY <1>19 DEF DatabaseFails, Fault, RolledBack, Opened, Go, cspVars
<1>20. ASSUME Crash
      PROVE  OneTransaction'
  BY <1>20 DEF Crash, Fault, RolledBack, Opened, cspVars
<1>21. ASSUME UNCHANGED vars
      PROVE  OneTransaction'
  BY <1>21 DEF vars, gatewayVars, cspVars
<1> QED BY <1>1, <1>2, <1>3, <1>4, <1>5, <1>6, <1>7, <1>8, <1>9, <1>10,
      <1>11, <1>12, <1>13, <1>14, <1>15, <1>16, <1>17, <1>18, <1>19, <1>20,
      <1>21 DEF Next, CspStep, ThreadStep

\* The connection is in a transaction while a thread is.
LEMMA ConnectionStep ==
    ASSUME IInv, [Next]_vars
    PROVE  (conn.inTx <=> \E u \in Threads : InTransaction(u))'
<1> USE DEF IInv, TypeOK, GatewayTypeOK, OneTransaction, InTransaction
<1>1. ASSUME NEW d \in Downlink, Queue(d), UNCHANGED <<wire, gatewayVars, faults>>
      PROVE  (conn.inTx <=> \E u \in Threads : InTransaction(u))'
  BY <1>1 DEF Queue, gatewayVars
<1>2. ASSUME NEW d \in Downlink, MarkFailure(d), UNCHANGED <<wire, gatewayVars, faults>>
      PROVE  (conn.inTx <=> \E u \in Threads : InTransaction(u))'
  BY <1>2 DEF MarkFailure, FinishRow, gatewayVars
<1>3. ASSUME NEW d \in Downlink, Apply(d), UNCHANGED <<wire, gatewayVars, faults>>
      PROVE  (conn.inTx <=> \E u \in Threads : InTransaction(u))'
  BY <1>3 DEF Apply, FinishRow, Working, gatewayVars
<1>4. ASSUME NEW claimed \in SUBSET Downlink, Claim(claimed), UNCHANGED <<wire, gatewayVars, faults>>
      PROVE  (conn.inTx <=> \E u \in Threads : InTransaction(u))'
  BY <1>4 DEF Claim, gatewayVars
<1>5. ASSUME Tick, UNCHANGED <<wire, gatewayVars, faults>>
      PROVE  (conn.inTx <=> \E u \in Threads : InTransaction(u))'
  BY <1>5 DEF Tick, gatewayVars
<1>6. ASSUME NEW d \in Downlink, Post(d)
      PROVE  (conn.inTx <=> \E u \in Threads : InTransaction(u))'
  BY <1>6 DEF Post, StartPost, Working, gatewayVars
<1>7. ASSUME NEW d \in Downlink, Disconnected(d) \/ TimedOut(d)
      PROVE  (conn.inTx <=> \E u \in Threads : InTransaction(u))'
  BY <1>7 DEF Disconnected, TimedOut, NoAnswer, Answered, Abandoned, Working, Waiting, Fault
<1>8. ASSUME DispatcherCrash
      PROVE  (conn.inTx <=> \E u \in Threads : InTransaction(u))'
  BY <1>8 DEF DispatcherCrash, DispatcherDies, Abandoned, Fault
<1>9. ASSUME NEW m \in wire, NEW t \in Threads, Arrive(m, t)
      PROVE  (conn.inTx <=> \E u \in Threads : InTransaction(u))'
  BY <1>9 DEF Arrive, Go, cspVars
<1>10. ASSUME NEW t \in Threads, FirstLookup(t) \/ WokenLookup(t) \/ OwnLookup(t)
      PROVE  (conn.inTx <=> \E u \in Threads : InTransaction(u))'
  BY <1>10 DEF FirstLookup, WokenLookup, OwnLookup, Lookup, Go, cspVars
<1>11. ASSUME NEW t \in Threads, Acquire(t)
      PROVE  (conn.inTx <=> \E u \in Threads : InTransaction(u))'
  BY <1>11 DEF Acquire, Go, cspVars
<1>12. ASSUME NEW t \in Threads, Process(t)
      PROVE  (conn.inTx <=> \E u \in Threads : InTransaction(u))'
  BY <1>12 DEF Process, Conclude, Go, cspVars
<1>13. ASSUME NEW t \in Threads, Exchange(t)
      PROVE  (conn.inTx <=> \E u \in Threads : InTransaction(u))'
  BY <1>13 DEF Exchange, Conclude, Go, Fault, cspVars
<1>14. ASSUME NEW t \in Threads, Begin(t)
      PROVE  (conn.inTx <=> \E u \in Threads : InTransaction(u))'
  BY <1>14 DEF Begin, Statement, Begun, Go, cspVars
<1>15. ASSUME NEW t \in Threads, Insert(t)
      PROVE  (conn.inTx <=> \E u \in Threads : InTransaction(u))'
  BY <1>15 DEF Insert, Statement, Executed, Go, cspVars
<1>16. ASSUME NEW t \in Threads, Commit(t)
      PROVE  (conn.inTx <=> \E u \in Threads : InTransaction(u))'
  BY <1>16 DEF Commit, Statement, Committed, Go, cspVars
<1>17. ASSUME NEW t \in Threads, Release(t)
      PROVE  (conn.inTx <=> \E u \in Threads : InTransaction(u))'
  BY <1>17 DEF Release, cspVars
<1>18. ASSUME NEW t \in Threads, Respond(t)
      PROVE  (conn.inTx <=> \E u \in Threads : InTransaction(u))'
  BY <1>18 DEF Respond, Answered, Working, Go
<1>19. ASSUME NEW t \in Threads, DatabaseFails(t)
      PROVE  (conn.inTx <=> \E u \in Threads : InTransaction(u))'
  BY <1>19 DEF DatabaseFails, Fault, RolledBack, Opened, Go, cspVars
<1>20. ASSUME Crash
      PROVE  (conn.inTx <=> \E u \in Threads : InTransaction(u))'
  BY <1>20 DEF Crash, Fault, RolledBack, Opened, cspVars
<1>21. ASSUME UNCHANGED vars
      PROVE  (conn.inTx <=> \E u \in Threads : InTransaction(u))'
  BY <1>21 DEF vars, gatewayVars, cspVars
<1> QED BY <1>1, <1>2, <1>3, <1>4, <1>5, <1>6, <1>7, <1>8, <1>9, <1>10,
      <1>11, <1>12, <1>13, <1>14, <1>15, <1>16, <1>17, <1>18, <1>19, <1>20,
      <1>21 DEF Next, CspStep, ThreadStep

\* A thread has a result from the moment it comes to one.
LEMMA ConcludedStep ==
    ASSUME IInv, [Next]_vars
    PROVE  Concluded'
<1> USE DEF IInv, TypeOK, GatewayTypeOK, Concluded, Served, NoResult, Statuses
<1>1. ASSUME NEW d \in Downlink, Queue(d), UNCHANGED <<wire, gatewayVars, faults>>
      PROVE  Concluded'
  BY <1>1 DEF Queue, gatewayVars
<1>2. ASSUME NEW d \in Downlink, MarkFailure(d), UNCHANGED <<wire, gatewayVars, faults>>
      PROVE  Concluded'
  BY <1>2 DEF MarkFailure, FinishRow, gatewayVars
<1>3. ASSUME NEW d \in Downlink, Apply(d), UNCHANGED <<wire, gatewayVars, faults>>
      PROVE  Concluded'
  BY <1>3 DEF Apply, FinishRow, Working, gatewayVars
<1>4. ASSUME NEW claimed \in SUBSET Downlink, Claim(claimed), UNCHANGED <<wire, gatewayVars, faults>>
      PROVE  Concluded'
  BY <1>4 DEF Claim, gatewayVars
<1>5. ASSUME Tick, UNCHANGED <<wire, gatewayVars, faults>>
      PROVE  Concluded'
  BY <1>5 DEF Tick, gatewayVars
<1>6. ASSUME NEW d \in Downlink, Post(d)
      PROVE  Concluded'
  BY <1>6 DEF Post, StartPost, Working, gatewayVars
<1>7. ASSUME NEW d \in Downlink, Disconnected(d) \/ TimedOut(d)
      PROVE  Concluded'
  BY <1>7 DEF Disconnected, TimedOut, NoAnswer, Answered, Abandoned, Working, Waiting, Fault
<1>8. ASSUME DispatcherCrash
      PROVE  Concluded'
  BY <1>8 DEF DispatcherCrash, DispatcherDies, Abandoned, Fault
<1>9. ASSUME NEW m \in wire, NEW t \in Threads, Arrive(m, t)
      PROVE  Concluded'
  BY <1>9 DEF Arrive, Go, cspVars
<1>10. ASSUME NEW t \in Threads, FirstLookup(t) \/ WokenLookup(t) \/ OwnLookup(t)
      PROVE  Concluded'
  BY <1>10 DEF FirstLookup, WokenLookup, OwnLookup, Lookup, Go, cspVars
<1>11. ASSUME NEW t \in Threads, Acquire(t)
      PROVE  Concluded'
  BY <1>11 DEF Acquire, Go, cspVars
<1>12. ASSUME NEW t \in Threads, Process(t)
      PROVE  Concluded'
  BY <1>12 DEF Process, Conclude, Go, cspVars
<1>13. ASSUME NEW t \in Threads, Exchange(t)
      PROVE  Concluded'
  BY <1>13 DEF Exchange, Conclude, Go, Fault, cspVars
<1>14. ASSUME NEW t \in Threads, Begin(t)
      PROVE  Concluded'
  BY <1>14 DEF Begin, Statement, Begun, Go, cspVars
<1>15. ASSUME NEW t \in Threads, Insert(t)
      PROVE  Concluded'
  BY <1>15 DEF Insert, Statement, Executed, Go, cspVars
<1>16. ASSUME NEW t \in Threads, Commit(t)
      PROVE  Concluded'
  BY <1>16 DEF Commit, Statement, Committed, Go, cspVars
<1>17. ASSUME NEW t \in Threads, Release(t)
      PROVE  Concluded'
  BY <1>17 DEF Release, cspVars
<1>18. ASSUME NEW t \in Threads, Respond(t)
      PROVE  Concluded'
  BY <1>18 DEF Respond, Answered, Working, Go
<1>19. ASSUME NEW t \in Threads, DatabaseFails(t)
      PROVE  Concluded'
  BY <1>19 DEF DatabaseFails, Fault, RolledBack, Opened, Go, cspVars
<1>20. ASSUME Crash
      PROVE  Concluded'
  BY <1>20 DEF Crash, Fault, RolledBack, Opened, cspVars
<1>21. ASSUME UNCHANGED vars
      PROVE  Concluded'
  BY <1>21 DEF vars, gatewayVars, cspVars
<1> QED BY <1>1, <1>2, <1>3, <1>4, <1>5, <1>6, <1>7, <1>8, <1>9, <1>10,
      <1>11, <1>12, <1>13, <1>14, <1>15, <1>16, <1>17, <1>18, <1>19, <1>20,
      <1>21 DEF Next, CspStep, ThreadStep

\* The disk stays as it is or gets what the statements have made.
LEMMA DurableStep ==
    ASSUME IInv, [Next]_vars
    PROVE  conn'.durable \in {conn.durable, conn.db}
<1> USE DEF IInv, TypeOK, GatewayTypeOK, Tables
<1>1. ASSUME NEW d \in Downlink, Queue(d), UNCHANGED <<wire, gatewayVars, faults>>
      PROVE  conn'.durable \in {conn.durable, conn.db}
  BY <1>1 DEF Queue, gatewayVars
<1>2. ASSUME NEW d \in Downlink, MarkFailure(d), UNCHANGED <<wire, gatewayVars, faults>>
      PROVE  conn'.durable \in {conn.durable, conn.db}
  BY <1>2 DEF MarkFailure, FinishRow, gatewayVars
<1>3. ASSUME NEW d \in Downlink, Apply(d), UNCHANGED <<wire, gatewayVars, faults>>
      PROVE  conn'.durable \in {conn.durable, conn.db}
  BY <1>3 DEF Apply, FinishRow, Working, gatewayVars
<1>4. ASSUME NEW claimed \in SUBSET Downlink, Claim(claimed), UNCHANGED <<wire, gatewayVars, faults>>
      PROVE  conn'.durable \in {conn.durable, conn.db}
  BY <1>4 DEF Claim, gatewayVars
<1>5. ASSUME Tick, UNCHANGED <<wire, gatewayVars, faults>>
      PROVE  conn'.durable \in {conn.durable, conn.db}
  BY <1>5 DEF Tick, gatewayVars
<1>6. ASSUME NEW d \in Downlink, Post(d)
      PROVE  conn'.durable \in {conn.durable, conn.db}
  BY <1>6 DEF Post, StartPost, Working, gatewayVars
<1>7. ASSUME NEW d \in Downlink, Disconnected(d) \/ TimedOut(d)
      PROVE  conn'.durable \in {conn.durable, conn.db}
  BY <1>7 DEF Disconnected, TimedOut, NoAnswer, Answered, Abandoned, Working, Waiting, Fault
<1>8. ASSUME DispatcherCrash
      PROVE  conn'.durable \in {conn.durable, conn.db}
  BY <1>8 DEF DispatcherCrash, DispatcherDies, Abandoned, Fault
<1>9. ASSUME NEW m \in wire, NEW t \in Threads, Arrive(m, t)
      PROVE  conn'.durable \in {conn.durable, conn.db}
  BY <1>9 DEF Arrive, Go, cspVars
<1>10. ASSUME NEW t \in Threads, FirstLookup(t) \/ WokenLookup(t) \/ OwnLookup(t)
      PROVE  conn'.durable \in {conn.durable, conn.db}
  BY <1>10 DEF FirstLookup, WokenLookup, OwnLookup, Lookup, Go, cspVars
<1>11. ASSUME NEW t \in Threads, Acquire(t)
      PROVE  conn'.durable \in {conn.durable, conn.db}
  BY <1>11 DEF Acquire, Go, cspVars
<1>12. ASSUME NEW t \in Threads, Process(t)
      PROVE  conn'.durable \in {conn.durable, conn.db}
  BY <1>12 DEF Process, Conclude, Go, cspVars
<1>13. ASSUME NEW t \in Threads, Exchange(t)
      PROVE  conn'.durable \in {conn.durable, conn.db}
  BY <1>13 DEF Exchange, Conclude, Go, Fault, cspVars
<1>14. ASSUME NEW t \in Threads, Begin(t)
      PROVE  conn'.durable \in {conn.durable, conn.db}
  BY <1>14 DEF Begin, Statement, Begun, Go, cspVars
<1>15. ASSUME NEW t \in Threads, Insert(t)
      PROVE  conn'.durable \in {conn.durable, conn.db}
  BY <1>15 DEF Insert, Statement, Executed, Go, cspVars
<1>16. ASSUME NEW t \in Threads, Commit(t)
      PROVE  conn'.durable \in {conn.durable, conn.db}
  BY <1>16 DEF Commit, Statement, Committed, Go, cspVars
<1>17. ASSUME NEW t \in Threads, Release(t)
      PROVE  conn'.durable \in {conn.durable, conn.db}
  BY <1>17 DEF Release, cspVars
<1>18. ASSUME NEW t \in Threads, Respond(t)
      PROVE  conn'.durable \in {conn.durable, conn.db}
  BY <1>18 DEF Respond, Answered, Working, Go
<1>19. ASSUME NEW t \in Threads, DatabaseFails(t)
      PROVE  conn'.durable \in {conn.durable, conn.db}
  BY <1>19 DEF DatabaseFails, Fault, RolledBack, Opened, Go, cspVars
<1>20. ASSUME Crash
      PROVE  conn'.durable \in {conn.durable, conn.db}
  BY <1>20 DEF Crash, Fault, RolledBack, Opened, cspVars
<1>21. ASSUME UNCHANGED vars
      PROVE  conn'.durable \in {conn.durable, conn.db}
  BY <1>21 DEF vars, gatewayVars, cspVars
<1> QED BY <1>1, <1>2, <1>3, <1>4, <1>5, <1>6, <1>7, <1>8, <1>9, <1>10,
      <1>11, <1>12, <1>13, <1>14, <1>15, <1>16, <1>17, <1>18, <1>19, <1>20,
      <1>21 DEF Next, CspStep, ThreadStep

\* What is stored was not there before, and only a crash or a fault takes it away.
LEMMA StoringStep ==
    ASSUME IInv, [Next]_vars
    PROVE  Storing'
<1> USE DEF IInv, TypeOK, GatewayTypeOK, Tables, Storing, Fresh, Ownership, Owning, OneTransaction, InTransaction, Serving, Served
<1>1. ASSUME NEW d \in Downlink, Queue(d), UNCHANGED <<wire, gatewayVars, faults>>
      PROVE  Storing'
  BY <1>1 DEF Queue, gatewayVars
<1>2. ASSUME NEW d \in Downlink, MarkFailure(d), UNCHANGED <<wire, gatewayVars, faults>>
      PROVE  Storing'
  BY <1>2 DEF MarkFailure, FinishRow, gatewayVars
<1>3. ASSUME NEW d \in Downlink, Apply(d), UNCHANGED <<wire, gatewayVars, faults>>
      PROVE  Storing'
  BY <1>3 DEF Apply, FinishRow, Working, gatewayVars
<1>4. ASSUME NEW claimed \in SUBSET Downlink, Claim(claimed), UNCHANGED <<wire, gatewayVars, faults>>
      PROVE  Storing'
  BY <1>4 DEF Claim, gatewayVars
<1>5. ASSUME Tick, UNCHANGED <<wire, gatewayVars, faults>>
      PROVE  Storing'
  BY <1>5 DEF Tick, gatewayVars
<1>6. ASSUME NEW d \in Downlink, Post(d)
      PROVE  Storing'
  BY <1>6 DEF Post, StartPost, Working, gatewayVars
<1>7. ASSUME NEW d \in Downlink, Disconnected(d) \/ TimedOut(d)
      PROVE  Storing'
  BY <1>7 DEF Disconnected, TimedOut, NoAnswer, Answered, Abandoned, Working, Waiting, Fault
<1>8. ASSUME DispatcherCrash
      PROVE  Storing'
  <2>1. \A t \in Threads : req'[t].downlink = req[t].downlink
    BY <1>8 DEF DispatcherCrash, Abandoned
  <2>2. UNCHANGED <<pc, conn, res, acked, lost, row>>
    BY <1>8 DEF DispatcherCrash, DispatcherDies, Abandoned, Fault
  <2> QED BY <2>1, <2>2
<1>9. ASSUME NEW m \in wire, NEW t \in Threads, Arrive(m, t)
      PROVE  Storing'
  BY <1>9 DEF Arrive, Go, cspVars
<1>10. ASSUME NEW t \in Threads, FirstLookup(t) \/ WokenLookup(t) \/ OwnLookup(t)
      PROVE  Storing'
  BY <1>10 DEF FirstLookup, WokenLookup, OwnLookup, Lookup, Go, cspVars
<1>11. ASSUME NEW t \in Threads, Acquire(t)
      PROVE  Storing'
  BY <1>11 DEF Acquire, Go, cspVars
<1>12. ASSUME NEW t \in Threads, Process(t)
      PROVE  Storing'
  BY <1>12 DEF Process, Conclude, Go, cspVars
<1>13. ASSUME NEW t \in Threads, Exchange(t)
      PROVE  Storing'
  BY <1>13 DEF Exchange, Conclude, Go, Fault, cspVars
<1>14. ASSUME NEW t \in Threads, Begin(t)
      PROVE  Storing'
  BY <1>14 DEF Begin, Statement, Begun, Go, cspVars
<1>15. ASSUME NEW t \in Threads, Insert(t)
      PROVE  Storing'
  BY <1>15 DEF Insert, Statement, Executed, Go, cspVars
<1>16. ASSUME NEW t \in Threads, Commit(t)
      PROVE  Storing'
  BY <1>16 DEF Commit, Statement, Committed, Go, cspVars
<1>17. ASSUME NEW t \in Threads, Release(t)
      PROVE  Storing'
  BY <1>17 DEF Release, cspVars
<1>18. ASSUME NEW t \in Threads, Respond(t)
      PROVE  Storing'
  BY <1>18 DEF Respond, Answered, Working, Go
<1>19. ASSUME NEW t \in Threads, DatabaseFails(t)
      PROVE  Storing'
  BY <1>19 DEF DatabaseFails, Fault, RolledBack, Opened, Go, cspVars
<1>20. ASSUME Crash
      PROVE  Storing'
  BY <1>20 DEF Crash, Fault, RolledBack, Opened, cspVars
<1>21. ASSUME UNCHANGED vars
      PROVE  Storing'
  BY <1>21 DEF vars, gatewayVars, cspVars
<1> QED BY <1>1, <1>2, <1>3, <1>4, <1>5, <1>6, <1>7, <1>8, <1>9, <1>10,
      <1>11, <1>12, <1>13, <1>14, <1>15, <1>16, <1>17, <1>18, <1>19, <1>20,
      <1>21 DEF Next, CspStep, ThreadStep

\* What is stored stays as it is, but for a fault.
Keeps == /\ lost \subseteq lost'
         /\ \A d \in Downlink : conn.db[d] # NoResult => conn'.db[d] = conn.db[d] \/ d \in lost'

\* The INSERT writes where nothing was.
LEMMA InsertKeeps == ASSUME IInv, NEW t \in Threads, Insert(t) PROVE Keeps
<1>1. req[t] \in Serving /\ conn.db[Served(t)] = NoResult
  BY DEF IInv, TypeOK, GatewayTypeOK, Storing, Fresh, Insert, Statement
<1>2. \A d \in Downlink : d # Served(t) => conn'.db[d] = conn.db[d]
  BY DEF IInv, TypeOK, GatewayTypeOK, Tables, Insert, Statement, Executed
<1> QED BY <1>1, <1>2 DEF Keeps, Insert, Statement

\* A rollback takes back at most what a thread was about to commit.
LEMMA RollbackKeeps ==
    ASSUME IInv, lost \subseteq lost', conn' = RolledBack(conn),
           \A t \in Threads : pc[t] = "commit" => Served(t) \in lost'
    PROVE  Keeps
<1>1. conn'.db = conn.durable
  BY DEF RolledBack, Opened
<1>2. ASSUME NEW d \in Downlink, conn.db[d] # conn.durable[d] PROVE d \in lost'
  BY <1>2 DEF IInv, Storing
<1> QED BY <1>1, <1>2 DEF Keeps

\* So does a database access that fails.
LEMMA FailureKeeps == ASSUME IInv, NEW t \in Threads, DatabaseFails(t) PROVE Keeps
<1>1. lost \subseteq lost'
  BY DEF DatabaseFails
<1>2. CASE InTransaction(t)
  <2>1. ASSUME NEW u \in Threads, pc[u] = "commit" PROVE Served(u) \in lost'
    BY <1>2, <2>1 DEF IInv, OneTransaction, InTransaction, DatabaseFails
  <2>2. conn' = RolledBack(conn)
    BY <1>2 DEF DatabaseFails
  <2> QED BY <1>1, <2>1, <2>2, RollbackKeeps
<1>3. CASE ~InTransaction(t)
  BY <1>1, <1>3 DEF Keeps, DatabaseFails
<1> QED BY <1>2, <1>3

\* And the end of the process.
LEMMA CrashKeeps == ASSUME IInv, Crash PROVE Keeps
<1>1. ASSUME NEW t \in Threads, pc[t] = "commit" PROVE Served(t) \in lost'
  <2>1. Served(t) \in Downlink
    BY <1>1 DEF IInv, TypeOK, GatewayTypeOK, Serving, Served
  <2> QED BY <1>1, <2>1 DEF Crash, Serves
<1> QED BY <1>1, RollbackKeeps DEF Crash

\* A result that is stored is stored afterwards, or lost.
LEMMA KeepsStored ==
    ASSUME IInv, Keeps, NEW d \in Downlink, NEW r, r # NoResult, IsStored(d, r)
    PROVE  IsStored(d, r)'
BY DEF Keeps, IsStored

\* Nor do the rows part from the store.
LEMMA KeepsRows ==
    ASSUME IInv, Keeps, UNCHANGED row
    PROVE  \A d \in Downlink : row'[d] \in Statuses => row'[d] = conn'.db[d].status \/ d \in lost'
<1> SUFFICES ASSUME NEW d \in Downlink, row[d] \in Statuses
             PROVE  row[d] = conn'.db[d].status \/ d \in lost'
  OBVIOUS
<1>1. row[d] = conn.db[d].status \/ d \in lost
  BY DEF IInv, Results
<1>2. NoResult.status \notin Statuses
  BY DEF NoResult, Statuses
<1> QED BY <1>1, <1>2 DEF Keeps

\* Nor does the answer the dispatcher is working on.
LEMMA KeepsDispatch ==
    ASSUME IInv, Keeps, UNCHANGED dispatch
    PROVE  dispatch'.pc = "apply" => IsStored(dispatch.row, dispatch.result)'
<1> SUFFICES ASSUME dispatch.pc = "apply" PROVE IsStored(dispatch.row, dispatch.result)'
  OBVIOUS
<1>1. dispatch.result # NoResult /\ dispatch.row \in Downlink
  BY DEF IInv, TypeOK, CspTypeOK
<1>2. IsStored(dispatch.row, dispatch.result)
  BY DEF IInv, Results
<1>3. UNCHANGED <<dispatch.row, dispatch.result>>
  OBVIOUS
<1> QED BY <1>1, <1>2, <1>3, KeepsStored DEF IsStored, Keeps

\* Answers and rows follow the store.
LEMMA ResultsStep ==
    ASSUME IInv, [Next]_vars
    PROVE  Results'
<1> USE DEF IInv, TypeOK, CspTypeOK, GatewayTypeOK, Tables, Results, IsStored, Storing, Ownership, Owning, Serving, Served, Concluded, Fresh
<1>1. ASSUME NEW d \in Downlink, Queue(d), UNCHANGED <<wire, gatewayVars, faults>>
      PROVE  Results'
  BY <1>1 DEF Queue, gatewayVars, Statuses
<1>2. ASSUME NEW d \in Downlink, MarkFailure(d), UNCHANGED <<wire, gatewayVars, faults>>
      PROVE  Results'
  BY <1>2 DEF MarkFailure, FinishRow, gatewayVars, Statuses, Idle
<1>3. ASSUME NEW d \in Downlink, Apply(d), UNCHANGED <<wire, gatewayVars, faults>>
      PROVE  Results'
  BY <1>3 DEF Apply, FinishRow, Working, gatewayVars, Statuses, Idle
<1>4. ASSUME NEW claimed \in SUBSET Downlink, Claim(claimed), UNCHANGED <<wire, gatewayVars, faults>>
      PROVE  Results'
  BY <1>4 DEF Claim, gatewayVars, Statuses
<1>5. ASSUME Tick, UNCHANGED <<wire, gatewayVars, faults>>
      PROVE  Results'
  BY <1>5 DEF Tick, gatewayVars
<1>6. ASSUME NEW d \in Downlink, Post(d)
      PROVE  Results'
  BY <1>6 DEF Post, StartPost, Working, gatewayVars
<1>7. ASSUME NEW d \in Downlink, Disconnected(d) \/ TimedOut(d)
      PROVE  Results'
  BY <1>7 DEF Disconnected, TimedOut, NoAnswer, Answered, Abandoned, Working, Waiting, Fault
<1>8. ASSUME DispatcherCrash
      PROVE  Results'
  BY <1>8 DEF DispatcherCrash, DispatcherDies, Abandoned, Fault, Idle
<1>9. ASSUME NEW m \in wire, NEW t \in Threads, Arrive(m, t)
      PROVE  Results'
  BY <1>9 DEF Arrive, Go, cspVars
<1>10. ASSUME NEW t \in Threads, FirstLookup(t) \/ WokenLookup(t) \/ OwnLookup(t)
      PROVE  Results'
  <2>1. res'[t] = conn.db[Served(t)] /\ UNCHANGED <<conn, req, row, dispatch, lost>>
    BY <1>10 DEF FirstLookup, WokenLookup, OwnLookup, Lookup, Go, cspVars
  <2>2. \A u \in Threads : u # t => res'[u] = res[u] /\ pc'[u] = pc[u]
    BY <1>10 DEF FirstLookup, WokenLookup, OwnLookup, Lookup, Go, cspVars
  <2> QED BY <2>1, <2>2
<1>11. ASSUME NEW t \in Threads, Acquire(t)
      PROVE  Results'
  BY <1>11 DEF Acquire, Go, cspVars
<1>12. ASSUME NEW t \in Threads, Process(t)
      PROVE  Results'
  BY <1>12 DEF Process, Conclude, Go, cspVars
<1>13. ASSUME NEW t \in Threads, Exchange(t)
      PROVE  Results'
  BY <1>13 DEF Exchange, Conclude, Go, Fault, cspVars
<1>14. ASSUME NEW t \in Threads, Begin(t)
      PROVE  Results'
  BY <1>14 DEF Begin, Statement, Begun, Go, cspVars
<1>15. ASSUME NEW t \in Threads, Insert(t)
      PROVE  Results'
  <2>1. Keeps /\ UNCHANGED <<row, dispatch>>
    BY <1>15, InsertKeeps DEF Insert, Statement, Executed, Go, cspVars
  <2>2. ASSUME NEW u \in Threads, pc'[u] \in {"release", "respond"}, res'[u] # NoResult
        PROVE  IsStored(Served(u), res[u])'
    <3>1. UNCHANGED <<res[u], req[u]>> /\ pc[u] \in {"release", "respond"}
      BY <1>15, <2>2 DEF Insert, Statement, Executed, Go, cspVars
    <3>2. Served(u) \in Downlink /\ IsStored(Served(u), res[u])
      BY <2>2, <3>1 DEF Results
    <3> QED BY <2>1, <2>2, <3>1, <3>2 DEF Keeps
  <2> QED BY <2>1, <2>2, KeepsRows, KeepsDispatch DEF Results
<1>16. ASSUME NEW t \in Threads, Commit(t)
      PROVE  Results'
  BY <1>16 DEF Commit, Statement, Committed, Go, cspVars
<1>17. ASSUME NEW t \in Threads, Release(t)
      PROVE  Results'
  BY <1>17 DEF Release, cspVars
<1>18. ASSUME NEW t \in Threads, Respond(t)
      PROVE  Results'
  BY <1>18 DEF Respond, Answered, Working, Go
<1>19. ASSUME NEW t \in Threads, DatabaseFails(t)
      PROVE  Results'
  <2>1. Keeps /\ UNCHANGED <<row, dispatch>>
    BY <1>19, FailureKeeps DEF DatabaseFails, Fault, RolledBack, Opened, Go, cspVars
  <2>2. ASSUME NEW u \in Threads, pc'[u] \in {"release", "respond"}, res'[u] # NoResult
        PROVE  IsStored(Served(u), res[u])'
    <3>1. UNCHANGED <<res[u], req[u]>> /\ pc[u] \in {"release", "respond"}
      BY <1>19, <2>2 DEF DatabaseFails, Fault, RolledBack, Opened, Go, cspVars
    <3>2. Served(u) \in Downlink /\ IsStored(Served(u), res[u])
      BY <2>2, <3>1 DEF Results
    <3> QED BY <2>1, <2>2, <3>1, <3>2 DEF Keeps
  <2> QED BY <2>1, <2>2, KeepsRows, KeepsDispatch DEF Results
<1>20. ASSUME Crash
      PROVE  Results'
  <2>1. Keeps /\ UNCHANGED <<row, dispatch>>
    BY <1>20, CrashKeeps DEF Crash, Fault, RolledBack, Opened, cspVars
  <2>2. ASSUME NEW u \in Threads, pc'[u] \in {"release", "respond"}, res'[u] # NoResult
        PROVE  IsStored(Served(u), res[u])'
    <3>1. UNCHANGED <<res[u], req[u]>> /\ pc[u] \in {"release", "respond"}
      BY <1>20, <2>2 DEF Crash, Fault, RolledBack, Opened, cspVars
    <3>2. Served(u) \in Downlink /\ IsStored(Served(u), res[u])
      BY <2>2, <3>1 DEF Results
    <3> QED BY <2>1, <2>2, <3>1, <3>2 DEF Keeps
  <2> QED BY <2>1, <2>2, KeepsRows, KeepsDispatch DEF Results
<1>21. ASSUME UNCHANGED vars
      PROVE  Results'
  BY <1>21 DEF vars, gatewayVars, cspVars
<1> QED BY <1>1, <1>2, <1>3, <1>4, <1>5, <1>6, <1>7, <1>8, <1>9, <1>10,
      <1>11, <1>12, <1>13, <1>14, <1>15, <1>16, <1>17, <1>18, <1>19, <1>20,
      <1>21 DEF Next, CspStep, ThreadStep

\* An acknowledgement leads to a stored result, or to a fault.
LEMMA AcknowledgedStep ==
    ASSUME IInv, [Next]_vars
    PROVE  Acknowledged'
<1> USE DEF IInv, TypeOK, GatewayTypeOK, Tables, Acknowledged, Storing, Ownership, Owning, Serving, Served, Fresh
<1>1. ASSUME NEW d \in Downlink, Queue(d), UNCHANGED <<wire, gatewayVars, faults>>
      PROVE  Acknowledged'
  BY <1>1 DEF Queue, gatewayVars
<1>2. ASSUME NEW d \in Downlink, MarkFailure(d), UNCHANGED <<wire, gatewayVars, faults>>
      PROVE  Acknowledged'
  BY <1>2 DEF MarkFailure, FinishRow, gatewayVars
<1>3. ASSUME NEW d \in Downlink, Apply(d), UNCHANGED <<wire, gatewayVars, faults>>
      PROVE  Acknowledged'
  BY <1>3 DEF Apply, FinishRow, Working, gatewayVars
<1>4. ASSUME NEW claimed \in SUBSET Downlink, Claim(claimed), UNCHANGED <<wire, gatewayVars, faults>>
      PROVE  Acknowledged'
  BY <1>4 DEF Claim, gatewayVars
<1>5. ASSUME Tick, UNCHANGED <<wire, gatewayVars, faults>>
      PROVE  Acknowledged'
  BY <1>5 DEF Tick, gatewayVars
<1>6. ASSUME NEW d \in Downlink, Post(d)
      PROVE  Acknowledged'
  BY <1>6 DEF Post, StartPost, Working, gatewayVars
<1>7. ASSUME NEW d \in Downlink, Disconnected(d) \/ TimedOut(d)
      PROVE  Acknowledged'
  BY <1>7 DEF Disconnected, TimedOut, NoAnswer, Answered, Abandoned, Working, Waiting, Fault
<1>8. ASSUME DispatcherCrash
      PROVE  Acknowledged'
  BY <1>8 DEF DispatcherCrash, DispatcherDies, Abandoned, Fault
<1>9. ASSUME NEW m \in wire, NEW t \in Threads, Arrive(m, t)
      PROVE  Acknowledged'
  BY <1>9 DEF Arrive, Go, cspVars
<1>10. ASSUME NEW t \in Threads, FirstLookup(t) \/ WokenLookup(t) \/ OwnLookup(t)
      PROVE  Acknowledged'
  BY <1>10 DEF FirstLookup, WokenLookup, OwnLookup, Lookup, Go, cspVars
<1>11. ASSUME NEW t \in Threads, Acquire(t)
      PROVE  Acknowledged'
  BY <1>11 DEF Acquire, Go, cspVars
<1>12. ASSUME NEW t \in Threads, Process(t)
      PROVE  Acknowledged'
  BY <1>12 DEF Process, Conclude, Go, cspVars
<1>13. ASSUME NEW t \in Threads, Exchange(t)
      PROVE  Acknowledged'
  BY <1>13 DEF Exchange, Conclude, Go, Fault, cspVars
<1>14. ASSUME NEW t \in Threads, Begin(t)
      PROVE  Acknowledged'
  BY <1>14 DEF Begin, Statement, Begun, Go, cspVars
<1>15. ASSUME NEW t \in Threads, Insert(t)
      PROVE  Acknowledged'
  <2>1. Keeps
    BY <1>15, InsertKeeps
  <2>2. conn'.db[Served(t)] # NoResult
    BY <1>15 DEF Insert, Statement, Executed, Concluded
  <2> QED BY <1>15, <2>1, <2>2 DEF Keeps, Insert, Statement, Executed, Go, cspVars
<1>16. ASSUME NEW t \in Threads, Commit(t)
      PROVE  Acknowledged'
  BY <1>16 DEF Commit, Statement, Committed, Go, cspVars
<1>17. ASSUME NEW t \in Threads, Release(t)
      PROVE  Acknowledged'
  BY <1>17 DEF Release, cspVars
<1>18. ASSUME NEW t \in Threads, Respond(t)
      PROVE  Acknowledged'
  BY <1>18 DEF Respond, Answered, Working, Go
<1>19. ASSUME NEW t \in Threads, DatabaseFails(t)
      PROVE  Acknowledged'
  <2>1. Keeps
    BY <1>19, FailureKeeps
  <2>2. pc[t] \in {"begin", "insert"} => Served(t) \in lost'
    BY <1>19 DEF DatabaseFails
  <2> QED BY <1>19, <2>1, <2>2 DEF Keeps, DatabaseFails, Fault, RolledBack, Opened, Go, cspVars
<1>20. ASSUME Crash
      PROVE  Acknowledged'
  <2>1. Keeps
    BY <1>20, CrashKeeps
  <2>2. \A t \in Threads : pc[t] \in {"begin", "insert"} => Served(t) \in lost'
    BY <1>20 DEF Crash, Serves
  <2> QED BY <1>20, <2>1, <2>2 DEF Keeps, Crash, Fault, RolledBack, Opened, cspVars
<1>21. ASSUME UNCHANGED vars
      PROVE  Acknowledged'
  BY <1>21 DEF vars, gatewayVars, cspVars
<1> QED BY <1>1, <1>2, <1>3, <1>4, <1>5, <1>6, <1>7, <1>8, <1>9, <1>10,
      <1>11, <1>12, <1>13, <1>14, <1>15, <1>16, <1>17, <1>18, <1>19, <1>20,
      <1>21 DEF Next, CspStep, ThreadStep

\* Delivered is said of acknowledged downlinks.
LEMMA DeliveredStep ==
    ASSUME IInv, [Next]_vars
    PROVE  Delivered'
<1> USE DEF IInv, TypeOK, CspTypeOK, GatewayTypeOK, Tables, Delivered, Serving, Served, Concluded, Result, NoResult
<1>1. ASSUME NEW d \in Downlink, Queue(d), UNCHANGED <<wire, gatewayVars, faults>>
      PROVE  Delivered'
  BY <1>1 DEF Queue, gatewayVars
<1>2. ASSUME NEW d \in Downlink, MarkFailure(d), UNCHANGED <<wire, gatewayVars, faults>>
      PROVE  Delivered'
  BY <1>2 DEF MarkFailure, FinishRow, gatewayVars, Idle
<1>3. ASSUME NEW d \in Downlink, Apply(d), UNCHANGED <<wire, gatewayVars, faults>>
      PROVE  Delivered'
  BY <1>3 DEF Apply, FinishRow, Working, gatewayVars, Idle
<1>4. ASSUME NEW claimed \in SUBSET Downlink, Claim(claimed), UNCHANGED <<wire, gatewayVars, faults>>
      PROVE  Delivered'
  BY <1>4 DEF Claim, gatewayVars
<1>5. ASSUME Tick, UNCHANGED <<wire, gatewayVars, faults>>
      PROVE  Delivered'
  BY <1>5 DEF Tick, gatewayVars
<1>6. ASSUME NEW d \in Downlink, Post(d)
      PROVE  Delivered'
  BY <1>6 DEF Post, StartPost, Working, gatewayVars
<1>7. ASSUME NEW d \in Downlink, Disconnected(d) \/ TimedOut(d)
      PROVE  Delivered'
  <2>1. \A t \in Threads : req'[t].downlink = req[t].downlink
    BY <1>7 DEF Disconnected, TimedOut, NoAnswer, Abandoned
  <2>2. UNCHANGED <<pc, conn, res, acked, lost, row>>
    BY <1>7 DEF Disconnected, TimedOut, NoAnswer, Answered, Abandoned, Working, Waiting, Fault, Idle
  <2>3. dispatch'.result = NoResult
    BY <1>7 DEF Disconnected, TimedOut, NoAnswer, Answered, Abandoned, Working, Waiting, Fault, Idle
  <2> QED BY <2>1, <2>2, <2>3
<1>8. ASSUME DispatcherCrash
      PROVE  Delivered'
  <2>1. \A t \in Threads : req'[t].downlink = req[t].downlink
    BY <1>8 DEF DispatcherCrash, Abandoned
  <2>2. UNCHANGED <<pc, conn, res, acked, lost, row>>
    BY <1>8 DEF DispatcherCrash, DispatcherDies, Abandoned, Fault, Idle, Idle
  <2>3. dispatch'.result = NoResult
    BY <1>8 DEF DispatcherCrash, DispatcherDies, Abandoned, Fault, Idle, Idle
  <2> QED BY <2>1, <2>2, <2>3
<1>9. ASSUME NEW m \in wire, NEW t \in Threads, Arrive(m, t)
      PROVE  Delivered'
  BY <1>9 DEF Arrive, Go, cspVars
<1>10. ASSUME NEW t \in Threads, FirstLookup(t) \/ WokenLookup(t) \/ OwnLookup(t)
      PROVE  Delivered'
  <2>1. Served(t) \in Downlink /\ pc[t] # "idle"
    BY <1>10 DEF FirstLookup, WokenLookup, OwnLookup, Lookup, Go, cspVars
  <2>2. res'[t] = conn.db[Served(t)] /\ \A u \in Threads : u # t => res'[u] = res[u] /\ (pc'[u] = pc[u])
    BY <1>10 DEF FirstLookup, WokenLookup, OwnLookup, Lookup, Go, cspVars
  <2>3. UNCHANGED <<req, conn, acked, lost, row, dispatch>>
    BY <1>10 DEF FirstLookup, WokenLookup, OwnLookup, Lookup, cspVars
  <2>4. conn.db[Served(t)].status = "delivered" => Served(t) \in acked
    BY <2>1
  <2>5. ASSUME NEW u \in Threads, pc'[u] # "idle", res'[u].status = "delivered"
        PROVE  Served(u) \in acked
    <3>1. CASE u = t
      BY <3>1, <2>2, <2>4, <2>5
    <3>2. CASE u # t
      BY <3>2, <2>2, <2>5
    <3> QED BY <3>1, <3>2
  <2> QED BY <2>3, <2>5
<1>11. ASSUME NEW t \in Threads, Acquire(t)
      PROVE  Delivered'
  BY <1>11 DEF Acquire, Go, cspVars
<1>12. ASSUME NEW t \in Threads, Process(t)
      PROVE  Delivered'
  BY <1>12 DEF Process, Conclude, Go, cspVars
<1>13. ASSUME NEW t \in Threads, Exchange(t)
      PROVE  Delivered'
  BY <1>13 DEF Exchange, Conclude, Go, Fault, cspVars
<1>14. ASSUME NEW t \in Threads, Begin(t)
      PROVE  Delivered'
  BY <1>14 DEF Begin, Statement, Begun, Go, cspVars
<1>15. ASSUME NEW t \in Threads, Insert(t)
      PROVE  Delivered'
  BY <1>15 DEF Insert, Statement, Executed, Go, cspVars
<1>16. ASSUME NEW t \in Threads, Commit(t)
      PROVE  Delivered'
  BY <1>16 DEF Commit, Statement, Committed, Go, cspVars
<1>17. ASSUME NEW t \in Threads, Release(t)
      PROVE  Delivered'
  BY <1>17 DEF Release, cspVars
<1>18. ASSUME NEW t \in Threads, Respond(t)
      PROVE  Delivered'
  BY <1>18 DEF Respond, Answered, Working, Go
<1>19. ASSUME NEW t \in Threads, DatabaseFails(t)
      PROVE  Delivered'
  BY <1>19 DEF DatabaseFails, Fault, RolledBack, Opened, Go, cspVars
<1>20. ASSUME Crash
      PROVE  Delivered'
  BY <1>20 DEF Crash, Fault, RolledBack, Opened, cspVars
<1>21. ASSUME UNCHANGED vars
      PROVE  Delivered'
  BY <1>21 DEF vars, gatewayVars, cspVars
<1> QED BY <1>1, <1>2, <1>3, <1>4, <1>5, <1>6, <1>7, <1>8, <1>9, <1>10,
      <1>11, <1>12, <1>13, <1>14, <1>15, <1>16, <1>17, <1>18, <1>19, <1>20,
      <1>21 DEF Next, CspStep, ThreadStep

----------------------------------------------------------------------------
(* The delivery promised (GatewayDelivery).  The dispatcher waits for one    *)
(* answer at a time, so what it applies is for a row it has claimed; and an  *)
(* acknowledgement becomes the result of its downlink unless a fault comes   *)
(* between.                                                                  *)

Live(t) == pc[t] # "idle" /\ req[t].live

\* Whoever the dispatcher listens to, it is one, and serves the row it works on.
OneListener ==
    /\ \A m \in wire : m.live => Waiting(m.downlink) /\ \A t \in Threads : ~Live(t)
    /\ \A t \in Threads : Live(t) => Waiting(Served(t))
    /\ \A t, u \in Threads : Live(t) /\ Live(u) => t = u

\* The rows of a batch are claimed, the one being dispatched among them.
Claimed ==
    /\ \A d \in batch : row[d] = "dispatched"
    /\ dispatch.pc # "idle" => dispatch.row \in batch

StoresAck(t, d) == pc[t] \in {"begin", "insert"} /\ Served(t) = d /\ res[t].status = "delivered"

AckIsStored ==
    \A d \in acked \ lost : conn.db[d].status = "delivered" \/ \E t \in Threads : StoresAck(t, d)

DInv == OneListener /\ Claimed /\ AckIsStored

\* Where nobody starts to be listened to
LEMMA ListenerKept ==
    ASSUME OneListener, Claimed, UNCHANGED <<dispatch, wire, req>>,
           \A t \in Threads : pc[t] = "idle" => pc'[t] = "idle"
    PROVE  OneListener'
BY DEF OneListener, Live, Waiting, Served

LEMMA RowsKept == ASSUME Claimed, UNCHANGED <<row, batch, dispatch>> PROVE Claimed'
BY DEF Claimed

\* Dispatcher and threads part: nobody is listened to any more.
LEMMA NobodyListens ==
    ASSUME IInv, DInv, Abandoned
    PROVE  /\ \A m \in wire' : ~m.live
           /\ \A t \in Threads : ~req'[t].live
<1>1. wire \in SUBSET Requests /\ \A t \in Threads : req[t] \in
        [downlink : Downlink \cup {None}, live : BOOLEAN, now : 0..MaxClock]
  BY DEF IInv, TypeOK, GatewayTypeOK
<1>2. \A m \in wire : m.live => m.downlink = dispatch.row
  BY DEF DInv, OneListener, Waiting
<1>3. ASSUME NEW m \in wire
      PROVE  ~(IF m.downlink = dispatch.row THEN [m EXCEPT !.live = FALSE] ELSE m).live
  <2>1. m \in Requests
    BY <1>1
  <2>2. CASE m.downlink = dispatch.row
    BY <2>1, <2>2 DEF Requests
  <2>3. CASE m.downlink # dispatch.row
    BY <1>2, <2>3
  <2> QED BY <2>2, <2>3
<1>4. \A m \in wire' : ~m.live
  BY <1>3 DEF Abandoned
<1>5. \A t \in Threads : ~req'[t].live
  BY <1>1 DEF Abandoned
<1> QED BY <1>4, <1>5

LEMMA ListenerStep ==
    ASSUME IInv, DInv, [Next]_vars
    PROVE  OneListener' /\ Claimed'
<1>1. OneListener /\ Claimed
  BY DEF DInv
<1>2. /\ row \in [Downlink -> Statuses \cup {"absent", "pending", "dispatched", "transport_failed"}]
      /\ batch \in SUBSET Downlink
      /\ dispatch.pc = "idle" <=> dispatch.row = None
      /\ pc \in [Threads -> Pcs]
      /\ \A t \in Threads : pc[t] # "idle" => req[t] \in Serving
      /\ DOMAIN req = Threads /\ wire \in SUBSET Requests
  BY DEF IInv, TypeOK, CspTypeOK, GatewayTypeOK
<1>3. ASSUME NEW d \in Downlink, Queue(d) \/ MarkFailure(d) \/ Apply(d), UNCHANGED <<wire, gatewayVars>>
      PROVE  OneListener' /\ Claimed'
  <2>1. ASSUME Queue(d) PROVE OneListener' /\ Claimed'
    <3>1. UNCHANGED <<batch, dispatch>> /\ d \notin batch /\ \A e \in batch : row'[e] = row[e]
      BY <1>1, <1>2, <2>1 DEF Queue, Claimed
    <3> QED BY <1>1, <1>3, <3>1, ListenerKept DEF Claimed, gatewayVars
  <2>2. ASSUME MarkFailure(d) \/ Apply(d) PROVE OneListener' /\ Claimed'
    <3>1. dispatch.row = d /\ dispatch.pc \in {"fail", "apply"}
      BY <2>2 DEF MarkFailure, Apply
    <3>2. (\A m \in wire : ~m.live) /\ \A t \in Threads : ~Live(t)
      BY <1>1, <3>1 DEF OneListener, Waiting
    <3>3. OneListener'
      BY <1>3, <3>2 DEF OneListener, Live, gatewayVars
    <3>4. \/ UNCHANGED <<row, batch>> /\ dispatch'.row = d
          \/ /\ dispatch' = Idle /\ batch' = batch \ {d}
             /\ \A e \in batch \ {d} : row'[e] = row[e]
      BY <1>2, <2>2 DEF MarkFailure, Apply, FinishRow, Working
    <3>5. Claimed'
      BY <1>1, <3>1, <3>4 DEF Claimed, Idle
    <3> QED BY <3>3, <3>5
  <2> QED BY <1>3, <2>1, <2>2
<1>4. ASSUME NEW claimed \in SUBSET Downlink, Claim(claimed), UNCHANGED <<wire, gatewayVars>>
      PROVE  OneListener' /\ Claimed'
  <2>1. OneListener'
    BY <1>1, <1>4, ListenerKept DEF Claim, gatewayVars
  <2>2. Claimed'
    BY <1>1, <1>4 DEF Claim, Claimed, Idle
  <2> QED BY <2>1, <2>2
<1>5. ASSUME NEW d \in Downlink, Post(d)
      PROVE  OneListener' /\ Claimed'
  <2>1. (\A m \in wire : ~m.live) /\ \A t \in Threads : ~Live(t)
    BY <1>1, <1>5 DEF Post, StartPost, OneListener, Waiting, Idle
  <2>2. dispatch' = [pc |-> "wait", row |-> d, result |-> NoResult] /\ d \in batch
        /\ wire' = wire \cup {[downlink |-> d, live |-> TRUE]} /\ UNCHANGED <<row, batch, pc, req>>
    BY <1>5 DEF Post, StartPost, Working, gatewayVars
  <2>3. OneListener'
    BY <2>1, <2>2 DEF OneListener, Live, Waiting
  <2>4. Claimed'
    BY <1>1, <2>2 DEF Claimed
  <2> QED BY <2>3, <2>4
<1>6. ASSUME NEW d \in Downlink, NoAnswer(d)
      PROVE  OneListener' /\ Claimed'
  <2>1. OneListener'
    BY <1>6, NobodyListens DEF NoAnswer, OneListener, Live
  <2>2. dispatch'.row = d /\ dispatch.row = d /\ dispatch.pc = "wait" /\ UNCHANGED <<row, batch>>
    BY <1>6 DEF NoAnswer, Answered, Working, Waiting
  <2> QED BY <1>1, <2>1, <2>2 DEF Claimed
<1>7. CASE DispatcherCrash
  <2>1. OneListener'
    BY <1>7, NobodyListens DEF DispatcherCrash, OneListener, Live
  <2>2. dispatch' = Idle /\ batch' = {}
    BY <1>7 DEF DispatcherCrash, DispatcherDies
  <2> QED BY <2>1, <2>2 DEF Claimed, Idle
<1>8. ASSUME NEW m \in wire, NEW t \in Threads, Arrive(m, t)
      PROVE  OneListener' /\ Claimed'
  <2>1. /\ pc[t] = "idle" /\ pc' = [pc EXCEPT ![t] = "lookup"] /\ wire' = wire \ {m}
        /\ req' = [req EXCEPT ![t] = [downlink |-> m.downlink, live |-> m.live, now |-> WholeSeconds]]
        /\ UNCHANGED <<row, batch, dispatch>>
    BY <1>8 DEF Arrive, Go, cspVars
  <2>2. req'[t].live = m.live /\ req'[t].downlink = m.downlink
        /\ \A u \in Threads \ {t} : req'[u] = req[u] /\ pc'[u] = pc[u]
    BY <1>2, <2>1
  <2>3. \A u \in Threads \ {t} : Live(u)' = Live(u) /\ Served(u)' = Served(u)
    BY <2>2 DEF Live, Served
  <2>4. Live(t)' => m.live
    BY <2>2 DEF Live
  <2>5. \A k \in wire' : k.live /\ m.live => FALSE
    <3>1. \A k \in wire : k.live /\ m.live => k = m
      BY <1>1, <1>2 DEF OneListener, Waiting, Requests
    <3> QED BY <2>1, <3>1
  <2>6. OneListener'
    BY <1>1, <2>1, <2>2, <2>3, <2>4, <2>5 DEF OneListener, Waiting, Served
  <2> QED BY <1>1, <2>1, <2>6, RowsKept
<1>9. ASSUME NEW t \in Threads, Respond(t)
      PROVE  OneListener' /\ Claimed'
  <2>1. /\ pc[t] = "respond" /\ pc' = [pc EXCEPT ![t] = "idle"]
        /\ req' = [req EXCEPT ![t] = NoRequest] /\ wire' = wire /\ UNCHANGED <<row, batch>>
    BY <1>9 DEF Respond, Go
  <2>2. ~Live(t)' /\ \A u \in Threads \ {t} : Live(u)' = Live(u) /\ Served(u)' = Served(u)
    BY <1>2, <2>1 DEF Live, Served
  <2>3. CASE req[t].live
    <3>1. Live(t) /\ Waiting(Served(t))
      BY <1>1, <2>1, <2>3 DEF OneListener, Live
    <3>2. (\A m \in wire : ~m.live) /\ \A u \in Threads : ~Live(u)'
      BY <1>1, <2>2, <3>1 DEF OneListener
    <3>3. dispatch'.row = Served(t)
      BY <1>9, <2>3 DEF Respond, Answered, Working
    <3>4. OneListener'
      BY <2>1, <3>2 DEF OneListener
    <3>5. Claimed'
      BY <1>1, <2>1, <3>1, <3>3 DEF Claimed, Waiting
    <3> QED BY <3>4, <3>5
  <2>4. CASE ~req[t].live
    <3>1. dispatch' = dispatch
      BY <1>9, <2>4 DEF Respond
    <3>2. OneListener'
      BY <1>1, <2>1, <2>2, <3>1 DEF OneListener, Waiting
    <3> QED BY <1>1, <2>1, <3>1, <3>2, RowsKept
  <2> QED BY <2>3, <2>4
<1>10. CASE Crash
  <2>1. \A t \in Threads : ~Live(t)'
    BY <1>10 DEF Crash, Live
  <2>2. UNCHANGED <<wire, row, batch, dispatch>>
    BY <1>10 DEF Crash, cspVars
  <2>3. OneListener'
    BY <1>1, <2>1, <2>2 DEF OneListener, Waiting
  <2> QED BY <1>1, <2>2, <2>3, RowsKept
<1>11. ASSUME UNCHANGED <<row, batch, dispatch, wire, req>>,
              \A t \in Threads : pc[t] = "idle" => pc'[t] = "idle"
       PROVE  OneListener' /\ Claimed'
  BY <1>1, <1>11, ListenerKept, RowsKept
<1>12. ASSUME NEW t \in Threads, pc[t] # "idle", NEW step, Go(t, step)
       PROVE  \A u \in Threads : pc[u] = "idle" => pc'[u] = "idle"
  BY <1>2, <1>12 DEF Go
<1>13. ASSUME NEW t \in Threads,
              \/ FirstLookup(t) \/ WokenLookup(t) \/ OwnLookup(t) \/ Acquire(t) \/ Process(t)
              \/ Exchange(t) \/ Begin(t) \/ Insert(t) \/ Commit(t) \/ DatabaseFails(t)
       PROVE  OneListener' /\ Claimed'
  <2>1. UNCHANGED <<row, batch, dispatch, wire, req>>
    BY <1>13 DEF FirstLookup, WokenLookup, OwnLookup, Lookup, Acquire, Process, Exchange, Begin,
                 Insert, Commit, Statement, DatabaseFails, cspVars
  <2>2. pc[t] # "idle" /\ \E step : Go(t, step)
    BY <1>13 DEF FirstLookup, WokenLookup, OwnLookup, Lookup, Acquire, Process, Conclude, Exchange,
                 Begin, Insert, Commit, Statement, DatabaseFails
  <2> QED BY <1>11, <1>12, <2>1, <2>2
<1>14. ASSUME NEW t \in Threads, Release(t)
       PROVE  OneListener' /\ Claimed'
  <2>1. UNCHANGED <<row, batch, dispatch, wire, req>>
    BY <1>14 DEF Release, cspVars
  <2>2. \A u \in Threads : pc[u] = "idle" => pc'[u] = "idle"
    BY <1>14 DEF Release
  <2> QED BY <1>11, <2>1, <2>2
<1>15. CASE (Tick /\ UNCHANGED <<wire, gatewayVars, faults>>) \/ UNCHANGED vars
  BY <1>11, <1>15 DEF Tick, vars, cspVars, gatewayVars
<1> QED BY <1>3, <1>4, <1>5, <1>6, <1>7, <1>8, <1>9, <1>10, <1>13, <1>14, <1>15
    DEF Next, CspStep, ThreadStep, Disconnected, TimedOut

\* An acknowledgement is on its way to the store, in it, or a fault came.
LEMMA AckStep ==
    ASSUME IInv, AckIsStored, [Next]_vars
    PROVE  AckIsStored'
<1>1. /\ pc \in [Threads -> Pcs] /\ DOMAIN res = Threads /\ DOMAIN req = Threads
      /\ conn \in [db : Tables, durable : Tables, inTx : BOOLEAN]
      /\ \A t \in Threads : pc[t] # "idle" => Served(t) \in Downlink
      /\ acked \in SUBSET Downlink
  BY DEF IInv, TypeOK, GatewayTypeOK, Serving, Served
<1>2. ASSUME UNCHANGED <<conn, acked, lost, pc, res>>, \A t \in Threads : Served(t)' = Served(t)
      PROVE  AckIsStored'
  BY <1>2 DEF AckIsStored, StoresAck
<1>3. ASSUME NEW t \in Threads, pc[t] \notin {"begin", "insert"}, conn'.db = conn.db,
             UNCHANGED <<acked, lost>>,
             \A u \in Threads \ {t} : pc[u] \in {"begin", "insert"} =>
                 pc'[u] = pc[u] /\ res'[u] = res[u] /\ Served(u)' = Served(u)
      PROVE  AckIsStored'
  BY <1>3 DEF AckIsStored, StoresAck
<1>4. ASSUME Abandoned PROVE \A t \in Threads : Served(t)' = Served(t)
  BY <1>1, <1>4 DEF Abandoned, Served, IInv, TypeOK, GatewayTypeOK
<1>5. CASE (CspStep /\ UNCHANGED <<wire, gatewayVars, faults>>) \/ UNCHANGED vars
  BY <1>2, <1>5 DEF gatewayVars, vars, Served
<1>6. ASSUME NEW d \in Downlink, Post(d)
      PROVE  AckIsStored'
  BY <1>2, <1>6 DEF Post, gatewayVars, Served
<1>7. ASSUME NEW d \in Downlink, Disconnected(d) \/ TimedOut(d)
      PROVE  AckIsStored'
  BY <1>2, <1>4, <1>7 DEF Disconnected, TimedOut, NoAnswer
<1>8. CASE DispatcherCrash
  BY <1>2, <1>4, <1>8 DEF DispatcherCrash
<1>9. ASSUME NEW m \in wire, NEW t \in Threads, Arrive(m, t)
      PROVE  AckIsStored'
  BY <1>1, <1>3, <1>9 DEF Arrive, Go, Served
<1>10. ASSUME NEW t \in Threads, FirstLookup(t) \/ WokenLookup(t) \/ OwnLookup(t) \/ Acquire(t) \/ Process(t)
       PROVE  AckIsStored'
  <2>1. /\ pc[t] \notin {"begin", "insert"} /\ UNCHANGED <<conn, acked, lost, req>>
        /\ \A u \in Threads \ {t} : pc'[u] = pc[u] /\ res'[u] = res[u]
    BY <1>1, <1>10 DEF FirstLookup, WokenLookup, OwnLookup, Lookup, Acquire, Process, Conclude, Go
  <2> QED BY <1>3, <2>1 DEF Served
<1>11. ASSUME NEW t \in Threads, Respond(t) \/ Release(t) \/ Commit(t)
       PROVE  AckIsStored'
  <2>1. /\ pc[t] \notin {"begin", "insert"} /\ conn'.db = conn.db /\ UNCHANGED <<acked, lost>>
        /\ \A u \in Threads \ {t} : res'[u] = res[u] /\ req'[u] = req[u]
        /\ \A u \in Threads \ {t} : pc[u] \in {"begin", "insert"} => pc'[u] = pc[u]
    BY <1>1, <1>11 DEF Respond, Release, Commit, Statement, Committed, Go
  <2> QED BY <1>3, <2>1 DEF Served
<1>12. ASSUME NEW t \in Threads, Exchange(t)
       PROVE  AckIsStored'
  <2>1. /\ pc[t] = "exchange" /\ UNCHANGED <<conn, lost, req>>
        /\ \A u \in Threads \ {t} : pc'[u] = pc[u] /\ res'[u] = res[u]
    BY <1>1, <1>12 DEF Exchange, Conclude, Go
  <2>2. \/ acked' = acked
        \/ /\ acked' = acked \cup {Served(t)} /\ pc'[t] = "begin" /\ res'[t].status = "delivered"
    BY <1>1, <1>12 DEF Exchange, Conclude, Go
  <2>3. ASSUME NEW d \in acked \ lost PROVE (conn'.db[d].status = "delivered" \/ \E u \in Threads : StoresAck(u, d)')
    BY <2>1 DEF AckIsStored, StoresAck, Served
  <2>4. CASE acked' = acked
    BY <2>1, <2>3, <2>4 DEF AckIsStored
  <2>5. CASE acked' = acked \cup {Served(t)} /\ pc'[t] = "begin" /\ res'[t].status = "delivered"
    <3>1. StoresAck(t, Served(t))'
      BY <2>1, <2>5 DEF StoresAck, Served
    <3>2. \A d \in acked' \ lost' : conn'.db[d].status = "delivered" \/ \E u \in Threads : StoresAck(u, d)'
      BY <2>1, <2>3, <2>5 DEF StoresAck, Served
    <3> QED BY <3>2 DEF AckIsStored
  <2> QED BY <2>2, <2>4, <2>5
<1>13. ASSUME NEW t \in Threads, Begin(t)
       PROVE  AckIsStored'
  <2>1. /\ pc'[t] = "insert" /\ conn'.db = conn.db /\ UNCHANGED <<acked, lost, req, res>>
        /\ \A u \in Threads \ {t} : pc'[u] = pc[u]
    BY <1>1, <1>13 DEF Begin, Statement, Begun, Go
  <2> QED BY <2>1 DEF AckIsStored, StoresAck, Served
<1>14. ASSUME NEW t \in Threads, Insert(t)
       PROVE  AckIsStored'
  <2>1. /\ pc[t] = "insert" /\ UNCHANGED <<acked, lost, req, res>>
        /\ conn'.db = [conn.db EXCEPT ![Served(t)] = res[t]]
        /\ \A u \in Threads \ {t} : pc'[u] = pc[u]
    BY <1>1, <1>14 DEF Insert, Statement, Executed, Go
  <2>2. conn.db[Served(t)].status # "delivered" /\ Served(t) \in Downlink
    BY <1>1, <2>1 DEF IInv, Storing, Fresh, NoResult
  <2>3. conn'.db[Served(t)] = res[t] /\ \A d \in Downlink \ {Served(t)} : conn'.db[d] = conn.db[d]
    BY <1>1, <2>1, <2>2 DEF Tables
  <2>4. \A u \in Threads : Served(u)' = Served(u) /\ res'[u] = res[u]
    BY <2>1 DEF Served
  <2>5. ASSUME NEW d \in acked \ lost
        PROVE  conn'.db[d].status = "delivered" \/ \E u \in Threads : StoresAck(u, d)'
    <3>1. CASE conn.db[d].status = "delivered"
      BY <1>1, <2>2, <2>3, <3>1
    <3>2. CASE StoresAck(t, d)
      BY <2>3, <3>2 DEF StoresAck
    <3>3. CASE \E u \in Threads \ {t} : StoresAck(u, d)
      BY <2>1, <2>4, <3>3 DEF StoresAck
    <3> QED BY <3>1, <3>2, <3>3 DEF AckIsStored
  <2> QED BY <2>1, <2>5 DEF AckIsStored
<1>15. ASSUME Keeps, acked' = acked,
              \A t \in Threads : pc[t] \in {"begin", "insert"} =>
                  \/ Served(t) \in lost'
                  \/ pc'[t] = pc[t] /\ res'[t] = res[t] /\ Served(t)' = Served(t)
       PROVE  AckIsStored'
  <2>1. NoResult.status # "delivered"
    BY DEF NoResult
  <2>2. ASSUME NEW d \in acked \ lost'
        PROVE  conn'.db[d].status = "delivered" \/ \E u \in Threads : StoresAck(u, d)'
    <3>1. d \in acked \ lost /\ d \in Downlink
      BY <1>1, <1>15, <2>2 DEF Keeps
    <3>2. CASE conn.db[d].status = "delivered"
      BY <1>15, <2>1, <2>2, <3>1, <3>2 DEF Keeps
    <3>3. CASE \E u \in Threads : StoresAck(u, d)
      BY <1>15, <2>2, <3>3 DEF StoresAck
    <3> QED BY <3>1, <3>2, <3>3 DEF AckIsStored
  <2> QED BY <1>15, <2>2 DEF AckIsStored
<1>16. ASSUME NEW t \in Threads, DatabaseFails(t)
       PROVE  AckIsStored'
  <2>1. Keeps
    BY <1>16, FailureKeeps
  <2>2. /\ acked' = acked /\ req' = req
        /\ pc[t] \in {"begin", "insert"} => Served(t) \in lost'
        /\ \A u \in Threads \ {t} : pc'[u] = pc[u] /\ res'[u] = res[u]
    BY <1>1, <1>16 DEF DatabaseFails, Go
  <2> QED BY <1>15, <2>1, <2>2 DEF Served
<1>17. CASE Crash
  <2>1. Keeps
    BY <1>17, CrashKeeps
  <2>2. acked' = acked /\ \A t \in Threads : pc[t] \in {"begin", "insert"} => Served(t) \in lost'
    BY <1>1, <1>17 DEF Crash, Serves
  <2> QED BY <1>15, <2>1, <2>2
<1> QED BY <1>5, <1>6, <1>7, <1>8, <1>9, <1>10, <1>11, <1>12, <1>13, <1>14, <1>16, <1>17
    DEF Next, ThreadStep

\* A step of the dispatcher is one of the row it is about.
LEMMA RowSimulated ==
    ASSUME IInv, DInv, CspStep, UNCHANGED <<wire, gatewayVars, faults>>
    PROVE  Delivery!Next \/ UNCHANGED Delivery!vars
<1>1. UNCHANGED <<conn, acked, lost>>
  BY DEF gatewayVars
<1>2. ASSUME NEW d \in Downlink, Queue(d)
      PROVE  Delivery!Next
  BY <1>1, <1>2 DEF Queue, Delivery!Queue, Delivery!Row, Delivery!Next
<1>3. ASSUME NEW d \in Downlink, MarkFailure(d)
      PROVE  Delivery!Next
  <2>1. row[d] = "dispatched"
    BY <1>3 DEF MarkFailure, DInv, Claimed
  <2>2. Delivery!Retry(d)
    BY <1>1, <1>3, <2>1 DEF MarkFailure, Delivery!Retry, Delivery!Row
  <2> QED BY <2>2 DEF Delivery!Next
<1>4. ASSUME NEW d \in Downlink, Apply(d)
      PROVE  Delivery!Next \/ UNCHANGED Delivery!vars
  <2>1. dispatch.pc = "apply" /\ dispatch.row = d
    BY <1>4 DEF Apply
  <2>2. CASE row' = row
    BY <1>1, <2>2 DEF Delivery!vars
  <2>3. CASE row' # row
    <3>1. row[d] = "dispatched"
      BY <2>1 DEF DInv, Claimed
    <3>2. dispatch.result \in Result
      BY <2>1 DEF IInv, TypeOK, CspTypeOK
    <3>3. PICK status \in Statuses : status = dispatch.result.status
      BY <3>2 DEF Result
    <3>4. /\ status = conn.db[d].status \/ d \in lost
          /\ status = "delivered" => d \in acked
      BY <2>1, <3>3 DEF IInv, Results, IsStored, Delivered
    <3>5. row' = [row EXCEPT ![d] = status]
      BY <1>4, <2>3, <3>3 DEF Apply
    <3>6. Delivery!Finish(d, status)
      BY <1>1, <3>1, <3>4, <3>5 DEF Delivery!Finish, Delivery!Row
    <3> QED BY <3>6 DEF Delivery!Next
  <2> QED BY <2>2, <2>3
<1>5. ASSUME NEW claimed \in SUBSET Downlink, Claim(claimed)
      PROVE  Delivery!Next
  <2>1. Delivery!Dispatch(claimed)
    BY <1>1, <1>5 DEF Claim, Delivery!Dispatch
  <2> QED BY <2>1 DEF Delivery!Next
<1>6. CASE Tick
  BY <1>1, <1>6 DEF Tick, Delivery!vars
<1> QED BY <1>2, <1>3, <1>4, <1>5, <1>6 DEF CspStep

\* The one result of a downlink is stored where there was none.
LEMMA InsertIsStore ==
    ASSUME IInv, DInv, NEW t \in Threads, Insert(t)
    PROVE  Delivery!Next
<1>1. pc[t] = "insert" /\ UNCHANGED <<row, acked, lost>>
  BY DEF Insert, Statement, cspVars
<1>2. /\ req[t] \in Serving /\ res[t] \in Result \cup {NoResult} /\ res[t] # NoResult
      /\ conn \in [db : Tables, durable : Tables, inTx : BOOLEAN]
  BY <1>1 DEF IInv, TypeOK, GatewayTypeOK, Concluded
<1>3. PICK d \in Downlink, r \in Result : d = Served(t) /\ r = res[t]
  BY <1>2 DEF Serving, Served
<1>4. conn'.db = [conn.db EXCEPT ![d] = r] /\ conn'.durable = conn.durable
  BY <1>2, <1>3 DEF Insert, Statement, Executed
<1>5. conn.db[d] = NoResult
  BY <1>1, <1>3 DEF IInv, Storing, Fresh
<1>6. r.status = "delivered" => d \in acked
  BY <1>1, <1>3 DEF IInv, Delivered
<1>7. d \in acked \ lost => r.status = "delivered"
  <2> SUFFICES ASSUME d \in acked \ lost PROVE r.status = "delivered"
    OBVIOUS
  <2>1. conn.db[d].status # "delivered"
    BY <1>5 DEF NoResult
  <2>2. PICK u \in Threads : StoresAck(u, d)
    BY <2>1 DEF DInv, AckIsStored
  <2>3. owner[d] = t /\ owner[d] = u
    BY <1>1, <1>3, <2>2 DEF IInv, Ownership, Owning, StoresAck
  <2> QED BY <1>3, <2>2, <2>3 DEF StoresAck
<1>8. Delivery!Store(d, r)
  BY <1>1, <1>4, <1>5, <1>6, <1>7 DEF Delivery!Store
<1> QED BY <1>8 DEF Delivery!Next

\* A fault takes back what it marks as lost, and only that.
LEMMA FaultLoses ==
    ASSUME IInv, Keeps, UNCHANGED <<row, acked>>, lost' \in SUBSET Downlink,
           conn'.durable = conn.durable, conn'.db \in {conn.db, conn.durable}
    PROVE  Delivery!Next
<1>1. PICK hit \in SUBSET Downlink : hit = lost'
  OBVIOUS
<1>2. \A d \in Downlink : conn'.db[d] # conn.db[d] => conn'.db[d] = NoResult /\ d \in hit
  <2> SUFFICES ASSUME NEW d \in Downlink, conn'.db[d] # conn.db[d]
               PROVE  conn'.db[d] = NoResult /\ d \in hit
    OBVIOUS
  <2>1. conn'.db[d] = conn.durable[d] /\ conn.durable[d] = NoResult
    BY DEF IInv, Storing
  <2> QED BY <1>1, <2>1 DEF Keeps
<1>3. Delivery!Lose(hit)
  BY <1>1, <1>2 DEF Delivery!Lose, Keeps
<1> QED BY <1>3 DEF Delivery!Next

\* Every step of gateway and dispatcher is one of the promised delivery, or none.
LEMMA DeliverySimulated ==
    ASSUME IInv, DInv, [Next]_vars
    PROVE  Delivery!Next \/ UNCHANGED Delivery!vars
<1>1. conn \in [db : Tables, durable : Tables, inTx : BOOLEAN] /\ lost \in SUBSET Downlink
  BY DEF IInv, TypeOK, GatewayTypeOK
<1>2. GatewayTypeOK'
  BY GatewayTypeStep
<1>3. ASSUME NEW d \in Downlink, Post(d) \/ Disconnected(d) \/ TimedOut(d)
      PROVE  UNCHANGED Delivery!vars
  BY <1>3 DEF Post, StartPost, Disconnected, TimedOut, NoAnswer, gatewayVars, Delivery!vars
<1>4. CASE DispatcherCrash
  BY <1>4 DEF DispatcherCrash, DispatcherDies, Delivery!vars
<1>5. ASSUME NEW m \in wire, NEW t \in Threads, Arrive(m, t)
      PROVE  UNCHANGED Delivery!vars
  BY <1>5 DEF Arrive, cspVars, Delivery!vars
<1>6. ASSUME NEW t \in Threads,
             FirstLookup(t) \/ WokenLookup(t) \/ OwnLookup(t) \/ Acquire(t) \/ Process(t)
             \/ Release(t) \/ Respond(t)
      PROVE  UNCHANGED Delivery!vars
  BY <1>6 DEF FirstLookup, WokenLookup, OwnLookup, Lookup, Acquire, Process, Release, Respond,
              cspVars, Delivery!vars
<1>7. ASSUME NEW t \in Threads, Exchange(t)
      PROVE  Delivery!Next \/ UNCHANGED Delivery!vars
  <2>1. pc[t] = "exchange" /\ UNCHANGED <<row, conn, lost>>
    BY <1>7 DEF Exchange, cspVars
  <2>2. PICK d \in Downlink : d = Served(t)
    BY <2>1 DEF IInv, TypeOK, GatewayTypeOK, Serving, Served
  <2>3. conn.db[d] = NoResult
    BY <2>1, <2>2 DEF IInv, Storing, Fresh
  <2>4. acked' = acked \/ acked' = acked \cup {d}
    BY <1>7, <2>2 DEF Exchange
  <2>5. Delivery!Deliver(d) \/ UNCHANGED Delivery!vars
    BY <2>1, <2>3, <2>4 DEF Delivery!Deliver, Delivery!vars
  <2> QED BY <2>5 DEF Delivery!Next
<1>8. ASSUME NEW t \in Threads, Begin(t)
      PROVE  UNCHANGED Delivery!vars
  BY <1>1, <1>8 DEF Begin, Statement, Begun, cspVars, Delivery!vars
<1>9. ASSUME NEW t \in Threads, Insert(t)
      PROVE  Delivery!Next
  BY <1>9, InsertIsStore
<1>10. ASSUME NEW t \in Threads, Commit(t)
       PROVE  Delivery!Next
  <2>1. conn'.db = conn.db /\ conn'.durable = conn.db /\ UNCHANGED <<row, acked, lost>>
    BY <1>1, <1>10 DEF Commit, Statement, Committed, cspVars
  <2>2. \A d \in Downlink : conn.durable[d] # NoResult => conn.db[d] = conn.durable[d]
    BY DEF IInv, Storing
  <2>3. Delivery!Commit
    BY <2>1, <2>2 DEF Delivery!Commit
  <2> QED BY <2>3 DEF Delivery!Next
<1>11. ASSUME NEW t \in Threads, DatabaseFails(t)
       PROVE  Delivery!Next
  <2>1. /\ UNCHANGED <<row, acked>>
        /\ conn'.durable = conn.durable /\ conn'.db \in {conn.db, conn.durable}
    BY <1>1, <1>11 DEF DatabaseFails, RolledBack, Opened, cspVars
  <2>2. lost' \in SUBSET Downlink
    BY <1>2 DEF GatewayTypeOK
  <2> QED BY <1>11, <2>1, <2>2, FailureKeeps, FaultLoses
<1>12. CASE Crash
  <2>1. /\ UNCHANGED <<row, acked>>
        /\ conn'.durable = conn.durable /\ conn'.db = conn.durable
    BY <1>12 DEF Crash, RolledBack, Opened, cspVars
  <2>2. lost' \in SUBSET Downlink
    BY <1>2 DEF GatewayTypeOK
  <2> QED BY <1>12, <2>1, <2>2, CrashKeeps, FaultLoses
<1>13. CASE UNCHANGED vars
  BY <1>13 DEF vars, cspVars, gatewayVars, Delivery!vars
<1> QED BY <1>3, <1>4, <1>5, <1>6, <1>7, <1>8, <1>9, <1>10, <1>11, <1>12, <1>13, RowSimulated
    DEF Next, ThreadStep

LEMMA InitDelivery == Init => Delivery!Init /\ DInv
<1> SUFFICES ASSUME Init PROVE Delivery!Init /\ DInv
  OBVIOUS
<1>1. Delivery!Init
  BY DEF Init, CspInit, Opened, Delivery!Init
<1>2. DInv
  BY DEF Init, CspInit, Idle, DInv, OneListener, Live, Claimed, AckIsStored
<1> QED BY <1>1, <1>2

----------------------------------------------------------------------------
(* How old a result can be (ResultsFollowQueueing does not hold).  Requests  *)
(* are for rows that are queued already, and a request's stamp is the second *)
(* it arrives in; so is the stamp of whatever result it leaves, wherever     *)
(* that goes.  It may be older than the row, but not by more than the part   *)
(* of a second the row has and the stamp has not.                            *)

SecondOf(time) == time - (time % 2)

\* A stamp a request for a queued downlink may have
OnTime(d, stamp) == row[d] # "absent" /\ SecondOf(queuedAt[d]) <= stamp

Carries(d, result) == result # NoResult => OnTime(d, result.completed)

Stamped ==
    /\ \A d \in Downlink : queuedAt[d] <= clock
    /\ \A m \in wire : row[m.downlink] # "absent"
    /\ \A t \in Threads : pc[t] # "idle" => OnTime(Served(t), req[t].now)
    /\ \A t \in Threads : pc[t] # "idle" => Carries(Served(t), res[t])
    /\ \A d \in Downlink : Carries(d, conn.db[d]) /\ Carries(d, conn.durable[d])
    /\ dispatch.pc # "idle" => Carries(dispatch.row, dispatch.result)

ResultsFollowTheSecond ==
    dispatch.pc = "apply" => dispatch.result.completed >= SecondOf(queuedAt[dispatch.row])

\* A later moment is in no earlier second.
LEMMA SecondsGrow == ASSUME NEW a \in Nat, NEW b \in Nat, a <= b PROVE SecondOf(a) <= SecondOf(b)
<1>1. a % 2 \in {0, 1} /\ b % 2 \in {0, 1}
  OBVIOUS
<1>2. CASE a = b
  BY <1>2, <1>1 DEF SecondOf
<1>3. CASE a + 1 = b
  <2>1. a % 2 = 1 => b % 2 = 0
    BY <1>3
  <2> QED BY <1>1, <1>3, <2>1 DEF SecondOf
<1>4. CASE a + 1 < b
  BY <1>1, <1>4 DEF SecondOf
<1> QED BY <1>2, <1>3, <1>4

\* A row once queued stays queued since the same moment, and the clock goes on.
LEMMA RowsAge ==
    ASSUME IInv, \A d \in Downlink : queuedAt[d] <= clock, [Next]_vars
    PROVE  /\ \A d \in Downlink : row[d] # "absent" =>
                row'[d] # "absent" /\ queuedAt'[d] = queuedAt[d]
           /\ \A d \in Downlink : queuedAt'[d] <= clock'
<1>1. /\ row \in [Downlink -> Statuses \cup {"absent", "pending", "dispatched", "transport_failed"}]
      /\ queuedAt \in [Downlink -> 0..MaxClock] /\ clock \in 0..MaxClock
      /\ dispatch.pc = "apply" => dispatch.result.status \in Statuses
  BY DEF IInv, TypeOK, CspTypeOK, Result
<1> DEFINE Goal == /\ \A d \in Downlink : row[d] # "absent" =>
                        row'[d] # "absent" /\ queuedAt'[d] = queuedAt[d]
                   /\ \A d \in Downlink : queuedAt'[d] <= clock'
<1>2. ASSUME NEW d \in Downlink, Queue(d) PROVE Goal
  BY <1>1, <1>2 DEF Queue
<1>3. ASSUME NEW d \in Downlink, MarkFailure(d) PROVE Goal
  BY <1>1, <1>3 DEF MarkFailure
<1>4. ASSUME NEW d \in Downlink, Apply(d) PROVE Goal
  BY <1>1, <1>4 DEF Apply, Statuses
<1>5. ASSUME NEW claimed \in SUBSET Downlink, Claim(claimed) PROVE Goal
  BY <1>1, <1>5 DEF Claim
<1>6. CASE Tick
  BY <1>1, <1>6 DEF Tick
<1>7. ASSUME UNCHANGED <<row, queuedAt, clock>> PROVE Goal
  BY <1>7
<1>8. ASSUME NEW d \in Downlink, Post(d) \/ Disconnected(d) \/ TimedOut(d) PROVE Goal
  BY <1>7, <1>8 DEF Post, StartPost, Disconnected, TimedOut, NoAnswer
<1>9. CASE DispatcherCrash \/ Crash \/ UNCHANGED vars
  BY <1>7, <1>9 DEF DispatcherCrash, DispatcherDies, Crash, vars, cspVars
<1>10. ASSUME NEW t \in Threads,
              \/ \E m \in wire : Arrive(m, t)
              \/ ThreadStep(t) \/ DatabaseFails(t)
       PROVE  Goal
  BY <1>7, <1>10 DEF Arrive, ThreadStep, FirstLookup, WokenLookup, OwnLookup, Lookup, Acquire,
       Process, Exchange, Begin, Insert, Commit, Statement, Release, Respond, DatabaseFails, cspVars
<1> QED BY <1>2, <1>3, <1>4, <1>5, <1>6, <1>8, <1>9, <1>10 DEF Next, CspStep

\* What is on time stays on time.
LEMMA StampsStay ==
    ASSUME IInv, Stamped, [Next]_vars
    PROVE  /\ \A d \in Downlink : \A stamp : OnTime(d, stamp) => OnTime(d, stamp)'
           /\ \A d \in Downlink : \A result : Carries(d, result) => Carries(d, result)'
<1>1. \A d \in Downlink : row[d] # "absent" => row'[d] # "absent" /\ queuedAt'[d] = queuedAt[d]
  BY RowsAge DEF Stamped
<1>2. \A d \in Downlink : \A stamp : OnTime(d, stamp) => OnTime(d, stamp)'
  BY <1>1 DEF OnTime
<1> QED BY <1>2 DEF Carries

\* Requests are stamped when they arrive, results with their request's stamp.
LEMMA StampedStep ==
    ASSUME IInv, Claimed, Stamped, [Next]_vars
    PROVE  Stamped'
<1> DEFINE WireOK == \A m \in wire : row[m.downlink] # "absent"
           ReqOK  == \A t \in Threads : pc[t] # "idle" => OnTime(Served(t), req[t].now)
           ResOK  == \A t \in Threads : pc[t] # "idle" => Carries(Served(t), res[t])
           ConnOK == \A d \in Downlink : Carries(d, conn.db[d]) /\ Carries(d, conn.durable[d])
           CspOK  == dispatch.pc # "idle" => Carries(dispatch.row, dispatch.result)
<1>1. /\ wire \in SUBSET Requests /\ pc \in [Threads -> Pcs]
      /\ req \in [Threads -> [downlink : Downlink \cup {None}, live : BOOLEAN, now : 0..MaxClock]]
      /\ res \in [Threads -> Result \cup {NoResult}]
      /\ \A t \in Threads : pc[t] # "idle" => Served(t) \in Downlink
      /\ conn \in [db : Tables, durable : Tables, inTx : BOOLEAN]
      /\ dispatch.pc # "idle" => dispatch.row \in Downlink
      /\ batch \in SUBSET Downlink /\ clock \in 0..MaxClock /\ queuedAt \in [Downlink -> 0..MaxClock]
  BY DEF IInv, TypeOK, CspTypeOK, GatewayTypeOK, Serving, Served
<1>2. WireOK /\ ReqOK /\ ResOK /\ ConnOK /\ CspOK
  BY DEF Stamped
<1>3. /\ \A d \in Downlink : \A stamp : OnTime(d, stamp) => OnTime(d, stamp)'
      /\ \A d \in Downlink : \A result : Carries(d, result) => Carries(d, result)'
      /\ \A d \in Downlink : row[d] # "absent" => row'[d] # "absent"
      /\ \A d \in Downlink : queuedAt'[d] <= clock'
  BY StampsStay, RowsAge DEF Stamped
<1>4. wire' \subseteq wire => WireOK'
  BY <1>1, <1>2, <1>3 DEF Requests
<1>5. ASSUME NEW t \in Threads, pc[t] # "idle", req'[t].downlink = Served(t), req'[t].now = req[t].now
      PROVE  OnTime(Served(t), req[t].now)'
  BY <1>1, <1>2, <1>3, <1>5 DEF Served
<1>6. ASSUME NEW t \in Threads, pc[t] # "idle", req'[t].downlink = Served(t), res'[t] = res[t]
      PROVE  Carries(Served(t), res[t])'
  BY <1>1, <1>2, <1>3, <1>6 DEF Served
<1>7. conn' = conn => ConnOK'
  BY <1>2, <1>3
<1>8. dispatch' = dispatch => CspOK'
  BY <1>1, <1>2, <1>3
<1>9. dispatch'.result = NoResult => CspOK'
  BY DEF Carries
<1>10. ASSUME UNCHANGED req, \A t \in Threads : pc[t] = "idle" => pc'[t] = "idle"
       PROVE  ReqOK'
  BY <1>5, <1>10 DEF Served
<1>11. ASSUME UNCHANGED <<req, res>>, \A t \in Threads : pc[t] = "idle" => pc'[t] = "idle"
       PROVE  ReqOK' /\ ResOK'
  BY <1>5, <1>6, <1>11 DEF Served
<1> USE DEF Served
<1>12. ASSUME WireOK', ReqOK', ResOK', ConnOK', CspOK' PROVE Stamped'
  BY <1>3, <1>12 DEF Stamped
<1>13. ASSUME UNCHANGED <<wire, pc, req, res, conn>>, CspOK' PROVE Stamped'
  BY <1>4, <1>7, <1>11, <1>12, <1>13
<1> HIDE DEF WireOK, ReqOK, ResOK, ConnOK, CspOK
<1>14. ASSUME NEW d \in Downlink, Queue(d) \/ MarkFailure(d) \/ Apply(d), UNCHANGED <<wire, gatewayVars>>
       PROVE  Stamped'
  <2>1. dispatch' = dispatch \/ dispatch'.result = NoResult
    BY <1>14 DEF Queue, MarkFailure, Apply, FinishRow, Working, Idle
  <2> QED BY <1>8, <1>9, <1>13, <1>14, <2>1 DEF gatewayVars
<1>15. ASSUME NEW claimed \in SUBSET Downlink, Claim(claimed), UNCHANGED <<wire, gatewayVars>>
       PROVE  Stamped'
  BY <1>8, <1>13, <1>15 DEF Claim, gatewayVars
<1>16. ASSUME NEW d \in Downlink, Post(d)
       PROVE  Stamped'
  <2>1. row'[d] # "absent" /\ wire' = wire \cup {[downlink |-> d, live |-> TRUE]}
        /\ dispatch'.result = NoResult /\ UNCHANGED <<pc, req, res, conn>>
    BY <1>16, <1>3 DEF Post, StartPost, Working, gatewayVars, Claimed
  <2>2. WireOK'
    BY <1>1, <1>2, <1>3, <2>1 DEF WireOK, Requests
  <2> QED BY <1>7, <1>9, <1>11, <1>12, <2>1, <2>2
<1>17. ASSUME Abandoned, UNCHANGED <<pc, res, conn>>, dispatch'.result = NoResult
       PROVE  Stamped'
  <2>1. \A m \in wire' : \E k \in wire : m.downlink = k.downlink
    <3>1. \A k \in wire : [k EXCEPT !.live = FALSE].downlink = k.downlink
      BY <1>1 DEF Requests
    <3> QED BY <1>17, <3>1 DEF Abandoned
  <2>2. WireOK'
    BY <1>1, <1>2, <1>3, <2>1 DEF WireOK, Requests
  <2>3. \A t \in Threads : req'[t].downlink = req[t].downlink /\ req'[t].now = req[t].now
    BY <1>1, <1>17 DEF Abandoned
  <2>4. ReqOK' /\ ResOK'
    BY <1>5, <1>6, <1>17, <2>3 DEF ReqOK, ResOK
  <2> QED BY <1>7, <1>9, <1>12, <1>17, <2>2, <2>4
<1>18. ASSUME NEW d \in Downlink, NoAnswer(d)
       PROVE  Stamped'
  BY <1>17, <1>18 DEF NoAnswer, Answered, Working
<1>19. CASE DispatcherCrash
  BY <1>17, <1>19 DEF DispatcherCrash, DispatcherDies, Idle
<1>20. ASSUME NEW m \in wire, NEW t \in Threads, Arrive(m, t)
       PROVE  Stamped'
  <2>1. /\ pc[t] = "idle" /\ pc' = [pc EXCEPT ![t] = "lookup"] /\ wire' = wire \ {m}
        /\ req' = [req EXCEPT ![t] = [downlink |-> m.downlink, live |-> m.live, now |-> WholeSeconds]]
        /\ UNCHANGED <<row, queuedAt, clock, dispatch, res, conn>>
    BY <1>20 DEF Arrive, Go, cspVars
  <2>2. m.downlink \in Downlink /\ row[m.downlink] # "absent"
    BY <1>1, <1>2, <1>20 DEF WireOK, Requests
  <2>3. queuedAt[m.downlink] \in Nat /\ clock \in Nat /\ queuedAt[m.downlink] <= clock
    BY <1>1, <2>2 DEF Stamped
  <2>4. OnTime(m.downlink, WholeSeconds)
    BY <2>2, <2>3, SecondsGrow DEF OnTime, WholeSeconds, SecondOf
  <2>5. OnTime(m.downlink, WholeSeconds)'
    BY <2>1, <2>4 DEF OnTime, WholeSeconds
  <2>6. req'[t].downlink = m.downlink /\ req'[t].now = WholeSeconds'
    BY <1>1, <2>1 DEF WholeSeconds
  <2>7. \A u \in Threads \ {t} : pc'[u] = pc[u] /\ req'[u] = req[u]
    BY <1>1, <2>1
  <2>8. ReqOK'
    BY <1>5, <2>5, <2>6, <2>7 DEF ReqOK
  <2>9. res[t] = NoResult
    BY <2>1 DEF IInv, Concluded
  <2>10. ResOK'
    BY <1>6, <2>1, <2>7, <2>9 DEF ResOK, Carries
  <2> QED BY <1>4, <1>7, <1>8, <1>12, <2>1, <2>8, <2>10
<1>21. ASSUME NEW t \in Threads, pc[t] # "idle", NEW step, Go(t, step)
       PROVE  /\ \A u \in Threads : pc[u] = "idle" => pc'[u] = "idle"
              /\ \A u \in Threads \ {t} : pc'[u] = pc[u]
  BY <1>1, <1>21 DEF Go
<1>22. ASSUME NEW t \in Threads, pc[t] # "idle", NEW step, Go(t, step), UNCHANGED <<wire, req, dispatch>>,
              NEW result, res' = [res EXCEPT ![t] = result], Carries(Served(t), result), ConnOK'
       PROVE  Stamped'
  <2>1. \A u \in Threads \ {t} : res'[u] = res[u] /\ pc'[u] = pc[u]
    BY <1>1, <1>21, <1>22
  <2>2. res'[t] = result /\ Carries(Served(t), result)'
    BY <1>1, <1>3, <1>22
  <2>3. ResOK'
    BY <1>6, <1>22, <2>1, <2>2 DEF ResOK
  <2> QED BY <1>4, <1>8, <1>10, <1>12, <1>21, <1>22, <2>3
<1>23. ASSUME NEW t \in Threads, FirstLookup(t) \/ WokenLookup(t) \/ OwnLookup(t)
       PROVE  Stamped'
  <2>1. /\ pc[t] # "idle" /\ res' = [res EXCEPT ![t] = conn.db[Served(t)]]
        /\ (\E step : Go(t, step)) /\ UNCHANGED <<wire, req, dispatch, conn>>
    BY <1>23 DEF FirstLookup, WokenLookup, OwnLookup, Lookup, cspVars
  <2>2. Carries(Served(t), conn.db[Served(t)])
    BY <1>1, <1>2, <2>1 DEF ConnOK
  <2> QED BY <1>7, <1>22, <2>1, <2>2
<1>24. ASSUME NEW t \in Threads, NEW status, pc[t] # "idle", Conclude(t, status),
              UNCHANGED <<wire, req, dispatch, conn>>
       PROVE  Stamped'
  <2>1. Carries(Served(t), [status |-> status, completed |-> req[t].now])
    BY <1>2, <1>24 DEF ReqOK, Carries
  <2> QED BY <1>7, <1>22, <1>24, <2>1 DEF Conclude
<1>25. ASSUME NEW t \in Threads, pc[t] # "idle", NEW step, Go(t, step), ConnOK',
              UNCHANGED <<wire, req, res, dispatch>>
       PROVE  Stamped'
  BY <1>4, <1>8, <1>11, <1>12, <1>21, <1>25
<1>26. ASSUME NEW t \in Threads, Process(t) \/ Exchange(t)
       PROVE  Stamped'
  <2>1. pc[t] # "idle" /\ UNCHANGED <<wire, req, dispatch, conn>>
    BY <1>26 DEF Process, Exchange, cspVars
  <2>2. (\E status : Conclude(t, status)) \/ (UNCHANGED res /\ \E step : Go(t, step))
    BY <1>26 DEF Process, Exchange
  <2> QED BY <1>7, <1>24, <1>25, <2>1, <2>2
<1>27. ASSUME NEW t \in Threads, Acquire(t) \/ Begin(t)
       PROVE  Stamped'
  <2>1. /\ pc[t] # "idle" /\ (\E step : Go(t, step)) /\ UNCHANGED <<wire, req, res, dispatch>>
        /\ conn'.db = conn.db /\ conn'.durable = conn.durable
    BY <1>1, <1>27 DEF Acquire, Begin, Statement, Begun, cspVars
  <2>2. ConnOK'
    BY <1>2, <1>3, <2>1 DEF ConnOK
  <2> QED BY <1>25, <2>1, <2>2
<1>28. ASSUME NEW t \in Threads, Insert(t)
       PROVE  Stamped'
  <2>1. /\ pc[t] # "idle" /\ (\E step : Go(t, step)) /\ UNCHANGED <<wire, req, res, dispatch>>
        /\ conn'.db = [conn.db EXCEPT ![Served(t)] = res[t]] /\ conn'.durable = conn.durable
    BY <1>1, <1>28 DEF Insert, Statement, Executed, cspVars
  <2>2. Carries(Served(t), res[t])
    BY <1>2, <2>1 DEF ResOK
  <2>3. \A d \in Downlink : Carries(d, conn'.db[d])
    BY <1>1, <1>2, <2>1, <2>2 DEF ConnOK, Tables
  <2>4. ConnOK'
    BY <1>2, <1>3, <2>1, <2>3 DEF ConnOK
  <2> QED BY <1>25, <2>1, <2>4
<1>29. ASSUME NEW t \in Threads, Commit(t)
       PROVE  Stamped'
  <2>1. /\ pc[t] # "idle" /\ (\E step : Go(t, step)) /\ UNCHANGED <<wire, req, res, dispatch>>
        /\ conn'.db = conn.db /\ conn'.durable = conn.db
    BY <1>1, <1>29 DEF Commit, Statement, Committed, cspVars
  <2>2. ConnOK'
    BY <1>2, <1>3, <2>1 DEF ConnOK
  <2> QED BY <1>25, <2>1, <2>2
<1>30. ASSUME conn' = RolledBack(conn) \/ conn' = conn PROVE ConnOK'
  <2>1. conn'.db \in {conn.db, conn.durable} /\ conn'.durable = conn.durable
    BY <1>30 DEF RolledBack, Opened
  <2> QED BY <1>2, <1>3, <2>1 DEF ConnOK
<1>31. ASSUME NEW t \in Threads, DatabaseFails(t)
       PROVE  Stamped'
  <2>1. /\ pc[t] # "idle" /\ (\E step : Go(t, step)) /\ UNCHANGED <<wire, req, dispatch>>
        /\ res' = [res EXCEPT ![t] = NoResult] /\ (conn' = RolledBack(conn) \/ conn' = conn)
    BY <1>31 DEF DatabaseFails, cspVars
  <2>2. Carries(Served(t), NoResult)
    BY DEF Carries
  <2> QED BY <1>22, <1>30, <2>1, <2>2
<1>32. ASSUME NEW t \in Threads, Release(t)
       PROVE  Stamped'
  <2>1. UNCHANGED <<wire, req, res, conn, dispatch>> /\ \A u \in Threads : pc[u] = "idle" => pc'[u] = "idle"
    BY <1>32 DEF Release, cspVars
  <2> QED BY <1>4, <1>7, <1>8, <1>11, <1>12, <2>1
<1>33. ASSUME NEW t \in Threads, Respond(t)
       PROVE  Stamped'
  <2>1. /\ pc[t] = "respond" /\ pc' = [pc EXCEPT ![t] = "idle"] /\ UNCHANGED <<wire, conn>>
        /\ req' = [req EXCEPT ![t] = NoRequest] /\ res' = [res EXCEPT ![t] = NoResult]
    BY <1>33 DEF Respond, Go
  <2>2. pc'[t] = "idle" /\ \A u \in Threads \ {t} : pc'[u] = pc[u] /\ req'[u] = req[u] /\ res'[u] = res[u]
    BY <1>1, <2>1
  <2>3. ReqOK' /\ ResOK'
    BY <1>5, <1>6, <2>2 DEF ReqOK, ResOK
  <2>4. CspOK'
    <3>1. CASE dispatch' = dispatch
      BY <1>8, <3>1
    <3>2. CASE Answered(Served(t), res[t])
      <4>1. Carries(Served(t), res[t])' \/ Carries(Served(t), res[t])
        BY <1>2, <2>1 DEF ResOK
      <4>2. dispatch'.row = Served(t) /\ dispatch'.result = res[t] /\ Served(t) \in Downlink
        BY <1>1, <2>1, <3>2 DEF Answered, Working
      <4>3. Carries(Served(t), res[t])
        BY <1>2, <2>1 DEF ResOK
      <4> DEFINE d == Served(t)
                 r == res[t]
      <4>4. \A e \in Downlink : \A result : e = d /\ result = r => Carries(e, result)'
        BY <1>3, <4>3
      <4> HIDE DEF d, r
      <4> QED BY <4>2, <4>4 DEF CspOK, d, r
    <3> QED BY <1>33, <3>1, <3>2 DEF Respond
  <2> QED BY <1>4, <1>7, <1>12, <2>1, <2>3, <2>4
<1>34. CASE Crash
  <2>1. /\ \A t \in Threads : pc'[t] = "idle"
        /\ UNCHANGED <<wire, dispatch>> /\ conn' = RolledBack(conn)
    BY <1>34 DEF Crash, cspVars
  <2>2. ReqOK' /\ ResOK'
    BY <2>1 DEF ReqOK, ResOK
  <2> QED BY <1>4, <1>8, <1>12, <1>30, <2>1, <2>2
<1>35. CASE (Tick /\ UNCHANGED <<wire, gatewayVars, faults>>) \/ UNCHANGED vars
  BY <1>8, <1>13, <1>35 DEF Tick, vars, cspVars, gatewayVars
<1> QED BY <1>14, <1>15, <1>16, <1>18, <1>19, <1>20, <1>23, <1>26, <1>27, <1>28, <1>29, <1>31,
      <1>32, <1>33, <1>34, <1>35
    DEF Next, CspStep, ThreadStep, Disconnected, TimedOut

----------------------------------------------------------------------------
(* The theorems.                                                           *)

\* The invariant holds at the start,
LEMMA InitInv == Init => IInv
<1> SUFFICES ASSUME Init PROVE IInv
  OBVIOUS
<1> USE DEF Init, CspInit, Idle
<1>1. 0 \in 0..MaxClock /\ 0 \in 0..MaxFaults /\ NoResult.status = "none"
  BY DEF NoResult
<1>2. CspTypeOK
  BY <1>1 DEF CspTypeOK
<1>3. NoRequest \in [downlink : Downlink \cup {None}, live : BOOLEAN, now : 0..MaxClock]
  BY <1>1 DEF NoRequest
<1>4. GatewayTypeOK
  BY <1>1, <1>3 DEF GatewayTypeOK, Tables, Opened, Pcs
<1>5. TypeOK /\ Ownership /\ OneTransaction
  BY <1>2, <1>4 DEF TypeOK, Ownership, OneTransaction, InTransaction, Opened, Owning
<1>6. Storing /\ Acknowledged /\ Delivered /\ Concluded
  BY <1>1 DEF Storing, Acknowledged, Delivered, Concluded, Opened, Fresh
<1>7. Results
  BY DEF Results, Statuses
<1> QED BY <1>5, <1>6, <1>7 DEF IInv

\* every step keeps it,
LEMMA StepInv == IInv /\ [Next]_vars => IInv'
<1> SUFFICES ASSUME IInv, [Next]_vars PROVE IInv'
  OBVIOUS
<1>1. TypeOK'
  BY CspTypeStep, GatewayTypeStep, ConnectionStep DEF TypeOK
<1> QED BY <1>1, OwnershipStep, OneTransactionStep, ConcludedStep, StoringStep, ResultsStep,
      AcknowledgedStep, DeliveredStep DEF IInv

\* and so it always holds.
LEMMA DownlinkInv == Spec => []IInv
BY InitInv, StepInv, PTL DEF Spec

\* The state of dispatcher, threads and store keeps its shape.
THEOREM DownlinkTypes == Spec => []TypeOK
<1>1. IInv => TypeOK
  BY DEF IInv
<1> QED BY <1>1, DownlinkInv, PTL

\* One exchange at a time for a downlink, by any number of threads.
THEOREM DownlinkOneExchange == Spec => []OneExchangePerDownlink
<1>1. IInv => OneExchangePerDownlink
  BY DEF IInv, Ownership, Owning, OneExchangePerDownlink
<1> QED BY <1>1, DownlinkInv, PTL

\* No waiter is left behind by the thread it waits for.
THEOREM DownlinkWaiters == Spec => []WaitersHaveAnOwner
<1>1. IInv => WaitersHaveAnOwner
  <2> SUFFICES ASSUME IInv, NEW t \in Threads, pc[t] = "wait"
               PROVE  \E u \in Threads : /\ owner[Served(t)] = u
                                         /\ pc[u] \in Owning
                                         /\ Served(u) = Served(t)
    BY DEF WaitersHaveAnOwner
  <2>1. Served(t) \in Downlink
    BY DEF IInv, TypeOK, GatewayTypeOK, Serving, Served
  <2>2. owner[Served(t)] # None
    BY DEF IInv, Ownership
  <2>3. owner[Served(t)] \in Threads
    BY <2>1, <2>2 DEF IInv, TypeOK, GatewayTypeOK
  <2> QED BY <2>1, <2>2, <2>3 DEF IInv, Ownership
<1> QED BY <1>1, DownlinkInv, PTL

\* An acknowledged downlink is not sent again unless its result was lost.
THEOREM DownlinkNoRedelivery == Spec => []RedeliveredOnlyAfterLoss
<1>1. IInv => RedeliveredOnlyAfterLoss
  <2> SUFFICES ASSUME IInv, NEW t \in Threads, pc[t] = "exchange", Served(t) \in acked,
                      Served(t) \notin lost
               PROVE  FALSE
    BY DEF RedeliveredOnlyAfterLoss
  <2>1. conn.db[Served(t)] = NoResult
    BY DEF IInv, Storing, Fresh
  <2>2. PICK u \in Threads : pc[u] \in {"begin", "insert"} /\ Served(u) = Served(t)
    BY <2>1 DEF IInv, Acknowledged
  <2>3. owner[Served(t)] = t /\ owner[Served(u)] = u
    BY <2>2 DEF IInv, Ownership, Owning
  <2> QED BY <2>2, <2>3
<1> QED BY <1>1, DownlinkInv, PTL

\* The cloud's rows and the gateway's store agree but for faults.
THEOREM DownlinkAgreement == Spec => []RowAgreesWithStore
<1>1. IInv => RowAgreesWithStore
  BY DEF IInv, Results, Delivered, RowAgreesWithStore
<1> QED BY <1>1, DownlinkInv, PTL

\* A result on disk is the result for good.
THEOREM DownlinkTerminalIsFinal == Spec => TerminalIsFinal
<1>1. ASSUME IInv, [Next]_vars, NEW d \in Downlink, conn.durable[d] # NoResult
      PROVE  conn'.durable[d] = conn.durable[d]
  <2>1. conn.db[d] = conn.durable[d]
    BY <1>1 DEF IInv, Storing
  <2>2. conn'.durable \in {conn.durable, conn.db}
    BY <1>1, DurableStep
  <2> QED BY <2>1, <2>2
<1>2. IInv /\ [Next]_vars =>
        [\A d \in Downlink : conn.durable[d] # NoResult => conn'.durable[d] = conn.durable[d]]_vars
  BY <1>1
<1> QED BY <1>2, DownlinkInv, PTL DEF Spec, TerminalIsFinal

\* Row, result, disk and acknowledgement of every downlink change as
\* GatewayDelivery lets them, for every number of downlinks, threads and faults:
\* what a node acknowledged becomes "delivered" unless a fault came between, and
\* a row that has ended stays.
THEOREM DownlinkImplementsDelivery == Spec => ImplementsDelivery
<1>1. IInv /\ DInv /\ [Next]_vars => DInv'
  BY ListenerStep, AckStep DEF DInv
<1>2. IInv /\ DInv /\ [Next]_vars => [Delivery!Next]_(Delivery!vars)
  BY DeliverySimulated
<1> QED BY <1>1, <1>2, InitDelivery, DownlinkInv, PTL DEF Spec, ImplementsDelivery, Delivery!Spec

\* However long a result is under way, repeated or found by a retry: it is not
\* older than the second its row was queued in, so the table can refuse it only
\* for the part of a second the gateway's stamp has not.
THEOREM DownlinkResultsFollowTheSecond == Spec => []ResultsFollowTheSecond
<1>1. Init => Stamped
  <2> SUFFICES ASSUME Init PROVE Stamped
    OBVIOUS
  <2>1. \A d \in Downlink : queuedAt[d] <= clock
    BY DEF Init, CspInit
  <2>2. \A d \in Downlink : conn.db[d] = NoResult /\ conn.durable[d] = NoResult
    BY DEF Init, Opened
  <2>3. wire = {} /\ dispatch.pc = "idle" /\ \A t \in Threads : pc[t] = "idle"
    BY DEF Init, CspInit, Idle
  <2> QED BY <2>1, <2>2, <2>3 DEF Stamped, Carries
<1>2. IInv /\ DInv /\ [Next]_vars => DInv'
  BY ListenerStep, AckStep DEF DInv
<1>3. IInv /\ DInv /\ Stamped /\ [Next]_vars => Stamped'
  BY StampedStep DEF DInv
<1>4. IInv /\ Stamped => ResultsFollowTheSecond
  <2> SUFFICES ASSUME IInv, Stamped, dispatch.pc = "apply"
               PROVE  dispatch.result.completed >= SecondOf(queuedAt[dispatch.row])
    BY DEF ResultsFollowTheSecond
  <2>1. dispatch.result \in Result /\ dispatch.row \in Downlink
    BY DEF IInv, TypeOK, CspTypeOK
  <2>2. queuedAt[dispatch.row] \in Nat /\ dispatch.result.completed \in Nat
    BY <2>1 DEF IInv, TypeOK, CspTypeOK, Result
  <2>3. SecondOf(queuedAt[dispatch.row]) <= dispatch.result.completed
    BY DEF IInv, TypeOK, CspTypeOK, Stamped, Carries, OnTime
  <2>4. SecondOf(queuedAt[dispatch.row]) \in Int
    BY <2>2 DEF SecondOf
  <2> QED BY <2>2, <2>3, <2>4
<1> QED BY <1>1, <1>2, <1>3, <1>4, InitDelivery, DownlinkInv, PTL DEF Spec
=============================================================================
