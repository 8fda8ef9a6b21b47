------------------------- MODULE NcpDownlinkProofs -------------------------
(***************************************************************************)
(* What the NCP knows of its neighbours and parents is current, for every  *)
(* number of tables, sessions and addresses, and every length of the ring. *)
(***************************************************************************)
EXTENDS NcpDownlink, NcpEventsProofs

USE DownlinkAssumption DEF DownlinkAssumption

\* The handler applies only what is for this node, and puts to wait only.
HandlerHolds ==
    /\ rx.pc # "idle" => rx.table \in Table
    /\ rx.pc = "apply" => localId = Local /\ rx.table.target = Local
    /\ rx.pc = "defer" => ~raced

\* Before the id is known no table is in use, and the one that waits is the
\* newest; afterwards none waits but one that has raced with the id.
Waiting ==
    /\ localId = None =>
         /\ ~raced
         /\ table = NoTable
         /\ newest = IF pending.target = Local THEN pending ELSE NoTable
    /\ localId # None /\ ~raced => pending = NoTable /\ table = newest
    /\ raced /\ pending # NoTable =>
         (pending = newest /\ pending.target = Local) \/ table = newest

\* A parent that is remembered was read in the current session, and so was the
\* one that is about to be compared with it.
CurrentSession ==
    /\ initialized => last.session = session
    /\ poll.pc # "idle" => poll.seen.session = session

NodeInv == NodeTypeOK /\ HandlerHolds /\ Waiting /\ CurrentSession

----------------------------------------------------------------------------
\* The ring is used as its module says: no handler, poll or callback does
\* anything to it but queue an event or hand one out.
THEOREM DownlinkKeepsRing == NodeSpec => Spec
<1>1. NodeInit => Init
  BY DEF NodeInit
<1>2. [NodeNext]_nodeVars => [Next]_vars
  <2> SUFFICES ASSUME [NodeNext]_nodeVars, ~UNCHANGED vars PROVE Next
    OBVIOUS
  <2>1. ~UNCHANGED nodeVars
    BY DEF nodeVars
  <2>2. ASSUME NEW e \in Downlinks, ReceiveForHost(e) PROVE Next
    BY <2>2 DEF ReceiveForHost, Next
  <2>3. ASSUME Joined \/ SyncSession PROVE Next
    BY <2>3 DEF Joined, SyncSession, Next
  <2>4. ASSUME StoreParent PROVE Next
    BY <2>4 DEF StoreParent, Next
  <2>5. ASSUME \/ \E target \in Targets : ReceiveTable(target)
               \/ StoreTable \/ RememberLocalNodeId \/ Connected \/ Disconnected \/ PollParent
               \/ \E p \in Parents \cup {None} : ReadParent(p)
        PROVE  FALSE
    BY <2>5 DEF ReceiveTable, StoreTable, RememberLocalNodeId, Connected, Disconnected,
                PollParent, ReadParent
  <2> QED BY <2>1, <2>2, <2>3, <2>4, <2>5 DEF NodeNext, Next
<1> QED BY <1>1, <1>2, PTL DEF NodeSpec, Spec

\* So the composition queues and hands out as a bounded drop-oldest queue does,
\* with one registration event that has the latest reason.
THEOREM DownlinkKeepsFifo == NodeSpec => ImplementsFifo /\ []OneLatestRegistration
BY DownlinkKeepsRing, EventsImplementFifo, EventsOneRegistration
----------------------------------------------------------------------------
(* The node's own state.  The ring's is left to the lemmas of its module.  *)

LocalTypeOK ==
    /\ localId \in {Local, None}
    /\ pending \in Table \cup {NoTable}
    /\ table \in Table \cup {NoTable}
    /\ newest \in Table \cup {NoTable}
    /\ rx \in [pc : {"idle", "apply", "defer"}, table : Table \cup {NoTable}]
    /\ received \in 0..MaxTables
    /\ raced \in BOOLEAN
    /\ status \in {"down", "bootstrap", "pending", "joined"}
    /\ initialized \in BOOLEAN
    /\ last \in Seen
    /\ poll \in [pc : {"idle", "read", "store"}, seen : Seen]
    /\ session \in 0..MaxSessions

\* Types are kept.
LEMMA LocalTypeStep ==
    ASSUME NodeInv, [NodeNext]_nodeVars
    PROVE  LocalTypeOK'
<1> USE DEF LocalTypeOK,  NodeInv, NodeTypeOK, tableVars, parentVars
<1>1. ASSUME NEW e \in Downlinks, ReceiveForHost(e)
      PROVE  LocalTypeOK'
  BY <1>1 DEF ReceiveForHost, Queue, vars
<1>2. ASSUME NEW target \in Targets, ReceiveTable(target)
      PROVE  LocalTypeOK'
  <2>1. received + 1 \in 1..MaxTables /\ received + 1 \in 0..MaxTables
    BY <1>2 DEF ReceiveTable
  <2>2. [n |-> received + 1, target |-> target] \in Table
    BY <2>1 DEF Table
  <2> QED BY <1>2, <2>1, <2>2 DEF ReceiveTable, vars
<1>3. ASSUME StoreTable
      PROVE  LocalTypeOK'
  BY <1>3 DEF StoreTable, Accepted, vars
<1>4. ASSUME RememberLocalNodeId
      PROVE  LocalTypeOK'
  BY <1>4 DEF RememberLocalNodeId, vars
<1>5. ASSUME Connected \/ Disconnected
      PROVE  LocalTypeOK'
  <2>1. Unseen \in Seen
    BY DEF Unseen, Seen
  <2> QED BY <1>5, <2>1 DEF Connected, Disconnected, ForgetParent, vars
<1>6. ASSUME Joined
      PROVE  LocalTypeOK'
  <2>1. Unseen \in Seen
    BY DEF Unseen, Seen
  <2>2. session + 1 \in 0..MaxSessions
    BY <1>6 DEF Joined
  <2> QED BY <1>6, <2>1, <2>2 DEF Joined, ForgetParent
<1>7. ASSUME SyncSession
      PROVE  LocalTypeOK'
  BY <1>7 DEF SyncSession
<1>8. ASSUME PollParent
      PROVE  LocalTypeOK'
  <2>1. [parent |-> None, session |-> session] \in Seen
    BY DEF Seen
  <2> QED BY <1>8, <2>1 DEF PollParent, vars
<1>9. ASSUME NEW p \in Parents \cup {None}, ReadParent(p)
      PROVE  LocalTypeOK'
  <2>1. [poll.seen EXCEPT !.parent = p] \in Seen
    BY DEF Seen
  <2> QED BY <1>9, <2>1 DEF ReadParent, vars
<1>10. ASSUME StoreParent
      PROVE  LocalTypeOK'
  <2>1. Unseen \in Seen
    BY DEF Unseen, Seen
  <2> QED BY <1>10, <2>1 DEF StoreParent
<1>11. ASSUME NextEvent, UNCHANGED <<tableVars, parentVars>>
      PROVE  LocalTypeOK'
  BY <1>11
<1>12. ASSUME UNCHANGED nodeVars
      PROVE  LocalTypeOK'
  BY <1>12 DEF nodeVars, vars
<1> QED BY <1>1, <1>2, <1>3, <1>4, <1>5, <1>6, <1>7, <1>8,
      <1>9, <1>10, <1>11, <1>12 DEF NodeNext

\* The handler does as it decided, and the id does not go away meanwhile.
LEMMA HandlerStep ==
    ASSUME NodeInv, [NodeNext]_nodeVars
    PROVE  HandlerHolds'
<1> USE DEF HandlerHolds, NodeInv, NodeTypeOK, tableVars, parentVars
<1>1. ASSUME NEW e \in Downlinks, ReceiveForHost(e)
      PROVE  HandlerHolds'
  BY <1>1 DEF ReceiveForHost, Queue, vars
<1>2. ASSUME NEW target \in Targets, ReceiveTable(target)
      PROVE  HandlerHolds'
  <2>1. received + 1 \in 1..MaxTables
    BY <1>2 DEF ReceiveTable
  <2>2. [n |-> received + 1, target |-> target] \in Table
    BY <2>1 DEF Table
  <2>3. localId = None => ~raced
    BY DEF Waiting
  <2>4. rx'.pc = "defer" => ~raced'
    BY <1>2, <2>3 DEF ReceiveTable
  <2> QED BY <1>2, <2>1, <2>2, <2>4 DEF ReceiveTable, vars
<1>3. ASSUME StoreTable
      PROVE  HandlerHolds'
  BY <1>3 DEF StoreTable, Accepted, vars
<1>4. ASSUME RememberLocalNodeId
      PROVE  HandlerHolds'
  <2>1. ~raced => ~raced'
    BY <1>4 DEF RememberLocalNodeId, Waiting
  <2> QED BY <1>4, <2>1 DEF RememberLocalNodeId, vars
<1>5. ASSUME Connected \/ Disconnected
      PROVE  HandlerHolds'
  BY <1>5 DEF Connected, Disconnected, ForgetParent, vars
<1>6. ASSUME Joined
      PROVE  HandlerHolds'
  BY <1>6 DEF Joined, ForgetParent
<1>7. ASSUME SyncSession
      PROVE  HandlerHolds'
  BY <1>7 DEF SyncSession
<1>8. ASSUME PollParent
      PROVE  HandlerHolds'
  BY <1>8 DEF PollParent, vars
<1>9. ASSUME NEW p \in Parents \cup {None}, ReadParent(p)
      PROVE  HandlerHolds'
  BY <1>9 DEF ReadParent, vars
<1>10. ASSUME StoreParent
      PROVE  HandlerHolds'
  BY <1>10 DEF StoreParent
<1>11. ASSUME NextEvent, UNCHANGED <<tableVars, parentVars>>
      PROVE  HandlerHolds'
  BY <1>11
<1>12. ASSUME UNCHANGED nodeVars
      PROVE  HandlerHolds'
  BY <1>12 DEF nodeVars, vars
<1> QED BY <1>1, <1>2, <1>3, <1>4, <1>5, <1>6, <1>7, <1>8,
      <1>9, <1>10, <1>11, <1>12 DEF NodeNext

\* A table waits only for the id.
LEMMA WaitingStep ==
    ASSUME NodeInv, [NodeNext]_nodeVars
    PROVE  Waiting'
<1> USE DEF Waiting, HandlerHolds, NodeInv, NodeTypeOK, tableVars, parentVars
<1>1. ASSUME NEW e \in Downlinks, ReceiveForHost(e)
      PROVE  Waiting'
  BY <1>1 DEF ReceiveForHost, Queue, vars
<1>2. ASSUME NEW target \in Targets, ReceiveTable(target)
      PROVE  Waiting'
  BY <1>2 DEF ReceiveTable, vars
<1>3. ASSUME StoreTable
      PROVE  Waiting'
  <2>1. /\ newest' = IF rx.table.target = Local THEN rx.table
                     ELSE IF localId = None THEN NoTable ELSE newest
        /\ UNCHANGED localId
    BY <1>3 DEF StoreTable, Accepted
  <2>2. CASE rx.pc = "apply"
    <3>1. localId = Local /\ rx.table.target = Local
      BY <2>2
    <3>2. table' = rx.table /\ UNCHANGED pending /\ raced' = (raced /\ pending # NoTable)
      BY <1>3, <2>2 DEF StoreTable
    <3> QED BY <2>1, <3>1, <3>2
  <2>3. CASE rx.pc = "defer"
    <3>1. pending' = rx.table /\ UNCHANGED table /\ raced' = (localId # None) /\ ~raced
      BY <1>3, <2>3 DEF StoreTable
    <3> QED BY <2>1, <3>1
  <2> QED BY <1>3, <2>2, <2>3 DEF StoreTable
<1>4. ASSUME RememberLocalNodeId
      PROVE  Waiting'
  BY <1>4 DEF RememberLocalNodeId, vars
<1>5. ASSUME Connected \/ Disconnected
      PROVE  Waiting'
  BY <1>5 DEF Connected, Disconnected, ForgetParent, vars
<1>6. ASSUME Joined
      PROVE  Waiting'
  BY <1>6 DEF Joined, ForgetParent
<1>7. ASSUME SyncSession
      PROVE  Waiting'
  BY <1>7 DEF SyncSession
<1>8. ASSUME PollParent
      PROVE  Waiting'
  BY <1>8 DEF PollParent, vars
<1>9. ASSUME NEW p \in Parents \cup {None}, ReadParent(p)
      PROVE  Waiting'
  BY <1>9 DEF ReadParent, vars
<1>10. ASSUME StoreParent
      PROVE  Waiting'
  BY <1>10 DEF StoreParent
<1>11. ASSUME NextEvent, UNCHANGED <<tableVars, parentVars>>
      PROVE  Waiting'
  BY <1>11
<1>12. ASSUME UNCHANGED nodeVars
      PROVE  Waiting'
  BY <1>12 DEF nodeVars, vars
<1> QED BY <1>1, <1>2, <1>3, <1>4, <1>5, <1>6, <1>7, <1>8,
      <1>9, <1>10, <1>11, <1>12 DEF NodeNext

\* Every end and every beginning of a session forgets the parent.
LEMMA SessionStep ==
    ASSUME NodeInv, [NodeNext]_nodeVars
    PROVE  CurrentSession'
<1> USE DEF CurrentSession, NodeInv, NodeTypeOK, tableVars, parentVars
<1>1. ASSUME NEW e \in Downlinks, ReceiveForHost(e)
      PROVE  CurrentSession'
  BY <1>1 DEF ReceiveForHost, Queue, vars
<1>2. ASSUME NEW target \in Targets, ReceiveTable(target)
      PROVE  CurrentSession'
  BY <1>2 DEF ReceiveTable, vars
<1>3. ASSUME StoreTable
      PROVE  CurrentSession'
  BY <1>3 DEF StoreTable, Accepted, vars
<1>4. ASSUME RememberLocalNodeId
      PROVE  CurrentSession'
  BY <1>4 DEF RememberLocalNodeId, vars
<1>5. ASSUME Connected \/ Disconnected
      PROVE  CurrentSession'
  BY <1>5 DEF Connected, Disconnected, ForgetParent, vars
<1>6. ASSUME Joined
      PROVE  CurrentSession'
  BY <1>6 DEF Joined, ForgetParent
<1>7. ASSUME SyncSession
      PROVE  CurrentSession'
  BY <1>7 DEF SyncSession
<1>8. ASSUME PollParent
      PROVE  CurrentSession'
  BY <1>8 DEF PollParent, vars
<1>9. ASSUME NEW p \in Parents \cup {None}, ReadParent(p)
      PROVE  CurrentSession'
  <2>1. [poll.seen EXCEPT !.parent = p].session = poll.seen.session
    BY DEF Seen
  <2> QED BY <1>9, <2>1 DEF ReadParent, vars
<1>10. ASSUME StoreParent
      PROVE  CurrentSession'
  BY <1>10 DEF StoreParent
<1>11. ASSUME NextEvent, UNCHANGED <<tableVars, parentVars>>
      PROVE  CurrentSession'
  BY <1>11
<1>12. ASSUME UNCHANGED nodeVars
      PROVE  CurrentSession'
  BY <1>12 DEF nodeVars, vars
<1> QED BY <1>1, <1>2, <1>3, <1>4, <1>5, <1>6, <1>7, <1>8,
      <1>9, <1>10, <1>11, <1>12 DEF NodeNext

\* The invariant holds at the start,
LEMMA NodeInvInit == NodeInit => NodeInv
<1> SUFFICES ASSUME NodeInit PROVE NodeInv
  OBVIOUS
<1>1. TypeOK
  BY IInvInit DEF NodeInit, IInv
<1>2. Unseen \in Seen
  BY DEF Unseen, Seen
<1>3. 0 \in 0..MaxTables /\ 0 \in 0..MaxSessions
  OBVIOUS
<1>6. [pc |-> "idle", table |-> NoTable] \in
        [pc : {"idle", "apply", "defer"}, table : Table \cup {NoTable}]
  OBVIOUS
<1>7. [pc |-> "idle", seen |-> Unseen] \in [pc : {"idle", "read", "store"}, seen : Seen]
  BY <1>2
<1>8. NodeTypeOK
  BY <1>1, <1>2, <1>3, <1>6, <1>7 DEF NodeInit, NodeTypeOK
<1>4. HandlerHolds /\ CurrentSession
  BY DEF NodeInit, HandlerHolds, CurrentSession
<1>5. Waiting
  BY DEF NodeInit, Waiting, NoTable
<1> QED BY <1>8, <1>4, <1>5 DEF NodeInv

\* every step keeps it while the ring keeps its types,
LEMMA NodeInvStep == NodeInv /\ TypeOK' /\ [NodeNext]_nodeVars => NodeInv'
BY LocalTypeStep, HandlerStep, WaitingStep, SessionStep DEF NodeInv, NodeTypeOK, LocalTypeOK

\* and so it always holds.
LEMMA NodeInvAlways == NodeSpec => []NodeInv
<1>1. NodeSpec => []TypeOK
  BY DownlinkKeepsRing, EventsTypeCorrect
<1> QED BY <1>1, NodeInvInit, NodeInvStep, PTL DEF NodeSpec

\* Ring, tables, handler and polls keep their shape.
THEOREM DownlinkNodeTypes == NodeSpec => []NodeTypeOK
<1>1. NodeInv => NodeTypeOK
  BY DEF NodeInv
<1> QED BY <1>1, NodeInvAlways, PTL

\* The table in use is the newest accepted, for any number of tables for any
\* nodes, unless one that raced with the id waits or has undone a newer one.
THEOREM DownlinkNewestTable == NodeSpec => []NewestTableApplies
<1>1. NodeInv => NewestTableApplies
  BY DEF NodeInv, Waiting, NewestTableApplies
<1> QED BY <1>1, NodeInvAlways, PTL

\* Parents of two sessions are never compared.
THEOREM DownlinkOneSession == NodeSpec => []ParentsOfOneSession
<1>1. NodeInv => ParentsOfOneSession
  BY DEF NodeInv, CurrentSession, Changed, ParentsOfOneSession
<1> QED BY <1>1, NodeInvAlways, PTL
=============================================================================
