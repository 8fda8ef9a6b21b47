---------------------------- MODULE NcpDownlink ----------------------------
(***************************************************************************)
(* What the NCP does with the messages it receives, and what it finds out  *)
(* about its mesh (firmware/sensor_ncp/ncp/pyronet_ncp_rx.c,               *)
(* pyronet_ncp_state.c), over the ring of events for its host (NcpEvents). *)
(*                                                                         *)
(* The stack thread runs the CoAP handlers and the status callback; the    *)
(* main thread runs the host's commands and the polls.  A neighbour table  *)
(* is for a node id, which the NCP learns from its host's first command:   *)
(* until then the last table waits.  Handler and poll_parent read and      *)
(* store in critical sections of their own, and the other thread may run   *)
(* between them.                                                           *)
(*                                                                         *)
(* Messages the handlers refuse (not a POST, empty, not decodable) change  *)
(* nothing and are left out, as are the answers.                           *)
(***************************************************************************)
EXTENDS NcpEvents

CONSTANTS
    Local,        \* the node id the host's commands carry
    Others,       \* other ids a table may be for
    Downlinks,    \* events of time sync, configuration and neighbour alert
    Join, Rejoin, \* the two registration events
    ParentLost, ParentChanged,
    Parents,      \* addresses of parents
    None,         \* not known, no table, no parent
    MaxTables,    \* bound: neighbour tables received
    MaxSessions   \* bound: times the node joins

ASSUME DownlinkAssumption ==
    /\ Local \notin Others /\ None \notin Others \cup {Local}
    /\ None \notin Parents
    /\ Registration = {Join, Rejoin}
    /\ Downlinks \cup {ParentLost, ParentChanged} \subseteq Event \ Registration
    /\ MaxTables \in Nat
    /\ MaxSessions \in Nat

Targets == Others \cup {Local}
Table == [n : 1..MaxTables, target : Targets]
NoTable == [n |-> 0, target |-> None]
Seen == [parent : Parents \cup {None}, session : 0..MaxSessions]
Unseen == [parent |-> None, session |-> 0]

VARIABLES
    localId,      \* local_node_id, None until local_node_id_known
    pending,      \* pending_neighbor_*: the table that waits for the id
    table,        \* neighbors, with the number of the table they came in
    rx,           \* the table handler between its critical sections
    received,     \* tables received: their numbers are their order
    newest,       \* history: the last table for this node that was accepted
    raced,        \* history: a table put to wait although the id was known is
                  \* still waiting, or has come back over a newer one
    status,       \* network_state and pending_join_ready
    initialized,  \* parent_initialized
    last,         \* last_parent_ipv6, and the session it was read in
    poll,         \* where poll_parent is, and what it has read
    session       \* number of joins; ever_joined

tableVars == <<localId, pending, table, rx, received, newest, raced>>
parentVars == <<status, initialized, last, poll, session>>
nodeVars == <<vars, tableVars, parentVars>>

NodeTypeOK ==
    /\ TypeOK
    /\ localId \in {Local, None}
    /\ {pending, table, newest} \subseteq Table \cup {NoTable}
    /\ rx \in [pc : {"idle", "apply", "defer"}, table : Table \cup {NoTable}]
    /\ received \in 0..MaxTables
    /\ raced \in BOOLEAN
    /\ status \in {"down", "bootstrap", "pending", "joined"}
    /\ initialized \in BOOLEAN
    /\ last \in Seen
    /\ poll \in [pc : {"idle", "read", "store"}, seen : Seen]
    /\ session \in 0..MaxSessions

NodeInit ==
    /\ Init
    /\ localId = None
    /\ pending = NoTable
    /\ table = NoTable
    /\ rx = [pc |-> "idle", table |-> NoTable]
    /\ received = 0
    /\ newest = NoTable
    /\ raced = FALSE
    /\ status = "down"
    /\ initialized = FALSE
    /\ last = Unseen
    /\ poll = [pc |-> "idle", seen |-> Unseen]
    /\ session = 0

----------------------------------------------------------------------------
(* The handlers of pyronet_ncp_downlink_receive, on the stack thread.      *)

\* Time sync, configuration update, neighbour alert: an event for the host.
ReceiveForHost(e) ==
    /\ rx.pc = "idle"
    /\ Queue(e)
    /\ UNCHANGED <<tableVars, parentVars>>

\* accept_neighbor_table up to the release of the lock it reads the id under;
\* a table for another node is refused.
ReceiveTable(target) ==
    /\ rx.pc = "idle"
    /\ received < MaxTables
    /\ received' = received + 1
    /\ \/ /\ localId \in {None, target}
          /\ rx' = [pc |-> IF localId = None THEN "defer" ELSE "apply",
                    table |-> [n |-> received + 1, target |-> target]]
       \/ localId \notin {None, target} /\ UNCHANGED rx
    /\ UNCHANGED <<vars, localId, pending, table, newest, raced, parentVars>>

\* A table that waits takes the place of the one that waited before it, even
\* of one for this node; but not of one that is in use.
Accepted(t) ==
    newest' = IF t.target = Local THEN t ELSE IF localId = None THEN NoTable ELSE newest

StoreTable ==
    /\ rx.pc # "idle"
    /\ rx' = [pc |-> "idle", table |-> NoTable]
    /\ Accepted(rx.table)
    /\ \/ /\ rx.pc = "apply"
          /\ table' = rx.table
          /\ raced' = (raced /\ pending # NoTable)
          /\ UNCHANGED pending
       \/ /\ rx.pc = "defer"
          /\ pending' = rx.table
          /\ raced' = (localId # None)
          /\ UNCHANGED table
    /\ UNCHANGED <<vars, localId, received, parentVars>>

----------------------------------------------------------------------------
(* The host's commands: each begins with remember_local_node_id.           *)

\* Mutant: the table that waited is still there for the next command
RememberKeepsPending ==
    /\ poll.pc = "idle"
    /\ localId' = Local
    /\ table' = IF pending # NoTable /\ pending.target = Local THEN pending ELSE table
    /\ UNCHANGED <<vars, pending, rx, received, newest, raced, parentVars>>

\* The table that waited is applied or, for another node, dropped.
RememberLocalNodeId ==
    /\ poll.pc = "idle"
    /\ localId' = Local
    /\ table' = IF pending # NoTable /\ pending.target = Local THEN pending ELSE table
    /\ pending' = NoTable
    /\ raced' = IF pending = NoTable THEN raced
                ELSE pending.target = Local /\ pending # newest
    /\ UNCHANGED <<vars, rx, received, newest, parentVars>>

----------------------------------------------------------------------------
(* The mesh: status callbacks on the stack thread, polls on the main one.  *)

ForgetParent == initialized' = FALSE /\ last' = Unseen

\* handle_network_status: connected; in a session that has joined, nothing.
Connected ==
    /\ status # "joined"
    /\ status' = "pending"
    /\ ForgetParent
    /\ UNCHANGED <<vars, tableVars, poll, session>>

\* handle_network_status: any other status ends the session; a bootstrap that
\* has started leaves the stack to be asked for a parent.
Disconnected ==
    /\ status' \in {"down", "bootstrap"}
    /\ ForgetParent
    /\ UNCHANGED <<vars, tableVars, poll, session>>

\* Mutant: the parent of the session before is kept
JoinedKeepsParent ==
    /\ poll.pc = "idle"
    /\ status = "pending"
    /\ session < MaxSessions
    /\ status' = "joined"
    /\ session' = session + 1
    /\ QueueRegistration(IF session = 0 THEN Join ELSE Rejoin)
    /\ UNCHANGED <<tableVars, poll, initialized, last>>

\* poll_connectivity with a route to the border router; the event is queued
\* as part of the step, which no other registration event can come before.
Joined ==
    /\ poll.pc = "idle"
    /\ status = "pending"
    /\ session < MaxSessions
    /\ status' = "joined"
    /\ session' = session + 1
    /\ ForgetParent
    /\ QueueRegistration(IF session = 0 THEN Join ELSE Rejoin)
    /\ UNCHANGED <<tableVars, poll>>

\* request_registration_sync, when a host session begins
SyncSession ==
    /\ poll.pc = "idle"
    /\ status = "joined"
    /\ QueueRegistration(Rejoin)
    /\ UNCHANGED <<tableVars, parentVars>>

\* poll_parent, first critical section
PollParent ==
    /\ poll.pc = "idle"
    /\ status = "joined"
    /\ poll' = [pc |-> "read", seen |-> [parent |-> None, session |-> session]]
    /\ UNCHANGED <<vars, tableVars, status, initialized, last, session>>

\* read_current_parent: whatever the stack says, nothing when it is down
ReadParent(parent) ==
    /\ poll.pc = "read"
    /\ status = "down" => parent = None
    /\ poll' = [pc |-> "store", seen |-> [poll.seen EXCEPT !.parent = parent]]
    /\ UNCHANGED <<vars, tableVars, status, initialized, last, session>>

Changed == initialized /\ last.parent # None /\ poll.seen.parent # last.parent

\* poll_parent, second critical section, and the event it gives rise to.  A
\* parent that is found again after it was lost gives rise to none.
StoreParent ==
    /\ poll.pc = "store"
    /\ initialized' = TRUE
    /\ last' = poll.seen
    /\ poll' = [pc |-> "idle", seen |-> Unseen]
    /\ \/ Changed /\ Queue(IF poll.seen.parent = None THEN ParentLost ELSE ParentChanged)
       \/ ~Changed /\ UNCHANGED vars
    /\ UNCHANGED <<tableVars, status, session>>

----------------------------------------------------------------------------
NodeNext ==
    \/ \E e \in Downlinks : ReceiveForHost(e)
    \/ \E target \in Targets : ReceiveTable(target)
    \/ StoreTable
    \/ RememberLocalNodeId
    \/ Connected \/ Disconnected \/ Joined \/ SyncSession
    \/ PollParent \/ (\E p \in Parents \cup {None} : ReadParent(p)) \/ StoreParent
    \/ NextEvent /\ UNCHANGED <<tableVars, parentVars>>

NodeSpec == NodeInit /\ [][NodeNext]_nodeVars

----------------------------------------------------------------------------
\* Once the id is known, alerts go to the neighbours of the newest table that
\* was accepted: one that waited never comes back over a later one.  When the
\* id becomes known between the two critical sections of the handler, the
\* table is put to wait all the same: it applies from the next command on,
\* and only if a newer one has come before that command does it undo that one,
\* until the next table.  (remember_local_node_id, accept_neighbor_table)
NewestTableApplies ==
    localId # None /\ ~raced => table = newest

\* A change of parent is reported of two parents of one session, although
\* the callback may end the session, and another begin, while poll_parent is
\* between its critical sections.
ParentsOfOneSession ==
    poll.pc = "store" /\ Changed => last.session = poll.seen.session
=============================================================================
