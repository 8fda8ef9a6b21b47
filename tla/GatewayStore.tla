---------------------------- MODULE GatewayStore ----------------------------
(***************************************************************************)
(* The gateway's SQLite database as its threads use it                     *)
(* (pyronet_gateway/pyronet_gateway/storage.py): one connection, opened    *)
(* with check_same_thread=False and shared by the intake threads and the   *)
(* main thread.  A transaction therefore belongs to the connection, not to *)
(* a thread: every thread reads what any thread has written, and whoever   *)
(* commits or rolls back does it for all.                                  *)
(*                                                                         *)
(* A connection is                                                         *)
(*   durable  the tables as of the last COMMIT: what a crash leaves        *)
(*   db       the tables as statements on the connection see them          *)
(*   inTx     sqlite3.Connection.in_transaction                            *)
(*                                                                         *)
(* and the tables are                                                      *)
(*   next     sequences.next_value of 'uplink_id'                          *)
(*   nodes    the nodes that have a row of node_state                      *)
(*   outbox   uplink_id -> packet                                          *)
(*   dead     dead_letter: uplink_id -> packet                             *)
(***************************************************************************)
EXTENDS Integers, FiniteSets, TLC

NoRows == [i \in {} |-> i]

\* The schema just created, with INSERT OR IGNORE INTO sequences (.., 1).
NewTables == [next |-> 1, nodes |-> {}, outbox |-> NoRows, dead |-> NoRows]

Opened(tables) == [durable |-> tables, db |-> tables, inTx |-> FALSE]

----------------------------------------------------------------------------
(* Statements: Python's sqlite3 opens a transaction before any INSERT,     *)
(* UPDATE or DELETE that finds none open.                                  *)

Executed(c, tables) == [c EXCEPT !.db = tables, !.inTx = TRUE]

Begun(c) == [c EXCEPT !.inTx = TRUE]

Committed(c) == [c EXCEPT !.durable = c.db, !.inTx = FALSE]

RolledBack(c) == Opened(c.durable)

----------------------------------------------------------------------------
(* The tables after one statement, or after one locked transaction.        *)

With(rows, id, packet) ==
    [i \in {id} \cup DOMAIN rows |-> IF i = id THEN packet ELSE rows[i]]
Without(rows, id) == [i \in DOMAIN rows \ {id} |-> rows[i]]

\* update_from_packet
NodeSeen(t, node) == [t EXCEPT !.nodes = @ \cup {node}]

\* Mutant: the sequence stays where it is while rows wait in the outbox
IdAllocatedWhenDrained(t) == IF t.outbox = NoRows THEN [t EXCEPT !.next = @ + 1] ELSE t

\* _allocate_uplink_id: the id it returns is t.next
IdAllocated(t) == [t EXCEPT !.next = @ + 1]

\* the INSERT of enqueue
Enqueued(t, id, packet) == [t EXCEPT !.outbox = With(@, id, packet)]

\* Mutant: the id of the newest row is free again, like a rowid
DeletedFreesId(t, id) ==
    [t EXCEPT !.outbox = Without(@, id), !.next = IF id = @ - 1 THEN id ELSE @]

\* delete
Deleted(t, id) == [t EXCEPT !.outbox = Without(@, id)]

\* move_to_dead_letter: a row that is no longer there is left alone.
DeadLettered(t, id) ==
    IF id \notin DOMAIN t.outbox THEN t
    ELSE [t EXCEPT !.dead = With(@, id, t.outbox[id]),
                   !.outbox = Without(@, id)]
=============================================================================
