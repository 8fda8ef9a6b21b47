-------------------------- MODULE GatewayDelivery --------------------------
(***************************************************************************)
(* What cloud and gateway together promise of a downlink                   *)
(* (csp/server/index.ts, pyronet_gateway/pyronet_gateway/                  *)
(* downlink_delivery_service.py, storage.py), whatever is retried, waited  *)
(* for, answered late or rolled back in between: the cloud's row, the      *)
(* gateway's result, the copy of it on disk and the node's acknowledgement *)
(* each change once, in an order that lets the row say what became of the  *)
(* downlink.                                                               *)
(***************************************************************************)
CONSTANTS Downlink,
          Statuses,  \* terminal statuses, "delivered" among them
          Result,    \* terminal results, each with its status
          NoResult

VARIABLES row,     \* the cloud's status of each downlink
          stored,  \* the gateway's terminal result of each
          disk,    \* what of that a crash leaves
          acked,   \* downlinks a node has acknowledged
          lost     \* downlinks whose result a fault may have kept from the disk

vars == <<row, stored, disk, acked, lost>>

Init ==
    /\ row = [d \in Downlink |-> "absent"]
    /\ stored = [d \in Downlink |-> NoResult]
    /\ disk = stored
    /\ acked = {}
    /\ lost = {}

Row(d, from, to) ==
    /\ row[d] \in from
    /\ row' = [row EXCEPT ![d] = to]
    /\ UNCHANGED <<stored, disk, acked, lost>>

Queue(d) == Row(d, {"absent"}, "pending")

Dispatch(claimed) ==
    /\ \A d \in claimed : row[d] \in {"pending", "transport_failed"}
    /\ row' = [d \in Downlink |-> IF d \in claimed THEN "dispatched" ELSE row[d]]
    /\ UNCHANGED <<stored, disk, acked, lost>>

Retry(d) == Row(d, {"dispatched"}, "transport_failed")

\* The row ends with the status of the stored result, unless a fault took the
\* result from the store after it had been answered.
Finish(d, status) ==
    /\ status = stored[d].status \/ d \in lost
    /\ status = "delivered" => d \in acked
    /\ Row(d, {"dispatched"}, status)

\* A node acknowledges what has no result.
Deliver(d) ==
    /\ stored[d] = NoResult
    /\ acked' = acked \cup {d}
    /\ UNCHANGED <<row, stored, disk, lost>>

\* The one result of a downlink: "delivered" only of what a node acknowledged,
\* and nothing else of that unless a fault came between.
Store(d, result) ==
    /\ stored[d] = NoResult
    /\ result.status = "delivered" => d \in acked
    /\ d \in acked => result.status = "delivered" \/ d \in lost
    /\ stored' = [stored EXCEPT ![d] = result]
    /\ UNCHANGED <<row, disk, acked, lost>>

\* A result on disk stays.
Commit ==
    /\ \A d \in Downlink : disk[d] # NoResult => stored[d] = disk[d]
    /\ disk' = stored
    /\ UNCHANGED <<row, stored, acked, lost>>

\* A fault takes back what is not on disk, if anything.
Lose(hit) ==
    /\ lost' = lost \cup hit
    /\ stored' \in {stored, disk}
    /\ \A d \in Downlink : stored'[d] # stored[d] => stored'[d] = NoResult /\ d \in hit
    /\ UNCHANGED <<row, disk, acked>>

Next ==
    \/ \E d \in Downlink : Queue(d) \/ Retry(d) \/ Deliver(d)
    \/ \E d \in Downlink, status \in Statuses : Finish(d, status)
    \/ \E d \in Downlink, result \in Result : Store(d, result)
    \/ \E set \in SUBSET Downlink : Dispatch(set) \/ Lose(set)
    \/ Commit

Spec == Init /\ [][Next]_vars
=============================================================================
