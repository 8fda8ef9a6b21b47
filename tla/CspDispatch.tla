---------------------------- MODULE CspDispatch ----------------------------
(***************************************************************************)
(* The cloud's end of a downlink (csp/server/index.ts): rows of            *)
(* gateway_downlinks, and the one dispatcher that claims pending rows,     *)
(* posts them to the gateway one after the other and writes what came of   *)
(* each.  GatewayDownlink composes it with the gateway.                    *)
(*                                                                         *)
(* The database's clock counts half seconds, so that it and the gateway's  *)
(* whole seconds can disagree; both ends have the same clock.              *)
(***************************************************************************)
EXTENDS Naturals, FiniteSets

CONSTANTS Downlink,   \* rows, each with the one request body it is sent with
          BatchSize,  \* GATEWAY_DOWNLINK_DISPATCH_BATCH_SIZE
          None,       \* no downlink
          MaxClock    \* bound of the clock

ASSUME DispatchAssumption ==
    /\ BatchSize \in Nat \ {0}
    /\ None \notin Downlink
    /\ MaxClock \in Nat

Statuses == {"delivered", "unknown_node", "mesh_delivery_failed", "permanent_reject"}
Result == [status : Statuses, completed : 0..MaxClock]
NoResult == [status |-> "none", completed |-> 0]

VARIABLES
    row,       \* gateway_downlinks.status
    queuedAt,  \* gateway_downlinks.queued_at
    batch,     \* rows dispatchPendingGatewayDownlinks has claimed and not finished
    dispatch,  \* where dispatchGatewayDownlink is: its step, row and result
    orphans,   \* history: rows claimed by a dispatcher that died
    clock

cspVars == <<row, queuedAt, batch, dispatch, orphans, clock>>

Idle == [pc |-> "idle", row |-> None, result |-> NoResult]
Working(pc, d, result) == [pc |-> pc, row |-> d, result |-> result]

CspTypeOK ==
    /\ row \in [Downlink -> Statuses \cup
                  {"absent", "pending", "dispatched", "transport_failed"}]
    /\ queuedAt \in [Downlink -> 0..MaxClock]
    /\ batch \in SUBSET Downlink
    /\ dispatch \in [pc : {"idle", "wait", "apply", "fail"}, row : Downlink \cup {None},
                     result : Result \cup {NoResult}]
    /\ dispatch.pc = "idle" <=> dispatch.row = None
    /\ dispatch.pc = "apply" <=> dispatch.result # NoResult
    /\ orphans \in SUBSET Downlink
    /\ clock \in 0..MaxClock

CspInit ==
    /\ row = [d \in Downlink |-> "absent"]
    /\ queuedAt = [d \in Downlink |-> 0]
    /\ batch = {}
    /\ dispatch = Idle
    /\ orphans = {}
    /\ clock = 0

Waiting(d) == dispatch.pc = "wait" /\ dispatch.row = d

----------------------------------------------------------------------------
\* insertGatewayDownlinkInDb: queued_at is the database's NOW().
Queue(d) ==
    /\ row[d] = "absent"
    /\ row' = [row EXCEPT ![d] = "pending"]
    /\ queuedAt' = [queuedAt EXCEPT ![d] = clock]
    /\ UNCHANGED <<batch, dispatch, orphans, clock>>

\* claimPendingGatewayDownlinksInDb: rows whose next_attempt_at has come, which
\* is any of those that may be claimed at all.
Claim(claimed) ==
    /\ batch = {}
    /\ dispatch = Idle
    /\ claimed # {}
    /\ Cardinality(claimed) <= BatchSize
    /\ \A d \in claimed : row[d] \in {"pending", "transport_failed"}
    /\ row' = [d \in Downlink |-> IF d \in claimed THEN "dispatched" ELSE row[d]]
    /\ batch' = claimed
    /\ UNCHANGED <<queuedAt, dispatch, orphans, clock>>

\* dispatchGatewayDownlink up to its fetch.
StartPost(d) ==
    /\ dispatch = Idle
    /\ d \in batch
    /\ dispatch' = Working("wait", d, NoResult)
    /\ UNCHANGED <<row, queuedAt, batch, orphans, clock>>

\* The response: 200 with a result, or anything else (NoResult).
Answered(d, result) ==
    dispatch' = Working(IF result = NoResult THEN "fail" ELSE "apply", d, result)

FinishRow(d) ==
    /\ batch' = batch \ {d}
    /\ dispatch' = Idle

\* Mutant: the row is left as it was claimed
MarkFailureSilently(d) ==
    /\ dispatch.pc = "fail" /\ dispatch.row = d
    /\ FinishRow(d)
    /\ UNCHANGED <<row, queuedAt, orphans, clock>>

\* markGatewayDownlinkTransportFailureInDb
MarkFailure(d) ==
    /\ dispatch.pc = "fail" /\ dispatch.row = d
    /\ row' = [row EXCEPT ![d] = "transport_failed"]
    /\ FinishRow(d)
    /\ UNCHANGED <<queuedAt, orphans, clock>>

\* chk_gateway_downlinks_completed_after_queued
StampFits(d, result) == result.completed >= queuedAt[d]

\* applyGatewayDownlinkTerminalResultInDb: one transaction, which the CHECK
\* rolls back; the exception then marks a transport failure.
Apply(d) ==
    /\ dispatch.pc = "apply" /\ dispatch.row = d
    /\ \/ /\ StampFits(d, dispatch.result)
          /\ row' = [row EXCEPT ![d] = dispatch.result.status]
          /\ FinishRow(d)
       \/ /\ ~StampFits(d, dispatch.result)
          /\ dispatch' = Working("fail", d, NoResult)
          /\ UNCHANGED <<row, batch>>
    /\ UNCHANGED <<queuedAt, orphans, clock>>

\* The process ends, or a query of the dispatcher rejects, which nothing
\* catches (void dispatchPendingGatewayDownlinks().finally): the claimed rows
\* stay dispatched.
DispatcherDies ==
    /\ batch # {}
    /\ batch' = {}
    /\ dispatch' = Idle
    /\ orphans' = orphans \cup batch
    /\ UNCHANGED <<row, queuedAt, clock>>

Tick ==
    /\ clock < MaxClock
    /\ clock' = clock + 1
    /\ UNCHANGED <<row, queuedAt, batch, dispatch, orphans>>
=============================================================================
