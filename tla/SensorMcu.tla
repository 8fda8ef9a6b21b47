----------------------------- MODULE SensorMcu -----------------------------
(***************************************************************************)
(* The main loop of the sensor MCU with the boundary transmitter           *)
(* (firmware/sensor_mcu/app/app_boundary_tx.c) beside the risk service.    *)
(* The NCP reports a change of parent; the MCU answers with a parent       *)
(* update, which waits in a slot of its own until there is a time anchor   *)
(* (a time sync, or a boot time that was provisioned) and the link is      *)
(* ready.  A later change takes the slot; its reason and the time of the   *)
(* change are payload.                                                     *)
(***************************************************************************)
EXTENDS RiskService

VARIABLES anchored,   \* time_anchor.valid
          update,     \* pending_parent_update.valid
          updateSent  \* history: the last step handed an update to the host link

mcuVars == <<vars, anchored, update, updateSent>>

McuInit ==
    /\ Init
    /\ anchored \in BOOLEAN
    /\ update = FALSE
    /\ updateSent = FALSE

\* Identity, unix time, host link
UpdateSendable == nodeIdValid /\ anchored' /\ ready'

\* Mutant: the slot is emptied although the link does not take the update
EmptiedFirst(wanted, tried) ==
    /\ anchored' = (anchored \/ synced')
    /\ updateSent' = (wanted /\ tried /\ UpdateSendable)
    /\ update' = (wanted /\ ~(tried /\ nodeIdValid /\ anchored'))

\* app_boundary_tx_try_send_parent_update of the update that is wanted, if
\* any; a time sync sets the anchor.
Update(wanted, tried) ==
    /\ anchored' = (anchored \/ synced')
    /\ updateSent' = (wanted /\ tried /\ UpdateSendable)
    /\ update' = (wanted /\ ~(tried /\ UpdateSendable))

\* app_boundary_tx_handle_parent_changed
ParentChanged ==
    /\ pc = "poll"
    /\ UNCHANGED vars
    /\ Update(TRUE, TRUE)

\* app_boundary_tx_flush, before pyronet_risk_service_retry_pending
Flush(retry) == Update(update, retry)

McuEvent ==
    \/ RiskEvent /\ Flush(FALSE)
    \/ TimeSync /\ Flush(TRUE)
    \/ ParentChanged

LoopStep ==
    \/ RiskStep /\ Flush(FALSE)
    \/ RetryReady /\ Flush(ready)

McuSpec == McuInit /\ [][McuEvent \/ LoopStep]_mcuVars

\* app_process_action is called for ever.
FairSpec == McuSpec /\ WF_mcuVars(LoopStep)

----------------------------------------------------------------------------
(***************************************************************************)
(* Once the link stays ready on a provisioned node with a time anchor, an  *)
(* update that waits is handed over in the end: it does not leave its slot *)
(* in any other way, and no order of syncs, changes and resets leaves it   *)
(* there (app_boundary_tx_flush, app_retry_ready_work).                    *)
(***************************************************************************)
ParentChangeIsSent ==
    <>[](ready /\ anchored /\ nodeIdValid) => (update ~> updateSent)
=============================================================================
