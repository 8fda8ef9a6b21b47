---------------------------- MODULE RiskService ----------------------------
(***************************************************************************)
(* The sensor MCU from its risk engine to the host link: what the engine   *)
(* raises is sent at once or kept in one pending slot per kind until the   *)
(* link is ready, the time is known and a PM2.5 reading exists             *)
(* (firmware/sensor_mcu/services/risk/pyronet_risk_service.c), driven by   *)
(* the main loop of firmware/sensor_mcu/app.c.  The MCU runs one thread,   *)
(* so a handler with everything it calls is one action, and pc is the      *)
(* place in app_process_action.                                            *)
(***************************************************************************)
EXTENDS RiskEngine

CONSTANT NoReq   \* an empty pending slot; nothing sent

Kind == {"report", "alert", "neighbor"}
Request == [level : Level, pm : BOOLEAN]  \* of a snapshot: current_level, has_pm25

ASSUME ServiceAssumption == NoReq \notin Request

VARIABLES pending,      \* pending_report, pending_sensor_alert, pending_neighbor_alert
          nodeIdValid,  \* node_id_valid, set once at start-up
          synced,       \* csp_time_sync_received
          ready,        \* host_link_is_ready
          pc,           \* the next step of app_process_action
          out,          \* what the last step handed to the host link
          told,         \* history: the level of the last report handed over
          unreported    \* history: the last level change had no reading to report

serviceVars == <<pending, nodeIdValid, synced, ready, pc, out, told, unreported>>
vars == <<engineVars, serviceVars>>

TypeOK ==
    /\ EngineTypeOK
    /\ pending \in [Kind -> Request \cup {NoReq}]
    /\ nodeIdValid \in BOOLEAN
    /\ synced \in BOOLEAN
    /\ ready \in BOOLEAN
    /\ pc \in {"poll", "air", "pm25", "tick", "packet", "ready"}
    /\ out \in [Kind -> Request \cup {NoReq}]
    /\ told \in Level \cup {0}
    /\ unreported \in BOOLEAN

Nothing == [k \in Kind |-> NoReq]

Init ==
    /\ EngineInit
    /\ pending = Nothing
    /\ nodeIdValid \in BOOLEAN
    /\ synced = FALSE
    /\ ready = FALSE
    /\ pc = "poll"
    /\ out = Nothing
    /\ told = 0
    /\ unreported = TRUE

----------------------------------------------------------------------------
(* Sending, deferring and retrying.                                        *)

\* The pending flags of pyronet_risk_service_try_send_*: node id, PM2.5 (a
\* report needs it), unix time, host link.
Sendable(k, r) == nodeIdValid /\ synced' /\ ready' /\ (k = "report" => r.pm)

\* What the engine raises on the way to level next: a report when there is a
\* reading to report, and, when triggered, both alerts of level 5.
Raised(next, trigger, periodic) ==
    LET snapshot == [level |-> next, pm |-> pm' # None]
        alerts == next # level /\ trigger /\ next = 5 /\ aq' # None /\ pm' # None
    IN  [k \in Kind |->
            IF IF k = "report" THEN aq' # None /\ (next # level \/ periodic) ELSE alerts
            THEN snapshot ELSE NoReq]

Direct(raised, k) == raised[k] # NoReq /\ Sendable(k, raised[k])

\* Mutant: a deferred request waits behind the one already pending
KeepingFirst(raised) ==
    [k \in Kind |-> IF raised[k] = NoReq \/ pending[k] # NoReq THEN pending[k]
                    ELSE IF Direct(raised, k) THEN NoReq ELSE raised[k]]

\* The slots after pyronet_risk_service_send_*: a request that is sent or
\* deferred takes the place of the one that was pending.
Keeping(raised) ==
    [k \in Kind |-> IF raised[k] = NoReq THEN pending[k]
                    ELSE IF Direct(raised, k) THEN NoReq ELSE raised[k]]

\* Mutant: a pending report never takes the PM2.5 reading in
Unfilled(kept) == kept

\* A pending report takes in the PM2.5 reading it was waiting for.
Filled(kept) ==
    [k \in Kind |-> IF kept[k] # NoReq /\ pm' # None
                    THEN [kept[k] EXCEPT !.pm = TRUE] ELSE kept[k]]

\* pyronet_risk_service_send_* for everything raised, then, when retry, the
\* three flushes of pyronet_risk_service_retry_pending.
Hand(raised, retry) ==
    LET kept == IF retry THEN Filled(Keeping(raised)) ELSE Keeping(raised)
        flushed(k) == retry /\ kept[k] # NoReq /\ Sendable(k, kept[k])
    IN  /\ pending' = [k \in Kind |-> IF flushed(k) THEN NoReq ELSE kept[k]]
        /\ out' = [k \in Kind |-> IF Direct(raised, k) THEN raised[k]
                                  ELSE IF flushed(k) THEN kept[k] ELSE NoReq]

\* The bookkeeping of the two history variables.
Record ==
    /\ told' = IF out'["report"] # NoReq THEN out'["report"].level ELSE told
    /\ unreported' = IF level' # level THEN aq' = None ELSE unreported

\* An engine operation has been done; its callbacks run, then the retries.
Service(trigger, periodic, retry) ==
    /\ Hand(Raised(level', trigger, periodic), retry)
    /\ Record

----------------------------------------------------------------------------
(* host_link_poll: events from the NCP.                                    *)

\* Mutant: a neighbour's alert raises the level without asking for an override
NeighborAlertAlways ==
    /\ pc = "poll"
    /\ hold' = Hold
    /\ lapsed' = FALSE
    /\ UNCHANGED <<cfg, aq, pm, ovr, nodeIdValid, synced, ready, pc>>
    /\ Transition(4, "NEIGHBOR_ALERT")
    /\ Service(FALSE, FALSE, FALSE)

\* app_handle_neighbor_alert_rx
NeighborAlert ==
    /\ pc = "poll"
    /\ hold' = Hold
    /\ lapsed' = FALSE
    /\ UNCHANGED <<cfg, aq, pm, ovr, nodeIdValid, synced, ready, pc>>
    /\ IF ovr # None THEN Reconcile("NEIGHBOR_ALERT")
       ELSE Transition(4, "NEIGHBOR_ALERT")
    /\ Service(FALSE, FALSE, FALSE)

\* app_handle_config_update_rx; a stale config_id is rejected.
ConfigUpdate(c) ==
    /\ pc = "poll"
    /\ c.config_id > cfg.config_id
    /\ cfg' = c
    /\ UNCHANGED <<hold, lapsed, aq, pm, ovr, nodeIdValid, synced, ready, pc>>
    /\ Transition(Supported(cfg', aq, pm, ovr, hold),
                  IF ovr # None THEN "OVERRIDE" ELSE "CONFIG_UPDATE")
    /\ Service(FALSE, FALSE, FALSE)

\* pyronet_risk_service_set_override (no caller in this firmware but its tests).
SetOverride(o) ==
    /\ pc = "poll"
    /\ o # ovr
    /\ ovr' = o
    /\ UNCHANGED <<cfg, hold, lapsed, aq, pm, nodeIdValid, synced, ready, pc>>
    /\ Transition(Supported(cfg, aq, pm, o, hold), "OVERRIDE")
    /\ Service(FALSE, FALSE, FALSE)

\* app_handle_time_sync_update; a later one retries what is pending, too.
TimeSync ==
    /\ pc = "poll"
    /\ synced' = TRUE
    /\ UNCHANGED <<engineVars, nodeIdValid, ready, pc>>
    /\ Hand(Nothing, TRUE)
    /\ Record

\* Mutant: the lock's remaining time runs below zero
PollDoneUnclamped ==
    /\ pc = "poll"
    /\ pc' = "air"
    /\ \E d \in {0, 1} : hold' = hold - d /\ due' = IF due > d THEN due - d ELSE 0
    /\ lapsed' = (lapsed \/ (hold > 0 /\ hold' = 0))
    /\ out' = Nothing
    /\ UNCHANGED <<cfg, level, aq, pm, ovr, cause, pending, nodeIdValid, synced,
                   ready, told, unreported>>

\* The host link completes or restarts its handshake.
LinkChange ==
    /\ pc = "poll"
    /\ ready' = ~ready
    /\ out' = Nothing
    /\ UNCHANGED <<engineVars, pending, nodeIdValid, synced, pc, told, unreported>>

\* The poll ends; the loop goes on at a later time.
PollDone ==
    /\ pc = "poll"
    /\ pc' = "air"
    /\ \E d \in {0, 1} : /\ hold' = IF hold > d THEN hold - d ELSE 0
                         /\ due' = IF due > d THEN due - d ELSE 0
    /\ lapsed' = (lapsed \/ (hold > 0 /\ hold' = 0))
    /\ out' = Nothing
    /\ UNCHANGED <<cfg, level, aq, pm, ovr, cause, pending, nodeIdValid, synced,
                   ready, told, unreported>>

----------------------------------------------------------------------------
(* The rest of app_process_action.                                         *)

\* What was left of the lock when the reading was taken: it carries the time
\* of its sample, which can lie before the end of a lock that has run out.
AtSample(rest) ==
    \/ rest = hold
    \/ lapsed /\ hold = 0 /\ rest = 1

\* app_sensor_runtime_try_submit_air_quality
AirQuality(a) ==
    /\ pc = "air"
    /\ pc' = "pm25"
    /\ aq' = a
    /\ lapsed' = FALSE
    /\ UNCHANGED <<cfg, hold, pm, ovr, nodeIdValid, synced, ready>>
    /\ \E rest \in 0..Hold : AtSample(rest) /\ ReconcileAt(rest, "THRESHOLD")
    /\ Service(TRUE, FALSE, FALSE)

\* app_sensor_runtime_try_submit_pm25
SubmitPm25(p) ==
    /\ pc = "pm25"
    /\ pc' = "tick"
    /\ pm' = p
    /\ UNCHANGED <<cfg, hold, lapsed, aq, ovr, nodeIdValid, synced, ready>>
    /\ Reconcile("L5_SENSOR")
    /\ Service(TRUE, FALSE, TRUE)

\* No new reading of this sensor.
NoReading ==
    /\ \/ pc = "air" /\ pc' = "pm25"
       \/ pc = "pm25" /\ pc' = "tick"
    /\ out' = Nothing
    /\ UNCHANGED <<engineVars, pending, nodeIdValid, synced, ready, told, unreported>>

\* pyronet_risk_service_tick: the level follows a lock that has run out; a
\* report that is due is raised unless the level change has just raised one.
Tick ==
    /\ pc = "tick"
    /\ pc' = "packet"
    /\ UNCHANGED <<cfg, hold, lapsed, aq, pm, ovr, nodeIdValid, synced, ready>>
    /\ LET next == Supported(cfg, aq, pm, ovr, hold) IN
       /\ level' = next
       /\ due' = IF next # level \/ due = 0 THEN Interval ELSE due
       /\ cause' = IF next = level THEN cause
                   ELSE IF ovr # None THEN "OVERRIDE" ELSE ReasonFor(next, "NONE")
    /\ Service(FALSE, due = 0, TRUE)

\* app_process_periodic_packet: once a minute, straight from the snapshot.
PeriodicPacket ==
    /\ pc = "packet"
    /\ pc' = "ready"
    /\ UNCHANGED <<engineVars, pending, nodeIdValid, synced, ready>>
    /\ \/ /\ ready /\ nodeIdValid /\ synced /\ aq # None /\ pm # None
          /\ out' = [Nothing EXCEPT ![IF level = 5 THEN "alert" ELSE "report"] =
                        [level |-> level, pm |-> TRUE]]
       \/ out' = Nothing
    /\ Record

\* Mutant: the slots are cleared when the link is ready, sent or not
RetryReadyClearing ==
    /\ pc = "ready"
    /\ pc' = "poll"
    /\ UNCHANGED <<engineVars, nodeIdValid, synced, ready, told, unreported>>
    /\ pending' = IF ready THEN Nothing ELSE pending
    /\ out' = IF synced THEN pending ELSE Nothing

\* app_retry_ready_work
RetryReady ==
    /\ pc = "ready"
    /\ pc' = "poll"
    /\ UNCHANGED <<engineVars, nodeIdValid, synced, ready>>
    /\ Hand(Nothing, ready)
    /\ Record

----------------------------------------------------------------------------
RiskEvent ==
    \/ NeighborAlert
    \/ \E c \in Configs : ConfigUpdate(c)
    \/ \E o \in Overrides \cup {None} : SetOverride(o)
    \/ LinkChange

RiskStep ==
    \/ PollDone
    \/ \E a \in Readings : AirQuality(a)
    \/ \E p \in Pm25 : SubmitPm25(p)
    \/ NoReading
    \/ Tick
    \/ PeriodicPacket

Next == RiskEvent \/ TimeSync \/ RiskStep \/ RetryReady

Spec == Init /\ [][Next]_vars

----------------------------------------------------------------------------
(***************************************************************************)
(* Between two events the level is the one the policy supports, whatever   *)
(* order readings, neighbour alerts, configurations and overrides come in: *)
(* the override while it is active, 4 while the neighbour-alert lock runs, *)
(* else the level of the readings; only a lock that has just run out may   *)
(* keep the level at 4 until the next handler, or a reading taken before   *)
(* it ran out bring 4 back until the next one.                             *)
(***************************************************************************)
LevelFollowsPolicy ==
    \/ level = Supported(cfg, aq, pm, ovr, hold)
    \/ ovr = None /\ hold = 0 /\ level = 4

(***************************************************************************)
(* However sends are deferred, retried, replaced and overtaken by periodic *)
(* packets: when no report is pending, the last report handed to the host  *)
(* link carries the current level, unless the level last changed before    *)
(* there was any reading to report.                                        *)
(***************************************************************************)
LastReportIsCurrent ==
    (pending["report"] = NoReq /\ ~unreported) => told = level

(***************************************************************************)
(* A deferred alert or report leaves its slot only by being sent, or       *)
(* because a newer one of its kind is sent or takes the slot.              *)
(***************************************************************************)
PendingLeavesBySending ==
    [][\A k \in Kind : pending[k] # NoReq /\ pending'[k] = NoReq => out'[k] # NoReq]_vars

(***************************************************************************)
(* Once the link stays ready on a provisioned node that knows the time,    *)
(* everything deferred is handed over in the end: alerts in any case,      *)
(* reports when there is a PM2.5 reading.                                  *)
(***************************************************************************)
DeferredIsSent ==
    <>[](ready /\ synced /\ nodeIdValid /\ pm # None) =>
        []<>(pending = Nothing)

(***************************************************************************)
(* The engine's test says a sensor-driven entry of level 5 must send a     *)
(* sensor alert and must broadcast a neighbour alert.                      *)
(***************************************************************************)
SensorEntryAlerts ==
    [][level # 5 /\ level' = 5 /\ cause' = "L5_SENSOR" =>
         \A k \in {"alert", "neighbor"} : out'[k] # NoReq \/ pending'[k] # NoReq]_vars
=============================================================================
