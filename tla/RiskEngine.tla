----------------------------- MODULE RiskEngine -----------------------------
(***************************************************************************)
(* The fire-risk level of a sensor node                                    *)
(* (firmware/sensor_mcu/services/risk/pyronet_risk_engine.c): which level  *)
(* the latest readings, a neighbour's alert and a manual override support, *)
(* and what the engine asks to be sent when the level changes.             *)
(*                                                                         *)
(* Times are kept as what is left of them: hold is the rest of the lock a  *)
(* neighbour's alert puts on level 4, due the rest of the report interval. *)
(***************************************************************************)
EXTENDS Integers

CONSTANTS Configs,    \* risk configurations: config_id and thresholds
          Default,    \* the one of pyronet_risk_config_default
          Readings,   \* air-quality readings: temperature, humidity, voc
          Pm25,       \* particulate readings
          Overrides,  \* levels a manual override may force
          Hold,       \* PYRONET_RISK_NEIGHBOR_HOLD_NS
          Interval,   \* pyronet_risk_report_interval_for_level
          None        \* no reading yet; no override

Level == 1..5

ASSUME EngineAssumption ==
    /\ Default \in Configs
    /\ Overrides \subseteq Level
    /\ Hold \in Nat \ {0}
    /\ Interval \in Nat \ {0}
    /\ None \notin Readings /\ None \notin Pm25 /\ None \notin Level

VARIABLES cfg,    \* config
          level,  \* current_level
          hold,   \* neighbor_hold_until_ns - now, 0 when past
          due,    \* next_report_due_ns - now, 0 when past
          aq,     \* latest_temperature_c, latest_humidity_percent, latest_voc
          pm,     \* latest_pm25_ug_m3
          ovr,    \* override_level while override_active
          cause,  \* reason of the last transition's report
          lapsed  \* no air-quality reading since the lock has run out: the next
                  \* may have been taken before

engineVars == <<cfg, level, hold, due, aq, pm, ovr, cause, lapsed>>

Reasons == {"NONE", "THRESHOLD", "L4_VOC", "NEIGHBOR_ALERT", "L5_SENSOR",
            "OVERRIDE", "CONFIG_UPDATE"}

EngineTypeOK ==
    /\ cfg \in Configs
    /\ level \in Level
    /\ hold \in 0..Hold
    /\ due \in 0..Interval
    /\ aq \in Readings \cup {None}
    /\ pm \in Pm25 \cup {None}
    /\ ovr \in Overrides \cup {None}
    /\ cause \in Reasons
    /\ lapsed \in BOOLEAN

EngineInit ==
    /\ cfg = Default
    /\ level = 1
    /\ hold = 0
    /\ due = Interval
    /\ aq = None
    /\ pm = None
    /\ ovr = None
    /\ cause = "NONE"
    /\ lapsed = FALSE

----------------------------------------------------------------------------
\* pyronet_risk_live_sensor_level for configuration c, readings a and p: the
\* highest level whose condition holds.
Live(c, a, p) ==
    IF a = None THEN 1
    ELSE LET warm(t, h, v) == a.temp >= t /\ a.rh <= h /\ a.voc >= v
             supports(l) ==
               \/ l = 1
               \/ l = 2 /\ warm(c.l2_temp, c.l2_rh, c.l2_voc)
               \/ l = 3 /\ warm(c.l3_temp, c.l3_rh, c.l3_voc)
               \/ l = 4 /\ a.voc >= c.l4_voc
               \/ l = 5 /\ a.voc >= c.l5_voc /\ p # None /\ p >= c.l5_pm25
         IN  CHOOSE l \in Level : supports(l) /\ \A m \in Level : supports(m) => m <= l

\* pyronet_risk_supported_level_now
Supported(c, a, p, o, h) ==
    IF o # None THEN o
    ELSE IF h > 0 THEN 4
    ELSE Live(c, a, p)

\* pyronet_risk_reason_for_level
ReasonFor(l, fallback) ==
    CASE l = 4 -> "L4_VOC" [] l = 5 -> "L5_SENSOR" [] OTHER -> fallback

\* pyronet_risk_transition and pyronet_risk_apply_policy; a transition to the
\* level already held does nothing.
Transition(next, reason) ==
    /\ level' = next
    /\ IF next = level THEN UNCHANGED <<due, cause>>
       ELSE due' = Interval /\ cause' = reason

\* pyronet_risk_reconcile at a time when rest is left of the lock
ReconcileAt(rest, reason) ==
    LET next == Supported(cfg', aq', pm', ovr', rest) IN
    Transition(next, IF ovr' # None THEN "OVERRIDE" ELSE ReasonFor(next, reason))

Reconcile(reason) == ReconcileAt(hold', reason)
=============================================================================
