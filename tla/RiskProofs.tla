----------------------------- MODULE RiskProofs -----------------------------
(***************************************************************************)
(* The sensor MCU, for any configurations, readings, overrides, hold and   *)
(* report interval: the state keeps its types, the level follows the       *)
(* policy, and a deferred request leaves its slot by being sent.           *)
(***************************************************************************)
EXTENDS SensorMcu, TLAPS

USE EngineAssumption, ServiceAssumption

----------------------------------------------------------------------------
(* The operators of the policy.                                            *)

\* The highest of five levels that satisfies a condition level 1 satisfies.
LEMMA HighestLevel ==
    ASSUME NEW S \in SUBSET Level, 1 \in S
    PROVE  \E l \in Level : l \in S /\ \A m \in Level : m \in S => m <= l
<1>1. Level = {1, 2, 3, 4, 5}
  BY DEF Level
<1>2. CASE 5 \in S
  BY <1>1, <1>2
<1>3. CASE 5 \notin S /\ 4 \in S
  BY <1>1, <1>3
<1>4. CASE 5 \notin S /\ 4 \notin S /\ 3 \in S
  BY <1>1, <1>4
<1>5. CASE 5 \notin S /\ 4 \notin S /\ 3 \notin S /\ 2 \in S
  BY <1>1, <1>5
<1>6. CASE 5 \notin S /\ 4 \notin S /\ 3 \notin S /\ 2 \notin S
  BY <1>1, <1>6
<1> QED BY <1>2, <1>3, <1>4, <1>5, <1>6

LEMMA LiveLevel ==
    ASSUME NEW c, NEW a, NEW p
    PROVE  Live(c, a, p) \in Level
<1>1. CASE a = None
  BY <1>1 DEF Live, Level
<1>2. CASE a # None
  <2> DEFINE warm(t, h, v) == a.temp >= t /\ a.rh <= h /\ a.voc >= v
             supports(l) ==
               \/ l = 1
               \/ l = 2 /\ warm(c.l2_temp, c.l2_rh, c.l2_voc)
               \/ l = 3 /\ warm(c.l3_temp, c.l3_rh, c.l3_voc)
               \/ l = 4 /\ a.voc >= c.l4_voc
               \/ l = 5 /\ a.voc >= c.l5_voc /\ p # None /\ p >= c.l5_pm25
             S == {l \in Level : supports(l)}
  <2>1. Live(c, a, p) =
          CHOOSE l \in Level : supports(l) /\ \A m \in Level : supports(m) => m <= l
    BY <1>2, Zenon DEF Live
  <2>2. 1 \in S
    BY DEF Level
  <2>3. \A l \in Level : supports(l) <=> l \in S
    OBVIOUS
  <2> HIDE DEF supports, S
  <2>4. S \in SUBSET Level
    BY DEF S
  <2>5. \E l \in Level : l \in S /\ \A m \in Level : m \in S => m <= l
    BY <2>2, <2>4, HighestLevel
  <2>6. \E l \in Level : supports(l) /\ \A m \in Level : supports(m) => m <= l
    BY <2>3, <2>5
  <2> QED BY <2>1, <2>6
<1> QED BY <1>1, <1>2

LEMMA SupportedLevel ==
    ASSUME NEW c, NEW a, NEW p, NEW o \in Overrides \cup {None}, NEW h
    PROVE  Supported(c, a, p, o, h) \in Level
BY LiveLevel DEF Supported, Level

LEMMA ReasonIs ==
    ASSUME NEW l, NEW r \in Reasons
    PROVE  ReasonFor(l, r) \in Reasons
BY DEF ReasonFor, Reasons

----------------------------------------------------------------------------
(* Handing requests over.                                                  *)

PendingType == pending \in [Kind -> Request \cup {NoReq}]

\* What an engine operation raises is a request or nothing.
LEMMA RaisedType ==
    ASSUME NEW l \in Level, NEW t \in BOOLEAN, NEW p \in BOOLEAN
    PROVE  Raised(l, t, p) \in [Kind -> Request \cup {NoReq}]
<1>1. [level |-> l, pm |-> pm' # None] \in Request
  BY DEF Request
<1> QED BY <1>1 DEF Raised

LEMMA NothingType == Nothing \in [Kind -> Request \cup {NoReq}]
BY DEF Nothing

LEMMA KeptType ==
    ASSUME PendingType, NEW r \in [Kind -> Request \cup {NoReq}]
    PROVE  Keeping(r) \in [Kind -> Request \cup {NoReq}]
BY DEF Keeping, PendingType

LEMMA FilledType ==
    ASSUME NEW f \in [Kind -> Request \cup {NoReq}]
    PROVE  /\ Filled(f) \in [Kind -> Request \cup {NoReq}]
           /\ \A k \in Kind : f[k] # NoReq => Filled(f)[k] # NoReq
<1>1. ASSUME NEW x \in Request PROVE [x EXCEPT !.pm = TRUE] \in Request
  BY <1>1 DEF Request
<1> QED BY <1>1 DEF Filled

\* Hand keeps the types, and empties a slot only by sending.
LEMMA HandKeeps ==
    ASSUME PendingType, NEW r \in [Kind -> Request \cup {NoReq}],
           NEW retry \in BOOLEAN, Hand(r, retry)
    PROVE  /\ pending' \in [Kind -> Request \cup {NoReq}]
           /\ out' \in [Kind -> Request \cup {NoReq}]
           /\ \A k \in Kind :
                pending[k] # NoReq /\ pending'[k] = NoReq => out'[k] # NoReq
<1> DEFINE kept == IF retry THEN Filled(Keeping(r)) ELSE Keeping(r)
           flushed(k) == retry /\ kept[k] # NoReq /\ Sendable(k, kept[k])
<1>1. /\ pending' = [k \in Kind |-> IF flushed(k) THEN NoReq ELSE kept[k]]
      /\ out' = [k \in Kind |-> IF Direct(r, k) THEN r[k]
                                ELSE IF flushed(k) THEN kept[k] ELSE NoReq]
  BY DEF Hand
<1>2. /\ kept \in [Kind -> Request \cup {NoReq}]
      /\ \A k \in Kind : Keeping(r)[k] # NoReq => kept[k] # NoReq
  BY KeptType, FilledType
<1>3. ASSUME NEW k \in Kind, pending[k] # NoReq, ~Direct(r, k)
      PROVE  Keeping(r)[k] # NoReq
  BY <1>3 DEF Keeping
<1>4. \A k \in Kind : flushed(k) => kept[k] # NoReq
  OBVIOUS
<1>5. \A k \in Kind : Direct(r, k) => r[k] # NoReq
  BY DEF Direct
<1> HIDE DEF kept, flushed
<1>6. ASSUME NEW k \in Kind, pending[k] # NoReq, pending'[k] = NoReq
      PROVE  out'[k] # NoReq
  <2>1. CASE Direct(r, k)
    BY <1>1, <1>5, <2>1
  <2>2. CASE ~Direct(r, k)
    <3>1. kept[k] # NoReq
      BY <1>2, <1>3, <1>6, <2>2
    <3>2. flushed(k)
      BY <1>1, <1>6, <3>1
    <3> QED BY <1>1, <2>2, <3>1, <3>2
  <2> QED BY <2>1, <2>2
<1> QED BY <1>1, <1>2, <1>6

----------------------------------------------------------------------------
(* One handler: the engine's part, then the service's.                     *)

\* What every step leaves in the variables a transition or a send writes.
EngineSet == level' \in Level /\ due' \in 0..Interval /\ cause' \in Reasons
ServiceSet ==
    /\ pending' \in [Kind -> Request \cup {NoReq}]
    /\ out' \in [Kind -> Request \cup {NoReq}]
    /\ told' \in Level \cup {0}
    /\ unreported' \in BOOLEAN

\* The step of PendingLeavesBySending.
LeavesBySending ==
    \A k \in Kind : pending[k] # NoReq /\ pending'[k] = NoReq => out'[k] # NoReq

LEMMA TransitionSets ==
    ASSUME TypeOK, NEW l \in Level, NEW r \in Reasons, Transition(l, r)
    PROVE  EngineSet
BY DEF TypeOK, EngineTypeOK, Transition, EngineSet

LEMMA ReconcileSets ==
    ASSUME TypeOK, ovr' \in Overrides \cup {None}, NEW r \in Reasons, NEW rest,
           ReconcileAt(rest, r)
    PROVE  EngineSet /\ level' = Supported(cfg', aq', pm', ovr', rest)
<1> DEFINE l == Supported(cfg', aq', pm', ovr', rest)
           reason == IF ovr' # None THEN "OVERRIDE" ELSE ReasonFor(l, r)
<1>1. l \in Level
  BY SupportedLevel
<1>2. reason \in Reasons
  BY ReasonIs DEF Reasons
<1>3. Transition(l, reason)
  BY DEF ReconcileAt
<1> HIDE DEF l, reason
<1>4. EngineSet /\ level' = l
  BY <1>1, <1>2, <1>3, TransitionSets DEF Transition
<1> QED BY <1>4 DEF l

LEMMA RecordSets ==
    ASSUME TypeOK, out' \in [Kind -> Request \cup {NoReq}], Record
    PROVE  told' \in Level \cup {0} /\ unreported' \in BOOLEAN
<1>1. out'["report"] # NoReq => out'["report"].level \in Level
  BY DEF Kind, Request
<1>2. told' \in Level \cup {0}
  BY <1>1 DEF Record, TypeOK
<1>3. unreported' \in BOOLEAN
  <2>1. unreported \in BOOLEAN
    BY DEF TypeOK
  <2>2. unreported' = IF level' # level THEN aq' = None ELSE unreported
    BY DEF Record
  <2> QED BY <2>1, <2>2, Zenon
<1> QED BY <1>2, <1>3

LEMMA HandSets ==
    ASSUME TypeOK, NEW r \in [Kind -> Request \cup {NoReq}],
           NEW retry \in BOOLEAN, Hand(r, retry), Record
    PROVE  ServiceSet /\ LeavesBySending
<1>1. PendingType
  BY DEF TypeOK, PendingType
<1>2. /\ pending' \in [Kind -> Request \cup {NoReq}]
      /\ out' \in [Kind -> Request \cup {NoReq}]
      /\ LeavesBySending
  BY <1>1, HandKeeps DEF LeavesBySending
<1> QED BY <1>2, RecordSets DEF ServiceSet

LEMMA ServiceSets ==
    ASSUME TypeOK, level' \in Level, NEW t \in BOOLEAN, NEW p \in BOOLEAN,
           NEW r \in BOOLEAN, Service(t, p, r)
    PROVE  ServiceSet /\ LeavesBySending
<1>1. Raised(level', t, p) \in [Kind -> Request \cup {NoReq}]
  BY RaisedType
<1> QED BY <1>1, HandSets DEF Service

\* A step that sends nothing.
LEMMA SilentSets ==
    ASSUME TypeOK, out' = Nothing, UNCHANGED <<pending, told, unreported>>
    PROVE  ServiceSet /\ LeavesBySending
<1>1. ServiceSet
  BY NothingType DEF TypeOK, ServiceSet
<1>2. LeavesBySending
  BY DEF LeavesBySending
<1> QED BY <1>1, <1>2

----------------------------------------------------------------------------
(* The inductive invariant, and every action.                              *)

IInv == TypeOK /\ LevelFollowsPolicy

\* What is to be shown of a step.
Good == IInv' /\ LeavesBySending

\* Most steps leave a level that the policy supports.
LEMMA Conclude ==
    ASSUME EngineSet, ServiceSet, LeavesBySending,
           cfg' \in Configs, hold' \in 0..Hold, aq' \in Readings \cup {None},
           pm' \in Pm25 \cup {None}, ovr' \in Overrides \cup {None},
           nodeIdValid' \in BOOLEAN, synced' \in BOOLEAN, ready' \in BOOLEAN,
           pc' \in {"poll", "air", "pm25", "tick", "packet", "ready"}, lapsed' \in BOOLEAN,
           LevelFollowsPolicy'
    PROVE  Good
BY DEF EngineSet, ServiceSet, Good, IInv, TypeOK, EngineTypeOK

LEMMA NeighborAlertGood == ASSUME IInv, NeighborAlert PROVE Good
<1>1. /\ hold' = Hold /\ lapsed' = FALSE /\ UNCHANGED <<cfg, aq, pm, ovr, nodeIdValid, synced, ready, pc>>
      /\ IF ovr # None THEN Reconcile("NEIGHBOR_ALERT") ELSE Transition(4, "NEIGHBOR_ALERT")
      /\ Service(FALSE, FALSE, FALSE)
  BY DEF NeighborAlert
<1>2. TypeOK /\ "NEIGHBOR_ALERT" \in Reasons /\ 4 \in Level
  BY DEF IInv, Reasons, Level
<1>3. ovr' \in Overrides \cup {None}
  BY <1>1, <1>2 DEF TypeOK, EngineTypeOK
<1>4. EngineSet /\ level' = Supported(cfg', aq', pm', ovr', hold')
  <2>1. CASE ovr # None
    BY <1>1, <1>2, <1>3, <2>1, ReconcileSets DEF Reconcile
  <2>2. CASE ovr = None
    BY <1>1, <1>2, <2>2, TransitionSets DEF Transition, Supported
  <2> QED BY <2>1, <2>2
<1>5. ServiceSet /\ LeavesBySending
  BY <1>1, <1>2, <1>4, ServiceSets DEF EngineSet
<1>6. lapsed' \in BOOLEAN /\ LevelFollowsPolicy'
  BY <1>1, <1>4 DEF LevelFollowsPolicy
<1> QED
  BY <1>1, <1>2, <1>4, <1>5, <1>6, Conclude DEF TypeOK, EngineTypeOK

LEMMA ConfigUpdateGood == ASSUME IInv, NEW c \in Configs, ConfigUpdate(c) PROVE Good
<1>1. /\ cfg' = c /\ UNCHANGED <<hold, lapsed, aq, pm, ovr, nodeIdValid, synced, ready, pc>>
      /\ Transition(Supported(cfg', aq, pm, ovr, hold),
                    IF ovr # None THEN "OVERRIDE" ELSE "CONFIG_UPDATE")
      /\ Service(FALSE, FALSE, FALSE)
  BY DEF ConfigUpdate
<1>2. TypeOK /\ {"OVERRIDE", "CONFIG_UPDATE"} \subseteq Reasons
  BY DEF IInv, Reasons
<1>3. Supported(cfg', aq, pm, ovr, hold) \in Level
  BY <1>2, SupportedLevel DEF TypeOK, EngineTypeOK
<1>4. EngineSet /\ level' = Supported(cfg', aq', pm', ovr', hold')
  BY <1>1, <1>2, <1>3, TransitionSets DEF Transition
<1>5. ServiceSet /\ LeavesBySending
  BY <1>1, <1>2, <1>4, ServiceSets DEF EngineSet
<1> QED
  BY <1>1, <1>2, <1>4, <1>5, Conclude DEF TypeOK, EngineTypeOK, LevelFollowsPolicy

LEMMA SetOverrideGood ==
    ASSUME IInv, NEW o \in Overrides \cup {None}, SetOverride(o) PROVE Good
<1>1. /\ ovr' = o /\ UNCHANGED <<cfg, hold, lapsed, aq, pm, nodeIdValid, synced, ready, pc>>
      /\ Transition(Supported(cfg, aq, pm, o, hold), "OVERRIDE")
      /\ Service(FALSE, FALSE, FALSE)
  BY DEF SetOverride
<1>2. TypeOK /\ "OVERRIDE" \in Reasons
  BY DEF IInv, Reasons
<1>3. Supported(cfg, aq, pm, o, hold) \in Level
  BY SupportedLevel
<1>4. EngineSet /\ level' = Supported(cfg', aq', pm', ovr', hold')
  BY <1>1, <1>2, <1>3, TransitionSets DEF Transition
<1>5. ServiceSet /\ LeavesBySending
  BY <1>1, <1>2, <1>4, ServiceSets DEF EngineSet
<1> QED
  BY <1>1, <1>2, <1>4, <1>5, Conclude DEF TypeOK, EngineTypeOK, LevelFollowsPolicy

\* A step that leaves the engine alone keeps what the policy says of it.
LEMMA EngineStays ==
    ASSUME IInv, UNCHANGED engineVars
    PROVE  EngineSet /\ LevelFollowsPolicy'
<1>1. EngineSet
  BY DEF IInv, TypeOK, EngineTypeOK, EngineSet, engineVars
<1>2. LevelFollowsPolicy'
  BY DEF IInv, LevelFollowsPolicy, engineVars
<1> QED BY <1>1, <1>2

LEMMA TimeSyncGood == ASSUME IInv, TimeSync PROVE Good
<1>1. TypeOK /\ synced' = TRUE /\ UNCHANGED <<engineVars, nodeIdValid, ready, pc>>
  BY DEF IInv, TimeSync
<1>2. ServiceSet /\ LeavesBySending
  BY <1>1, NothingType, HandSets DEF TimeSync
<1> QED
  BY <1>1, <1>2, EngineStays, Conclude DEF TypeOK, EngineTypeOK, engineVars

LEMMA LinkChangeGood == ASSUME IInv, LinkChange PROVE Good
<1>1. /\ TypeOK /\ ready' \in BOOLEAN
      /\ out' = Nothing
      /\ UNCHANGED <<engineVars, pending, nodeIdValid, synced, pc, told, unreported>>
  BY DEF IInv, LinkChange
<1>2. ServiceSet /\ LeavesBySending
  BY <1>1, SilentSets
<1> QED
  BY <1>1, <1>2, EngineStays, Conclude DEF TypeOK, EngineTypeOK, engineVars

LEMMA PollDoneGood == ASSUME IInv, PollDone PROVE Good
<1>1. PICK d \in {0, 1} : /\ hold' = IF hold > d THEN hold - d ELSE 0
                          /\ due' = IF due > d THEN due - d ELSE 0
  BY DEF PollDone
<1>2. /\ TypeOK /\ LevelFollowsPolicy /\ pc' = "air" /\ out' = Nothing
      /\ UNCHANGED <<cfg, level, aq, pm, ovr, cause, pending, nodeIdValid, synced,
                     ready, told, unreported>>
  BY DEF IInv, PollDone
<1>3. hold' \in 0..Hold /\ lapsed' \in BOOLEAN /\ EngineSet
  <2>1. hold' \in 0..Hold /\ EngineSet
    BY <1>1, <1>2 DEF TypeOK, EngineTypeOK, EngineSet
  <2>2. lapsed' = (lapsed \/ (hold > 0 /\ hold' = 0))
    BY DEF PollDone
  <2> QED BY <2>1, <2>2
<1>4. LevelFollowsPolicy'
  BY <1>1, <1>2 DEF LevelFollowsPolicy, Supported, TypeOK, EngineTypeOK
<1>5. ServiceSet /\ LeavesBySending
  BY <1>2, SilentSets
<1> QED BY <1>2, <1>3, <1>4, <1>5, Conclude DEF TypeOK, EngineTypeOK

\* A reading from before the end of the lock supports level 4.
LEMMA AirQualityGood == ASSUME IInv, NEW a \in Readings, AirQuality(a) PROVE Good
<1>1. /\ pc' = "pm25" /\ aq' = a /\ lapsed' = FALSE
      /\ UNCHANGED <<cfg, hold, pm, ovr, nodeIdValid, synced, ready>>
      /\ Service(TRUE, FALSE, FALSE)
  BY DEF AirQuality
<1>2. PICK rest \in 0..Hold : AtSample(rest) /\ ReconcileAt(rest, "THRESHOLD")
  BY DEF AirQuality
<1>3. TypeOK /\ "THRESHOLD" \in Reasons
  BY DEF IInv, Reasons
<1>4. ovr' \in Overrides \cup {None}
  BY <1>1, <1>3 DEF TypeOK, EngineTypeOK
<1>5. EngineSet /\ level' = Supported(cfg', aq', pm', ovr', rest)
  BY <1>2, <1>3, <1>4, ReconcileSets
<1>6. LevelFollowsPolicy'
  <2>1. CASE rest = hold
    BY <1>1, <1>5, <2>1 DEF LevelFollowsPolicy
  <2>2. CASE hold = 0 /\ rest = 1
    BY <1>1, <1>5, <2>2 DEF LevelFollowsPolicy, Supported
  <2> QED BY <1>2, <2>1, <2>2 DEF AtSample
<1>7. ServiceSet /\ LeavesBySending
  BY <1>1, <1>3, <1>5, ServiceSets DEF EngineSet
<1> QED
  BY <1>1, <1>3, <1>5, <1>6, <1>7, Conclude DEF TypeOK, EngineTypeOK

LEMMA SubmitPm25Good == ASSUME IInv, NEW p \in Pm25, SubmitPm25(p) PROVE Good
<1>1. /\ pc' = "tick" /\ pm' = p
      /\ UNCHANGED <<cfg, hold, lapsed, aq, ovr, nodeIdValid, synced, ready>>
      /\ Reconcile("L5_SENSOR")
      /\ Service(TRUE, FALSE, TRUE)
  BY DEF SubmitPm25
<1>2. TypeOK /\ "L5_SENSOR" \in Reasons
  BY DEF IInv, Reasons
<1>3. ovr' \in Overrides \cup {None}
  BY <1>1, <1>2 DEF TypeOK, EngineTypeOK
<1>4. EngineSet /\ level' = Supported(cfg', aq', pm', ovr', hold')
  BY <1>1, <1>2, <1>3, ReconcileSets DEF Reconcile
<1>5. ServiceSet /\ LeavesBySending
  BY <1>1, <1>2, <1>4, ServiceSets DEF EngineSet
<1> QED
  BY <1>1, <1>2, <1>4, <1>5, Conclude DEF TypeOK, EngineTypeOK, LevelFollowsPolicy

LEMMA NoReadingGood == ASSUME IInv, NoReading PROVE Good
<1>1. /\ TypeOK /\ pc' \in {"pm25", "tick"}
      /\ out' = Nothing
      /\ UNCHANGED <<engineVars, pending, nodeIdValid, synced, ready, told, unreported>>
  BY DEF IInv, NoReading
<1>2. ServiceSet /\ LeavesBySending
  BY <1>1, SilentSets
<1> QED
  BY <1>1, <1>2, EngineStays, Conclude DEF TypeOK, EngineTypeOK, engineVars

LEMMA TickGood == ASSUME IInv, Tick PROVE Good
<1> DEFINE next == Supported(cfg, aq, pm, ovr, hold)
<1>1. /\ pc' = "packet"
      /\ UNCHANGED <<cfg, hold, lapsed, aq, pm, ovr, nodeIdValid, synced, ready>>
      /\ level' = next
      /\ due' = IF next # level \/ due = 0 THEN Interval ELSE due
      /\ cause' = IF next = level THEN cause
                  ELSE IF ovr # None THEN "OVERRIDE" ELSE ReasonFor(next, "NONE")
      /\ Service(FALSE, due = 0, TRUE)
  BY DEF Tick
<1>2. TypeOK /\ "OVERRIDE" \in Reasons /\ ReasonFor(next, "NONE") \in Reasons
  BY ReasonIs DEF IInv, Reasons
<1>3. next \in Level
  BY <1>2, SupportedLevel DEF TypeOK, EngineTypeOK
<1>4. EngineSet
  <2> HIDE DEF next
  <2> QED BY <1>1, <1>2, <1>3 DEF EngineSet, TypeOK, EngineTypeOK
<1>5. ServiceSet /\ LeavesBySending
  <2>1. (due = 0) \in BOOLEAN
    OBVIOUS
  <2> QED BY <1>1, <1>2, <1>4, <2>1, ServiceSets DEF EngineSet
<1>6. LevelFollowsPolicy'
  BY <1>1 DEF LevelFollowsPolicy
<1> QED BY <1>1, <1>2, <1>4, <1>5, <1>6, Conclude DEF TypeOK, EngineTypeOK

LEMMA PeriodicPacketGood == ASSUME IInv, PeriodicPacket PROVE Good
<1>1. /\ TypeOK /\ pc' = "ready" /\ Record
      /\ UNCHANGED <<engineVars, pending, nodeIdValid, synced, ready>>
  BY DEF IInv, PeriodicPacket
<1>2. out' \in [Kind -> Request \cup {NoReq}]
  <2> DEFINE r == [level |-> level, pm |-> TRUE]
             k == IF level = 5 THEN "alert" ELSE "report"
  <2>1. r \in Request
    BY <1>1 DEF Request, TypeOK, EngineTypeOK
  <2>2. k \in Kind
    BY DEF Kind
  <2>3. out' = [Nothing EXCEPT ![k] = r] \/ out' = Nothing
    BY DEF PeriodicPacket
  <2> HIDE DEF r, k
  <2> QED BY <2>1, <2>2, <2>3, NothingType
<1>3. ServiceSet /\ LeavesBySending
  <2>1. pending' \in [Kind -> Request \cup {NoReq}]
    BY <1>1 DEF TypeOK
  <2> QED BY <1>1, <1>2, <2>1, RecordSets DEF ServiceSet, LeavesBySending
<1> QED
  BY <1>1, <1>3, EngineStays, Conclude DEF TypeOK, EngineTypeOK, engineVars

LEMMA RetryReadyGood == ASSUME IInv, RetryReady PROVE Good
<1>1. TypeOK /\ pc' = "poll" /\ UNCHANGED <<engineVars, nodeIdValid, synced, ready>>
  BY DEF IInv, RetryReady
<1>2. ready \in BOOLEAN /\ Hand(Nothing, ready) /\ Record
  BY <1>1 DEF RetryReady, TypeOK
<1>3. ServiceSet /\ LeavesBySending
  BY <1>1, <1>2, NothingType, HandSets
<1> QED
  BY <1>1, <1>3, EngineStays, Conclude DEF TypeOK, EngineTypeOK, engineVars

LEMMA StutterGood == ASSUME IInv, UNCHANGED vars PROVE Good
<1>1. TypeOK' /\ LeavesBySending
  BY DEF IInv, TypeOK, EngineTypeOK, vars, engineVars, serviceVars, LeavesBySending
<1>2. LevelFollowsPolicy'
  BY EngineStays DEF vars
<1> QED BY <1>1, <1>2 DEF Good, IInv

LEMMA StepGood == IInv /\ [Next]_vars => Good
<1> SUFFICES ASSUME IInv, [Next]_vars PROVE Good
  OBVIOUS
<1>1. CASE RiskEvent
  BY <1>1, NeighborAlertGood, ConfigUpdateGood, SetOverrideGood, LinkChangeGood
     DEF RiskEvent
<1>2. CASE RiskStep
  BY <1>2, PollDoneGood, AirQualityGood, SubmitPm25Good, NoReadingGood, TickGood,
     PeriodicPacketGood DEF RiskStep
<1>3. CASE UNCHANGED vars
  BY <1>3, StutterGood
<1>4. CASE TimeSync \/ RetryReady
  BY <1>4, TimeSyncGood, RetryReadyGood
<1> QED BY <1>1, <1>2, <1>3, <1>4 DEF Next

LEMMA InitGood == Init => IInv
<1> SUFFICES ASSUME Init PROVE IInv
  OBVIOUS
<1>1. TypeOK
  <2>1. EngineTypeOK
    <3>1. lapsed \in BOOLEAN
      BY Zenon DEF Init, EngineInit
    <3> QED BY <3>1 DEF Init, EngineInit, EngineTypeOK, Level, Reasons
  <2>2. pending \in [Kind -> Request \cup {NoReq}] /\ out \in [Kind -> Request \cup {NoReq}]
    BY NothingType DEF Init
  <2>3. nodeIdValid \in BOOLEAN /\ synced \in BOOLEAN /\ ready \in BOOLEAN
        /\ unreported \in BOOLEAN
    BY Zenon DEF Init
  <2>4. pc \in {"poll", "air", "pm25", "tick", "packet", "ready"} /\ told \in Level \cup {0}
    BY DEF Init
  <2> QED BY <2>1, <2>2, <2>3, <2>4 DEF TypeOK
<1>2. LevelFollowsPolicy
  BY DEF Init, EngineInit, LevelFollowsPolicy, Supported, Live
<1> QED BY <1>1, <1>2 DEF IInv

----------------------------------------------------------------------------
(***************************************************************************)
(* The boundary transmitter leaves the risk service to itself: the main    *)
(* loop with both implements the risk service alone, and whatever is       *)
(* proved of that holds of the loop.                                       *)
(***************************************************************************)
THEOREM McuKeepsRisk == McuSpec => Spec
<1>1. McuInit => Init
  BY DEF McuInit
<1>2. [McuEvent \/ LoopStep]_mcuVars => [Next]_vars
  BY DEF McuEvent, LoopStep, ParentChanged, Next, mcuVars
<1> QED BY <1>1, <1>2, PTL DEF McuSpec, Spec

(***************************************************************************)
(* Level, timers, readings and pending requests keep their types.          *)
(***************************************************************************)
THEOREM RiskTypeCorrect == Spec => []TypeOK
<1>1. IInv /\ [Next]_vars => IInv'
  BY StepGood DEF Good
<1>2. IInv => TypeOK
  BY DEF IInv
<1> QED BY <1>1, <1>2, InitGood, PTL DEF Spec

(***************************************************************************)
(* The level follows the policy: override, then neighbour-alert lock, then *)
(* readings; only a lock that has just run out may keep level 4 a little   *)
(* longer.                                                                 *)
(***************************************************************************)
THEOREM RiskLevelFollowsPolicy == Spec => []LevelFollowsPolicy
<1>1. IInv /\ [Next]_vars => IInv'
  BY StepGood DEF Good
<1>2. IInv => LevelFollowsPolicy
  BY DEF IInv
<1> QED BY <1>1, <1>2, InitGood, PTL DEF Spec

(***************************************************************************)
(* A deferred alert or report leaves its slot only by being sent, or for a *)
(* newer one of its kind that is sent.                                     *)
(***************************************************************************)
THEOREM RiskPendingLeavesBySending == Spec => PendingLeavesBySending
<1>1. IInv /\ [Next]_vars => IInv'
  BY StepGood DEF Good
<1>2. IInv /\ [Next]_vars =>
        [\A k \in Kind : pending[k] # NoReq /\ pending'[k] = NoReq => out'[k] # NoReq]_vars
  BY StepGood DEF Good, LeavesBySending
<1>3. Spec => [][\A k \in Kind :
                    pending[k] # NoReq /\ pending'[k] = NoReq => out'[k] # NoReq]_vars
  BY <1>1, <1>2, InitGood, PTL DEF Spec
<1> QED BY <1>3 DEF PendingLeavesBySending

----------------------------------------------------------------------------
(* The report that tells the current level.                                *)

\* A pending report has the current level, and once a level change could be
\* reported the latest level is in the slot or has been handed over.
ReportKept ==
    /\ pending["report"] # NoReq => pending["report"].level = level /\ aq # None
    /\ ~unreported => aq # None
    /\ LastReportIsCurrent

LEMMA HandReports ==
    ASSUME TypeOK, ReportKept, aq # None => aq' # None,
           NEW r \in [Kind -> Request \cup {NoReq}], NEW retry \in BOOLEAN,
           Hand(r, retry), Record,
           r["report"] # NoReq => r["report"].level = level' /\ aq' # None,
           r["report"] = NoReq => level' = level \/ aq' = None
    PROVE  ReportKept'
<1> DEFINE k == "report"
           kept == IF retry THEN Filled(Keeping(r)) ELSE Keeping(r)
           flushed == retry /\ kept[k] # NoReq /\ Sendable(k, kept[k])
<1>1. k \in Kind
  BY DEF Kind
<1>2. /\ pending'[k] = IF flushed THEN NoReq ELSE kept[k]
      /\ out'[k] = IF Direct(r, k) THEN r[k] ELSE IF flushed THEN kept[k] ELSE NoReq
  BY <1>1 DEF Hand
<1>3. Keeping(r) \in [Kind -> Request \cup {NoReq}]
  BY KeptType DEF TypeOK, PendingType
<1>4. Keeping(r)[k] = IF r[k] = NoReq THEN pending[k]
                      ELSE IF Direct(r, k) THEN NoReq ELSE r[k]
  BY <1>1 DEF Keeping
<1>5. /\ Keeping(r)[k] # NoReq <=> kept[k] # NoReq
      /\ Keeping(r)[k] # NoReq => kept[k].level = Keeping(r)[k].level
  <2>1. CASE ~retry
    BY <2>1
  <2>2. CASE retry
    <3>1. kept[k] = IF Keeping(r)[k] # NoReq /\ pm' # None
                    THEN [Keeping(r)[k] EXCEPT !.pm = TRUE] ELSE Keeping(r)[k]
      BY <1>1, <2>2 DEF Filled
    <3>2. ASSUME NEW x \in Request
          PROVE  [x EXCEPT !.pm = TRUE] # NoReq /\ [x EXCEPT !.pm = TRUE].level = x.level
      BY <3>2 DEF Request
    <3>3. Keeping(r)[k] # NoReq => Keeping(r)[k] \in Request
      BY <1>1, <1>3
    <3> HIDE DEF kept
    <3> QED BY <3>1, <3>2, <3>3
  <2> QED BY <2>1, <2>2
<1>6. flushed => kept[k] # NoReq
  OBVIOUS
<1>7. Direct(r, k) => r[k] # NoReq
  BY DEF Direct
<1> HIDE DEF kept, flushed
<1>8. kept[k] # NoReq => kept[k].level = level' /\ aq' # None
  BY <1>4, <1>5 DEF ReportKept
<1>9. out'[k] # NoReq => out'[k].level = level' /\ aq' # None
  BY <1>2, <1>7, <1>8
<1>10. /\ told' = IF out'[k] # NoReq THEN out'[k].level ELSE told
       /\ unreported' <=> IF level' # level THEN aq' = None ELSE unreported
  BY DEF Record
<1>11. pending'[k] = NoReq /\ out'[k] = NoReq => r[k] = NoReq /\ pending[k] = NoReq
  BY <1>2, <1>4, <1>5, <1>6, <1>7
<1>12. pending'[k] # NoReq => pending'[k].level = level' /\ aq' # None
  BY <1>2, <1>8
<1>13. ~unreported' => aq' # None
  BY <1>10 DEF ReportKept
<1>14. pending'[k] = NoReq /\ ~unreported' => told' = level'
  BY <1>9, <1>10, <1>11, <1>13 DEF ReportKept, LastReportIsCurrent
<1> QED BY <1>12, <1>13, <1>14 DEF ReportKept, LastReportIsCurrent

LEMMA ServiceReports ==
    ASSUME TypeOK, ReportKept, level' \in Level, aq # None => aq' # None,
           NEW t \in BOOLEAN, NEW p \in BOOLEAN, NEW retry \in BOOLEAN,
           Service(t, p, retry)
    PROVE  ReportKept'
<1> DEFINE r == Raised(level', t, p)
           snapshot == [level |-> level', pm |-> pm' # None]
<1>1. r \in [Kind -> Request \cup {NoReq}]
  BY RaisedType
<1>2. snapshot \in Request /\ snapshot # NoReq /\ snapshot.level = level'
  <2>1. snapshot \in Request
    BY DEF Request
  <2>2. snapshot # NoReq
    <3> HIDE DEF snapshot
    <3> QED BY <2>1, ServiceAssumption
  <2> QED BY <2>1, <2>2
<1>3. r["report"] = IF aq' # None /\ (level' # level \/ p) THEN snapshot ELSE NoReq
  BY DEF Raised, Kind
<1>4. Hand(r, retry) /\ Record
  BY DEF Service
<1> HIDE DEF r, snapshot
<1> QED BY <1>1, <1>2, <1>3, <1>4, HandReports

\* A step that neither changes the level nor hands over a report.
LEMMA QuietReports ==
    ASSUME ReportKept, UNCHANGED <<level, aq, pending, told, unreported>>
    PROVE  ReportKept'
BY DEF ReportKept, LastReportIsCurrent

\* The two steps that only flush what is pending.
LEMMA FlushReports ==
    ASSUME TypeOK, ReportKept, UNCHANGED <<level, aq>>, NEW retry \in BOOLEAN,
           Hand(Nothing, retry), Record
    PROVE  ReportKept'
<1>1. Nothing["report"] = NoReq
  BY DEF Nothing, Kind
<1> QED BY <1>1, NothingType, HandReports

LEMMA PeriodicReports == ASSUME TypeOK, ReportKept, PeriodicPacket PROVE ReportKept'
<1>1. UNCHANGED <<level, aq, pending>> /\ Record
  BY DEF PeriodicPacket, engineVars
<1>2. out'["report"] # NoReq => out'["report"].level = level
  <2> DEFINE r == [level |-> level, pm |-> TRUE]
             k == IF level = 5 THEN "alert" ELSE "report"
  <2>1. out' = [Nothing EXCEPT ![k] = r] \/ out' = Nothing
    BY DEF PeriodicPacket
  <2>2. /\ Nothing["report"] = NoReq
        /\ [Nothing EXCEPT ![k] = r]["report"] = IF level = 5 THEN NoReq ELSE r
    BY DEF Nothing, Kind
  <2>3. r.level = level
    OBVIOUS
  <2> HIDE DEF r, k
  <2>4. CASE out' = Nothing
    BY <2>2, <2>4
  <2>5. CASE out' = [Nothing EXCEPT ![k] = r]
    BY <2>2, <2>3, <2>5
  <2> QED BY <2>1, <2>4, <2>5
<1>3. told' \in {told, level} /\ (told = level => told' = level)
  <2>1. told' = IF out'["report"] # NoReq THEN out'["report"].level ELSE told
    BY <1>1 DEF Record
  <2>2. CASE out'["report"] # NoReq
    BY <1>2, <2>1, <2>2
  <2>3. CASE out'["report"] = NoReq
    BY <2>1, <2>3
  <2> QED BY <2>2, <2>3
<1>4. unreported' <=> unreported
  BY <1>1 DEF Record
<1> QED BY <1>1, <1>3, <1>4 DEF ReportKept, LastReportIsCurrent

LEMMA StepReports == IInv /\ ReportKept /\ [Next]_vars => ReportKept'
<1> SUFFICES ASSUME IInv, ReportKept, [Next]_vars PROVE ReportKept'
  OBVIOUS
<1>1. TypeOK /\ TypeOK'
  BY StepGood DEF IInv, Good
<1>2. level' \in Level
  BY <1>1 DEF TypeOK, EngineTypeOK
<1>3. CASE NeighborAlert
  BY <1>1, <1>2, <1>3, ServiceReports DEF NeighborAlert
<1>4. CASE \E c \in Configs : ConfigUpdate(c)
  BY <1>1, <1>2, <1>4, ServiceReports DEF ConfigUpdate
<1>5. CASE \E o \in Overrides \cup {None} : SetOverride(o)
  BY <1>1, <1>2, <1>5, ServiceReports DEF SetOverride
<1>6. CASE TimeSync
  BY <1>1, <1>6, FlushReports DEF TimeSync, engineVars
<1>7. CASE LinkChange
  BY <1>7, QuietReports DEF LinkChange, engineVars
<1>8. CASE PollDone
  BY <1>8, QuietReports DEF PollDone
<1>9. CASE \E a \in Readings : AirQuality(a)
  <2>1. PICK a \in Readings : AirQuality(a)
    BY <1>9
  <2>2. aq' # None /\ Service(TRUE, FALSE, FALSE)
    BY <2>1 DEF AirQuality
  <2> QED BY <1>1, <1>2, <2>2, ServiceReports
<1>10. CASE \E p \in Pm25 : SubmitPm25(p)
  BY <1>1, <1>2, <1>10, ServiceReports DEF SubmitPm25
<1>11. CASE NoReading
  BY <1>11, QuietReports DEF NoReading, engineVars
<1>12. CASE Tick
  <2>1. Service(FALSE, due = 0, TRUE) /\ (due = 0) \in BOOLEAN /\ aq' = aq
    BY <1>12 DEF Tick
  <2> QED BY <1>1, <1>2, <2>1, ServiceReports
<1>13. CASE PeriodicPacket
  BY <1>1, <1>13, PeriodicReports
<1>14. CASE RetryReady
  <2>1. ready \in BOOLEAN /\ Hand(Nothing, ready) /\ Record /\ UNCHANGED <<level, aq>>
    BY <1>1, <1>14 DEF RetryReady, TypeOK, engineVars
  <2> QED BY <1>1, <2>1, FlushReports
<1>15. CASE UNCHANGED vars
  BY <1>15, QuietReports DEF vars, engineVars, serviceVars
<1> QED
  BY <1>3, <1>4, <1>5, <1>6, <1>7, <1>8, <1>9, <1>10, <1>11, <1>12, <1>13, <1>14,
     <1>15 DEF Next, RiskEvent, RiskStep

(***************************************************************************)
(* When no report is pending, the last one handed over carries the current *)
(* level, unless the level last changed before there was a reading.        *)
(***************************************************************************)
THEOREM RiskLastReportIsCurrent == Spec => []LastReportIsCurrent
<1>1. IInv /\ [Next]_vars => IInv'
  BY StepGood DEF Good
<1>2. Init => ReportKept
  BY DEF Init, Nothing, Kind, ReportKept, LastReportIsCurrent
<1>3. ReportKept => LastReportIsCurrent
  BY DEF ReportKept
<1> QED BY <1>1, <1>2, <1>3, InitGood, StepReports, PTL DEF Spec

----------------------------------------------------------------------------
(* Entering level 5.  SensorEntryAlerts does not hold: a tick that applies  *)
(* the readings after a neighbour's lock raises no alert.  It is the only   *)
(* step that does not.                                                      *)

\* An alert of kind k for level 5 is handed over or waits.
Alerted(k) ==
    \/ out'[k] # NoReq /\ out'[k].level = 5
    \/ pending'[k] # NoReq /\ pending'[k].level = 5

OnlyTickIsSilent ==
    [][level # 5 /\ level' = 5 /\ cause' = "L5_SENSOR" /\ pc # "tick" =>
         Alerted("alert") /\ Alerted("neighbor")]_vars

\* Level 5 needs a reading of either sensor.
LEMMA LiveFive == ASSUME NEW c, NEW a, NEW p, Live(c, a, p) = 5 PROVE a # None /\ p # None
<1>1. a # None
  BY DEF Live
<1> DEFINE warm(t, h, v) == a.temp >= t /\ a.rh <= h /\ a.voc >= v
           supports(l) ==
             \/ l = 1
             \/ l = 2 /\ warm(c.l2_temp, c.l2_rh, c.l2_voc)
             \/ l = 3 /\ warm(c.l3_temp, c.l3_rh, c.l3_voc)
             \/ l = 4 /\ a.voc >= c.l4_voc
             \/ l = 5 /\ a.voc >= c.l5_voc /\ p # None /\ p >= c.l5_pm25
           S == {l \in Level : supports(l)}
<1>2. Live(c, a, p) = CHOOSE l \in Level : supports(l) /\ \A m \in Level : supports(m) => m <= l
  BY <1>1, Zenon DEF Live
<1>3. \A l \in Level : supports(l) <=> l \in S
  OBVIOUS
<1>4. 1 \in S /\ (5 \in S => p # None)
  BY DEF Level
<1> HIDE DEF supports, S
<1>5. \E l \in Level : l \in S /\ \A m \in Level : m \in S => m <= l
  <2>1. S \in SUBSET Level
    BY DEF S
  <2> QED BY <1>4, <2>1, HighestLevel
<1>6. supports(5)
  <2>1. \E l \in Level : supports(l) /\ \A m \in Level : supports(m) => m <= l
    BY <1>3, <1>5
  <2> QED BY <1>2, <2>1
<1>7. 5 \in Level
  BY DEF Level
<1> QED BY <1>1, <1>3, <1>4, <1>6, <1>7

\* What is raised of an alert is handed over or takes the slot.
LEMMA HandAlerts ==
    ASSUME TypeOK, NEW raised, NEW retry \in BOOLEAN, Hand(raised, retry), NEW k \in Kind,
           raised[k] \in Request, raised[k].level = 5
    PROVE  Alerted(k)
<1> DEFINE kept == IF retry THEN Filled(Keeping(raised)) ELSE Keeping(raised)
<1>1. raised[k] # NoReq
  BY ServiceAssumption DEF ServiceAssumption
<1>2. CASE Direct(raised, k)
  <2>1. out'[k] = raised[k]
    BY <1>2 DEF Hand
  <2> QED BY <1>1, <2>1 DEF Alerted
<1>3. CASE ~Direct(raised, k)
  <2>1. Keeping(raised)[k] = raised[k]
    BY <1>1, <1>3 DEF Keeping
  <2>2. Filled(Keeping(raised))[k] \in Request /\ Filled(Keeping(raised))[k].level = 5
    <3>1. [raised[k] EXCEPT !.pm = TRUE] \in Request /\ [raised[k] EXCEPT !.pm = TRUE].level = 5
      BY DEF Request
    <3> QED BY <2>1, <3>1 DEF Filled
  <2>3. kept[k] \in Request /\ kept[k].level = 5
    BY <2>1, <2>2
  <2>4. kept[k] # NoReq
    BY <2>3 DEF ServiceAssumption
  <2>5. \/ pending'[k] = kept[k]
        \/ out'[k] = kept[k]
    BY <1>3 DEF Hand
  <2> QED BY <2>3, <2>4, <2>5 DEF Alerted
<1> QED BY <1>2, <1>3

\* A new reading that brings level 5 raises both alerts.
LEMMA ReadingAlerts ==
    ASSUME IInv, NEW reason, NEW rest, ReconcileAt(rest, reason), NEW retry \in BOOLEAN,
           Service(TRUE, FALSE, retry), ovr' = ovr, level # 5, level' = 5
    PROVE  Alerted("alert") /\ Alerted("neighbor")
<1>1. 5 = Supported(cfg', aq', pm', ovr, rest)
  BY DEF ReconcileAt, Transition
<1>2. ovr = None
  BY <1>1 DEF IInv, LevelFollowsPolicy, Supported
<1>3. aq' # None /\ pm' # None
  BY <1>1, <1>2, LiveFive DEF Supported
<1> DEFINE raised == Raised(level', TRUE, FALSE)
<1>4. \A k \in {"alert", "neighbor"} :
        k \in Kind /\ raised[k] = [level |-> 5, pm |-> pm' # None]
  BY <1>3 DEF Raised, Kind
<1>5. [level |-> 5, pm |-> pm' # None] \in Request
  BY DEF Request, Level
<1>6. Hand(raised, retry)
  BY DEF Service
<1> HIDE DEF raised
<1> QED BY <1>4, <1>5, <1>6, HandAlerts DEF IInv

(***************************************************************************)
(* For all configurations, readings and holds: a node that enters level 5  *)
(* on its sensors hands over or keeps both alerts, at any step but a tick, *)
(* whatever waits already and whether or not link and time are there.      *)
(***************************************************************************)
THEOREM RiskOnlyTickIsSilent == Spec => OnlyTickIsSilent
<1>1. ASSUME IInv, Next, level # 5, level' = 5, cause' = "L5_SENSOR", pc # "tick"
      PROVE  Alerted("alert") /\ Alerted("neighbor")
  <2>1. ASSUME NEW a \in Readings, AirQuality(a) PROVE Alerted("alert") /\ Alerted("neighbor")
    BY <1>1, <2>1, ReadingAlerts DEF AirQuality
  <2>2. ASSUME NEW p \in Pm25, SubmitPm25(p) PROVE Alerted("alert") /\ Alerted("neighbor")
    BY <1>1, <2>2, ReadingAlerts DEF SubmitPm25, Reconcile
  <2>3. CASE NeighborAlert
    BY <1>1, <2>3 DEF NeighborAlert, Reconcile, ReconcileAt, Transition
  <2>4. ASSUME NEW c \in Configs, ConfigUpdate(c) PROVE FALSE
    BY <1>1, <2>4 DEF ConfigUpdate, Transition
  <2>5. ASSUME NEW o \in Overrides \cup {None}, SetOverride(o) PROVE FALSE
    BY <1>1, <2>5 DEF SetOverride, Transition
  <2>6. CASE UNCHANGED level
    BY <1>1, <2>6
  <2>7. CASE LinkChange \/ TimeSync \/ PollDone \/ NoReading \/ PeriodicPacket \/ RetryReady
    BY <2>6, <2>7 DEF LinkChange, TimeSync, PollDone, NoReading, PeriodicPacket, RetryReady, engineVars
  <2>8. ~Tick
    BY <1>1 DEF Tick
  <2> QED BY <1>1, <2>1, <2>2, <2>3, <2>4, <2>5, <2>7, <2>8 DEF Next, RiskEvent, RiskStep
<1>2. IInv /\ [Next]_vars => IInv'
  BY StepGood DEF Good
<1>3. IInv /\ [Next]_vars =>
        [level # 5 /\ level' = 5 /\ cause' = "L5_SENSOR" /\ pc # "tick" =>
           Alerted("alert") /\ Alerted("neighbor")]_vars
  BY <1>1
<1> QED BY <1>2, <1>3, InitGood, PTL DEF Spec, OnlyTickIsSilent
=============================================================================
