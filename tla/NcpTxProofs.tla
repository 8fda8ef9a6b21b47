---------------------------- MODULE NcpTxProofs ----------------------------
(***************************************************************************)
(* The CoAP transmit path of the NCP, for any set of requests, any number  *)
(* of destinations and any length of the pending table: the state keeps    *)
(* its types, no terminal result of the CoAP service is thrown away for    *)
(* want of a matching slot (EveryResultMatches), and nothing but a refused *)
(* submit leaks a slot (SlotBalance).  The second half is about the ledger *)
(* of results: a slot, a running callback and the reported results are the *)
(* places a request can be in, and the proofs follow it from one to the    *)
(* next.                                                                   *)
(***************************************************************************)
EXTENDS NcpTxProps, TLAPS, FiniteSetTheorems, SequenceTheorems,
        WellFoundedInduction

USE TxAssumption

----------------------------------------------------------------------------
(* The scan for the first slot.                                            *)

LEMMA LeastElement ==
    ASSUME NEW S \in SUBSET Nat, S # {}
    PROVE  First(S) \in S
<1> DEFINE Less == OpToRel(<, Nat)
<1>1. \E x \in S : \A y \in S : ~ (<<y, x>> \in Less)
  BY WFMin, NatLessThanWellFounded
<1>2. \A x, y \in Nat : (<<y, x>> \in Less) <=> (y < x)
  BY DEF OpToRel
<1> HIDE DEF Less
<1>3. PICK x \in S : \A y \in S : ~ (<<y, x>> \in Less)
  BY <1>1
<1>4. ASSUME NEW y \in S PROVE x <= y
  <2>1. x \in Nat /\ y \in Nat /\ ~ (y < x)
    BY <1>2, <1>3
  <2> QED BY <2>1
<1> QED BY <1>4 DEF First

LEMMA FirstSlot ==
    ASSUME NEW S \in SUBSET Slot, S # {}
    PROVE  First(S) \in S /\ First(S) \in Slot
<1>1. S \in SUBSET Nat
  BY DEF Slot
<1> QED BY <1>1, LeastElement

LEMMA FirstMatching ==
    ASSUME NEW id, NEW d, Matching(id, d) # {}
    PROVE  First(Matching(id, d)) \in Matching(id, d)
<1>1. Matching(id, d) \in SUBSET Slot
  BY DEF Matching
<1> QED BY <1>1, FirstSlot

----------------------------------------------------------------------------
(* Types.                                                                  *)

LEMMA ReportType ==
    ASSUME outcomes \in [Request -> Seq(Status)],
           NEW r \in Request, NEW s \in Status, Report(r, s)
    PROVE  outcomes' \in [Request -> Seq(Status)]
<1>1. Append(outcomes[r], s) \in Seq(Status)
  OBVIOUS
<1> QED BY <1>1 DEF Report

\* What the main thread holds between two steps of pyronetNcpSendCoapRequest.
Holding ==
    /\ pc # "idle" => req \in Request
    /\ pc \in {"submit", "reject", "commit"} => slot \in Slot /\ req \in Confirmable

Types == TypeOK /\ Holding

LEMMA TypesInit == Init => Types
BY DEF Init, Types, TypeOK, Holding, Slot, Status

LEMMA TypesStep == Types /\ [Next]_vars => Types'
<1> SUFFICES ASSUME Types, [Next]_vars PROVE Types'
  OBVIOUS
<1> USE DEF Types, TypeOK, Holding
<1>0. Status = {"ACKED", "FAILED", "TIMEOUT", "SENT"}
  BY DEF Status, Terminal
<1>1. CASE Command
  BY <1>1 DEF Command
<1>2. ASSUME NEW r \in todo, FailEarly(r) PROVE Types'
  <2>1. outcomes' \in [Request -> Seq(Status)]
    BY <1>0, <1>2, ReportType DEF FailEarly
  <2> QED BY <1>2, <2>1 DEF FailEarly
<1>3. ASSUME NEW r \in todo, Reserve(r) PROVE Types'
  <2> DEFINE idle == {s \in Slot : ~Active(s)}
  <2>1. r \in Confirmable /\ r \in Request
    BY <1>3 DEF Reserve
  <2>2. CASE idle # {}
    <3>1. First(idle) \in Slot
      BY <2>2, FirstSlot
    <3>2. [msgId |-> 0, dest |-> DestOf[r], req |-> r] \in Entry
      BY <2>1 DEF Entry
    <3> HIDE DEF idle
    <3>3. /\ slot' = First(idle)
          /\ slots' = [slots EXCEPT ![First(idle)] =
                         [msgId |-> 0, dest |-> DestOf[r], req |-> r]]
          /\ pc' = "submit" /\ req' = r /\ outcomes' = outcomes
      BY <1>3, <2>2 DEF Reserve, idle
    <3> QED BY <1>3, <2>1, <3>1, <3>2, <3>3 DEF Reserve
  <2>3. CASE idle = {}
    <3>1. /\ Report(r, "FAILED")
          /\ UNCHANGED <<slots, slot, pc, req>>
      BY <1>3, <2>3 DEF Reserve
    <3>2. outcomes' \in [Request -> Seq(Status)]
      BY <1>0, <2>1, <3>1, ReportType
    <3> QED BY <1>3, <3>1, <3>2 DEF Reserve
  <2> QED BY <2>2, <2>3
<1>4. ASSUME NEW r \in todo, SubmitPlain(r) PROVE Types'
  BY <1>4 DEF SubmitPlain
<1>5. CASE Submit
  <2>1. [id |-> nextId, dest |-> DestOf[req], req |-> req] \in Transaction
    BY <1>5 DEF Submit, Transaction
  <2>2. verdict' \in [Request -> Terminal \cup {"NONE", "REFUSED"}]
    BY <1>5 DEF Submit
  <2> QED BY <1>5, <2>1, <2>2 DEF Submit
<1>6. CASE Release
  BY <1>6 DEF Release
<1>7. CASE Commit
  <2>1. CASE Active(slot)
    <3>1. slots[slot] \in Entry
      BY <1>7, <2>1 DEF Commit, Active
    <3>2. [slots[slot] EXCEPT !.msgId = msgId] \in Entry
      BY <3>1 DEF Entry
    <3>3. slots' = [slots EXCEPT ![slot] = [slots[slot] EXCEPT !.msgId = msgId]]
      BY <1>7, <2>1 DEF Commit
    <3> QED BY <1>7, <2>1, <3>2, <3>3 DEF Commit
  <2> QED BY <1>7, <2>1 DEF Commit
<1>8. CASE ReportSend
  <2>1. outcomes' \in [Request -> Seq(Status)]
    BY <1>0, <1>8, ReportType DEF ReportSend
  <2> QED BY <1>8, <2>1 DEF ReportSend, Return
<1>9. ASSUME NEW t \in inflight, NEW status \in Terminal, Callback(t, status)
      PROVE  Types'
  <2>1. PICK id \in Nat :
          LET m == Matching(id, t.dest) IN
          \/ /\ m # {}
             /\ cb' = {[req |-> slots[First(m)].req, status |-> status]}
             /\ slots' = [slots EXCEPT ![First(m)] = Free]
          \/ /\ m = {}
             /\ UNCHANGED <<slots, cb>>
    BY <1>9 DEF Callback, Transaction
  <2>2. verdict' \in [Request -> Terminal \cup {"NONE", "REFUSED"}]
    BY <1>9 DEF Callback
  <2> DEFINE m == Matching(id, t.dest)
  <2>3. CASE m # {}
    <3>1. First(m) \in m
      BY <2>3, FirstMatching
    <3>2. First(m) \in Slot /\ slots[First(m)] \in Entry
      BY <3>1 DEF Matching, Active
    <3>3. slots[First(m)].req \in Confirmable
      BY <3>2 DEF Entry
    <3> HIDE DEF m
    <3>4. /\ cb' = {[req |-> slots[First(m)].req, status |-> status]}
          /\ slots' = [slots EXCEPT ![First(m)] = Free]
      BY <2>1, <2>3 DEF m
    <3> QED BY <1>9, <2>2, <3>2, <3>3, <3>4 DEF Callback
  <2>4. CASE m = {}
    BY <1>9, <2>1, <2>2, <2>4 DEF Callback
  <2> QED BY <2>3, <2>4
<1>10. CASE ReportCallback
  <2>1. PICK c \in cb : Report(c.req, c.status)
    BY <1>10 DEF ReportCallback
  <2>2. c.req \in Request /\ c.status \in Status
    BY <1>0 DEF Terminal
  <2>3. outcomes' \in [Request -> Seq(Status)]
    BY <2>1, <2>2, ReportType
  <2> QED BY <1>10, <2>3 DEF ReportCallback
<1>11. CASE UNCHANGED vars
  BY <1>11 DEF vars, Types, TypeOK, Holding
<1> QED
  BY <1>1, <1>2, <1>3, <1>4, <1>5, <1>6, <1>7, <1>8, <1>9, <1>10, <1>11
     DEF Next, MainStep, Respond

(***************************************************************************)
(* The state of the transmit path always has its types, for every set of   *)
(* requests and every length of the pending table.                         *)
(***************************************************************************)
THEOREM TxTypeCorrect == Spec => []TypeOK
<1>1. Types => TypeOK
  BY DEF Types
<1> QED BY <1>1, TypesInit, TypesStep, PTL DEF Spec


----------------------------------------------------------------------------
(* Each request is commanded, sent and answered once.                      *)

\* What the main thread has not taken up yet has left no trace, and the CoAP
\* service has at most one transaction for a request, not answered so far.
Untouched ==
    /\ fresh \cap todo = {}
    /\ \A r \in fresh \cup todo : verdict[r] = "NONE" /\ outcomes[r] = <<>>
    /\ pc # "idle" => req \notin fresh \cup todo
    /\ \A s \in Slot : Active(s) => slots[s].req \notin fresh \cup todo
    /\ \A c \in cb : c.req \notin fresh \cup todo
    /\ pc = "submit" => verdict[req] = "NONE" /\ \A t \in inflight : t.req # req
    /\ \A t \in inflight :
         t.req \notin fresh \cup todo /\ verdict[t.req] = "NONE" /\ t.dest = DestOf[t.req]
    /\ \A t, u \in inflight : t.req = u.req => t = u

\* What a callback does to the table: it consumes one slot, or finds none.
LEMMA CallbackEffect ==
    ASSUME NEW t \in inflight, NEW status \in Terminal, Callback(t, status)
    PROVE  \/ \E s \in Slot : /\ Active(s)
                              /\ slots' = [slots EXCEPT ![s] = Free]
                              /\ cb' = {[req |-> slots[s].req, status |-> status]}
           \/ UNCHANGED <<slots, cb>>
<1>1. PICK id \in {0, t.id} :
        LET m == Matching(id, t.dest) IN
        \/ /\ m # {}
           /\ cb' = {[req |-> slots[First(m)].req, status |-> status]}
           /\ slots' = [slots EXCEPT ![First(m)] = Free]
        \/ /\ m = {}
           /\ UNCHANGED <<slots, cb>>
  BY DEF Callback
<1> DEFINE m == Matching(id, t.dest)
<1>2. CASE m # {}
  <2>1. First(m) \in m
    BY <1>2, FirstMatching
  <2>2. First(m) \in Slot /\ Active(First(m))
    BY <2>1 DEF Matching
  <2> QED BY <1>1, <1>2, <2>2
<1> QED BY <1>1, <1>2

LEMMA UntouchedInit == Init => Untouched
BY DEF Init, Untouched, Active

LEMMA UntouchedStep ==
    ASSUME Types, Untouched, [Next]_vars
    PROVE  Untouched'
<1> USE DEF Types, TypeOK, Holding, Untouched
<1>1. CASE Command
  BY <1>1 DEF Command, Active
<1>2. ASSUME NEW r \in todo, FailEarly(r) PROVE Untouched'
  BY <1>2 DEF FailEarly, Report, Active
<1>3. ASSUME NEW r \in todo, Reserve(r) PROVE Untouched'
  <2>1. /\ todo' = todo \ {r} /\ UNCHANGED <<fresh, inflight, cb, verdict>>
        /\ \A q \in Request \ {r} : outcomes'[q] = outcomes[q]
        /\ \/ pc' = "submit" /\ req' = r
           \/ UNCHANGED <<pc, req>> /\ pc = "idle"
    BY <1>3 DEF Reserve, Report
  <2>2. ASSUME NEW s \in Slot, Active(s)' PROVE slots'[s].req \notin (fresh \cup todo)'
    <3> DEFINE e == [msgId |-> 0, dest |-> DestOf[r], req |-> r]
    <3>1. e.req = r
      OBVIOUS
    <3> HIDE DEF e
    <3>2. PICK i : UNCHANGED slots \/ slots' = [slots EXCEPT ![i] = e]
      BY <1>3 DEF Reserve, e
    <3>3. slots'[s] = slots[s] \/ slots'[s] = e
      BY <3>2
    <3> QED BY <2>1, <2>2, <3>1, <3>3 DEF Active
  <2> QED BY <2>1, <2>2
<1>4. ASSUME NEW r \in todo, SubmitPlain(r) PROVE Untouched'
  BY <1>4 DEF SubmitPlain, Active
<1>5. CASE Submit
  <2> DEFINE new == [id |-> nextId, dest |-> DestOf[req], req |-> req]
  <2>1. new.dest = DestOf[req] /\ new.req = req
    OBVIOUS
  <2> HIDE DEF new
  <2>2. CASE pc' = "commit"
    <3>1. /\ inflight' = inflight \cup {new} /\ pc = "submit"
          /\ UNCHANGED <<slots, cb, fresh, todo, req, outcomes, verdict>>
      BY <1>5, <2>2 DEF Submit, new
    <3> QED BY <2>1, <2>2, <3>1 DEF Active
  <2>3. CASE pc' = "reject"
    <3>1. /\ verdict' = [verdict EXCEPT ![req] = "REFUSED"] /\ pc = "submit"
          /\ UNCHANGED <<slots, cb, fresh, todo, req, inflight, outcomes>>
      BY <1>5, <2>3 DEF Submit
    <3>2. \A r \in fresh \cup todo : verdict'[r] = verdict[r]
      BY <3>1
    <3>3. \A t \in inflight : verdict'[t.req] = verdict[t.req]
      BY <3>1
    <3> QED BY <2>3, <3>1, <3>2, <3>3 DEF Active
  <2> QED BY <1>5, <2>2, <2>3 DEF Submit
<1>6. CASE Release
  BY <1>6 DEF Release, Active
<1>7. CASE Commit
  <2>1. \A s \in Slot : Active(s)' => Active(s) /\ slots'[s].req = slots[s].req
    <3>1. CASE Active(slot)
      <4>1. slot \in Slot /\ slots[slot] \in Entry
        BY <1>7, <3>1 DEF Commit, Active
      <4>2. slots' = [slots EXCEPT ![slot] = [slots[slot] EXCEPT !.msgId = msgId]]
        BY <1>7, <3>1 DEF Commit
      <4>3. /\ slots'[slot].req = slots[slot].req
            /\ \A s \in Slot : s # slot => slots'[s] = slots[s]
        BY <4>1, <4>2 DEF Entry
      <4> QED BY <3>1, <4>3 DEF Active
    <3> QED BY <1>7, <3>1 DEF Commit, Active
  <2> QED BY <1>7, <2>1 DEF Commit
<1>8. CASE ReportSend
  BY <1>8 DEF ReportSend, Return, Report, Active
<1>9. ASSUME NEW t \in inflight, NEW status \in Terminal, Callback(t, status)
      PROVE  Untouched'
  <2>1. /\ inflight' = inflight \ {t}
        /\ verdict' = [verdict EXCEPT ![t.req] = status]
        /\ UNCHANGED <<fresh, todo, pc, req, outcomes>>
    BY <1>9 DEF Callback
  <2>2. /\ \A s \in Slot : slots'[s] = slots[s] \/ slots'[s] = Free
        /\ \A c \in cb' : c.req \notin fresh \cup todo
    <3>1. \/ \E s \in Slot : /\ Active(s)
                             /\ slots' = [slots EXCEPT ![s] = Free]
                             /\ cb' = {[req |-> slots[s].req, status |-> status]}
          \/ UNCHANGED <<slots, cb>>
      BY <1>9, CallbackEffect
    <3>2. CASE UNCHANGED <<slots, cb>>
      BY <3>2
    <3>3. ASSUME NEW s \in Slot, Active(s), slots' = [slots EXCEPT ![s] = Free],
                 cb' = {[req |-> slots[s].req, status |-> status]}
          PROVE  /\ \A x \in Slot : slots'[x] = slots[x] \/ slots'[x] = Free
                 /\ \A c \in cb' : c.req \notin fresh \cup todo
      BY <3>3
    <3> QED BY <3>1, <3>2, <3>3
  <2> QED BY <2>1, <2>2 DEF Active
<1>10. CASE ReportCallback
  <2>1. PICK c \in cb : outcomes' = [outcomes EXCEPT ![c.req] = Append(@, c.status)]
    BY <1>10 DEF ReportCallback, Report
  <2>2. \A r \in fresh \cup todo : outcomes'[r] = outcomes[r]
    BY <2>1
  <2> QED BY <1>10, <2>2 DEF ReportCallback, Active
<1>11. CASE UNCHANGED vars
  BY <1>11 DEF vars, Active
<1> QED
  BY <1>1, <1>2, <1>3, <1>4, <1>5, <1>6, <1>7, <1>8, <1>9, <1>10, <1>11
     DEF Next, MainStep, Respond

----------------------------------------------------------------------------
(* No result is lost for want of a slot.                                   *)

\* Message ids grow, and a slot that carries the id of a transaction is for
\* the transaction's destination: matching by id never frees a foreign slot.
IdsAgree ==
    /\ \A s \in Slot : Active(s) => slots[s].msgId < nextId
    /\ \A t \in inflight : t.id < nextId
    /\ \A s \in Slot, t \in inflight :
         Active(s) /\ slots[s].msgId = t.id => slots[s].dest = t.dest

\* The reserved slot, when a callback has not emptied it, is still for the
\* destination of the request in hand; so is the transaction to be committed.
ReservationKept ==
    /\ pc \in {"submit", "reject", "commit"} =>
         (Active(slot) => slots[slot].dest = DestOf[req])
    /\ pc = "commit" =>
         /\ msgId < nextId
         /\ \A t \in inflight : t.id = msgId => t.dest = DestOf[req]

\* The slots in use for d against what they are in use for.
Submitting(d) == pc = "submit" /\ DestOf[req] = d
Held(d) == Cardinality(InFlightFor(d)) + (IF Reserving(d) THEN 1 ELSE 0)
Allowed(d) == Cardinality(InFlightFor(d)) + Cardinality(RefusedFor(d))
                  + (IF Submitting(d) THEN 1 ELSE 0)
Covered(d) == Held(d) <= Cardinality(ActiveFor(d)) /\ Cardinality(ActiveFor(d)) <= Allowed(d)

Refused == {r \in Confirmable : verdict[r] = "REFUSED"}

IInv ==
    /\ Types
    /\ Untouched
    /\ IdsAgree
    /\ ReservationKept
    /\ IsFiniteSet(inflight)
    /\ IsFiniteSet(Refused)
    /\ \A d \in Destination : Covered(d)

LEMMA SlotFinite == IsFiniteSet(Slot)
BY FS_Interval DEF Slot

LEMMA CountsFinite ==
    ASSUME IsFiniteSet(inflight), IsFiniteSet(Refused), NEW d
    PROVE  /\ IsFiniteSet(ActiveFor(d)) /\ Cardinality(ActiveFor(d)) \in Nat
           /\ IsFiniteSet(InFlightFor(d)) /\ Cardinality(InFlightFor(d)) \in Nat
           /\ IsFiniteSet(RefusedFor(d)) /\ Cardinality(RefusedFor(d)) \in Nat
<1>1. /\ ActiveFor(d) \in SUBSET Slot /\ InFlightFor(d) \in SUBSET inflight
      /\ RefusedFor(d) \in SUBSET Refused
  BY DEF ActiveFor, InFlightFor, RefusedFor, Refused
<1> QED BY <1>1, SlotFinite, FS_Subset, FS_CardinalityType

LEMMA IInvInit == Init => IInv
<1> SUFFICES ASSUME Init PROVE IInv
  OBVIOUS
<1>1. Types
  BY TypesInit
<1>2. IdsAgree /\ ReservationKept /\ IsFiniteSet(inflight)
  BY FS_EmptySet DEF Init, IdsAgree, ReservationKept, Active
<1>3. Refused = {}
  BY DEF Init, Refused
<1>4. ASSUME NEW d \in Destination PROVE Covered(d)
  <2>1. /\ ActiveFor(d) = {} /\ InFlightFor(d) = {} /\ RefusedFor(d) = {}
        /\ ~Reserving(d) /\ ~Submitting(d)
    BY DEF Init, ActiveFor, InFlightFor, RefusedFor, Reserving, Submitting, Active
  <2> QED BY <2>1, FS_EmptySet DEF Covered, Held, Allowed
<1> QED BY <1>1, <1>2, <1>3, <1>4, FS_EmptySet, UntouchedInit DEF IInv

\* A step that leaves slots, transactions and reservation alone.
LEMMA CoveredFrame ==
    ASSUME NEW d, Covered(d), UNCHANGED <<slots, inflight, verdict>>,
           Reserving(d)' <=> Reserving(d), Submitting(d)' <=> Submitting(d)
    PROVE  Covered(d)'
<1>1. /\ ActiveFor(d)' = ActiveFor(d) /\ InFlightFor(d)' = InFlightFor(d)
      /\ RefusedFor(d)' = RefusedFor(d)
  BY DEF ActiveFor, InFlightFor, RefusedFor, Active
<1> QED BY <1>1 DEF Covered, Held, Allowed

\* The identifiers stay consistent through every step.
LEMMA IdsStep ==
    ASSUME IInv, [Next]_vars
    PROVE  IdsAgree' /\ ReservationKept'
<1> USE DEF IInv, Types, TypeOK, Holding, IdsAgree, ReservationKept
<1>0. ASSUME NEW s \in Slot, Active(s) PROVE slots[s] \in Entry
  BY <1>0 DEF Active
<1>1. CASE Command
  BY <1>1 DEF Command, Active
<1>2. ASSUME NEW r \in todo, FailEarly(r) PROVE IdsAgree' /\ ReservationKept'
  BY <1>2 DEF FailEarly, Active
<1>3. ASSUME NEW r \in todo, Reserve(r) PROVE IdsAgree' /\ ReservationKept'
  <2> DEFINE idle == {s \in Slot : ~Active(s)}
  <2>1. CASE idle # {}
    <3>1. First(idle) \in Slot
      BY <2>1, FirstSlot
    <3> HIDE DEF idle
    <3>2. /\ slot' = First(idle)
          /\ slots' = [slots EXCEPT ![First(idle)] =
                         [msgId |-> 0, dest |-> DestOf[r], req |-> r]]
          /\ pc' = "submit" /\ req' = r
          /\ UNCHANGED <<nextId, inflight>>
      BY <1>3, <2>1 DEF Reserve, idle
    <3>3. \A t \in inflight : t.id \in Nat \ {0}
      BY DEF Transaction
    <3> QED BY <3>1, <3>2, <3>3 DEF Active
  <2>2. CASE idle = {}
    <3>1. UNCHANGED <<slots, slot, pc, req, msgId, nextId, inflight>>
      BY <1>3, <2>2 DEF Reserve
    <3> QED BY <3>1 DEF Active
  <2> QED BY <2>1, <2>2
<1>4. ASSUME NEW r \in todo, SubmitPlain(r) PROVE IdsAgree' /\ ReservationKept'
  BY <1>4 DEF SubmitPlain, Active
<1>5. CASE Submit
  <2> DEFINE new == [id |-> nextId, dest |-> DestOf[req], req |-> req]
  <2>1. CASE pc' = "commit"
    <3>1. /\ inflight' = inflight \cup {new} /\ nextId' = nextId + 1
          /\ msgId' = nextId /\ pc = "submit"
          /\ UNCHANGED <<slots, req, slot>>
      BY <1>5, <2>1 DEF Submit
    <3>2. new.id = nextId /\ new.dest = DestOf[req]
      OBVIOUS
    <3> HIDE DEF new
    <3>3. \A s \in Slot : Active(s) => slots[s].msgId \in Nat /\ slots[s].msgId < nextId
      BY <1>0 DEF Entry
    <3>4. \A t \in inflight : t.id \in Nat /\ t.id < nextId
      BY DEF Transaction
    <3>5. IdsAgree'
      <4>1. \A s \in Slot : Active(s)' => slots'[s].msgId < nextId'
        BY <3>1, <3>3 DEF Active
      <4>2. \A t \in inflight' : t.id < nextId'
        BY <3>1, <3>2, <3>4
      <4>3. ASSUME NEW s \in Slot, NEW t \in inflight', Active(s)',
                   slots'[s].msgId = t.id
            PROVE  slots'[s].dest = t.dest
        <5>1. Active(s) /\ slots' = slots
          BY <3>1, <4>3 DEF Active
        <5>2. t \in inflight
          BY <3>1, <3>2, <3>3, <4>3, <5>1
        <5> QED BY <4>3, <5>1, <5>2
      <4> QED BY <4>1, <4>2, <4>3
    <3>6. ReservationKept'
      BY <2>1, <3>1, <3>2, <3>4 DEF Active
    <3> QED BY <3>5, <3>6
  <2>2. CASE pc' = "reject"
    BY <1>5, <2>2 DEF Submit, Active
  <2> QED BY <1>5, <2>1, <2>2 DEF Submit
<1>6. CASE Release
  BY <1>6 DEF Release, Active
<1>7. CASE Commit
  <2>1. CASE Active(slot)
    <3>1. slots[slot] \in Entry /\ slot \in Slot /\ pc = "commit"
      BY <1>0, <1>7, <2>1 DEF Commit
    <3>2. /\ slots' = [slots EXCEPT ![slot] = [slots[slot] EXCEPT !.msgId = msgId]]
          /\ pc' = "sent" /\ UNCHANGED <<nextId, inflight>>
      BY <1>7, <2>1 DEF Commit
    <3>3. /\ slots'[slot].msgId = msgId /\ slots'[slot].dest = DestOf[req]
          /\ \A s \in Slot : s # slot => slots'[s] = slots[s]
      BY <2>1, <3>1, <3>2 DEF Entry
    <3> QED BY <3>1, <3>2, <3>3 DEF Active
  <2>2. CASE ~Active(slot)
    BY <1>7, <2>2 DEF Commit, Active
  <2> QED BY <2>1, <2>2
<1>8. CASE ReportSend
  BY <1>8 DEF ReportSend, Return, Active
<1>9. ASSUME NEW t \in inflight, NEW status \in Terminal, Callback(t, status)
      PROVE  IdsAgree' /\ ReservationKept'
  <2>1. /\ inflight' \subseteq inflight
        /\ \A s \in Slot : slots'[s] = slots[s] \/ slots'[s] = Free
        /\ UNCHANGED <<pc, req, slot, msgId, nextId>>
    BY <1>9 DEF Callback
  <2> QED BY <2>1 DEF Active
<1>10. CASE ReportCallback
  BY <1>10 DEF ReportCallback, Active
<1>11. CASE UNCHANGED vars
  BY <1>11 DEF vars, Active
<1> QED
  BY <1>1, <1>2, <1>3, <1>4, <1>5, <1>6, <1>7, <1>8, <1>9, <1>10, <1>11
     DEF Next, MainStep, Respond

\* A step that empties slot s, which was for destination e, and at the same
\* time ends what the slot was held for, keeps the counts of every destination.
LEMMA ActiveAfterFree ==
    ASSUME Types, NEW s \in Slot, Active(s), slots' = [slots EXCEPT ![s] = Free], NEW d
    PROVE  ActiveFor(d)' = IF slots[s].dest = d THEN ActiveFor(d) \ {s} ELSE ActiveFor(d)
<1> USE DEF Types, TypeOK
<1>1. \A x \in Slot : slots'[x] = IF x = s THEN Free ELSE slots[x]
  OBVIOUS
<1>2. ActiveFor(d)' = {x \in Slot : x # s /\ Active(x) /\ slots[x].dest = d}
  BY <1>1 DEF ActiveFor, Active
<1> QED BY <1>2 DEF ActiveFor

LEMMA ActiveAfterReserve ==
    ASSUME Types, NEW s \in Slot, ~Active(s), NEW e \in Entry,
           slots' = [slots EXCEPT ![s] = e], NEW d
    PROVE  /\ s \notin ActiveFor(d)
           /\ ActiveFor(d)' = IF e.dest = d THEN ActiveFor(d) \cup {s} ELSE ActiveFor(d)
<1> USE DEF Types, TypeOK
<1>1. \A x \in Slot : slots'[x] = IF x = s THEN e ELSE slots[x]
  OBVIOUS
<1>2. e # Free
  OBVIOUS
<1>3. ActiveFor(d)' = {x \in Slot : IF x = s THEN e.dest = d
                                    ELSE Active(x) /\ slots[x].dest = d}
  BY <1>1, <1>2 DEF ActiveFor, Active
<1> QED BY <1>3 DEF ActiveFor

LEMMA ReserveCovered ==
    ASSUME IInv, NEW r \in todo, Reserve(r), NEW d \in Destination
    PROVE  Covered(d)'
<1> USE DEF IInv
<1> DEFINE idle == {s \in Slot : ~Active(s)}
           e == [msgId |-> 0, dest |-> DestOf[r], req |-> r]
<1>1. r \in Confirmable /\ pc = "idle" /\ UNCHANGED <<inflight, verdict>>
  BY DEF Reserve
<1>2. CASE idle # {}
  <2>1. First(idle) \in idle
    BY <1>2, FirstSlot
  <2>2. First(idle) \in Slot /\ ~Active(First(idle))
    BY <2>1
  <2> HIDE DEF idle
  <2>3. /\ slots' = [slots EXCEPT ![First(idle)] = e]
        /\ pc' = "submit" /\ req' = r
    BY <1>2 DEF Reserve, idle
  <2>4. e \in Entry /\ e.dest = DestOf[r]
    BY <1>1 DEF Entry
  <2> HIDE DEF e
  <2>5. /\ First(idle) \notin ActiveFor(d)
        /\ ActiveFor(d)' = IF DestOf[r] = d THEN ActiveFor(d) \cup {First(idle)}
                           ELSE ActiveFor(d)
    BY <2>2, <2>3, <2>4, ActiveAfterReserve
  <2>6. Cardinality(ActiveFor(d)') =
          IF DestOf[r] = d THEN Cardinality(ActiveFor(d)) + 1 ELSE Cardinality(ActiveFor(d))
    BY <2>5, CountsFinite, FS_AddElement
  <2>7. /\ ~Reserving(d) /\ (Reserving(d)' <=> DestOf[r] = d)
        /\ ~Submitting(d) /\ (Submitting(d)' <=> DestOf[r] = d)
    BY <1>1, <2>3 DEF Reserving, Submitting
  <2>8. InFlightFor(d)' = InFlightFor(d) /\ RefusedFor(d)' = RefusedFor(d)
    BY <1>1 DEF InFlightFor, RefusedFor
  <2> QED BY <2>6, <2>7, <2>8, CountsFinite DEF Covered, Held, Allowed
<1>3. CASE idle = {}
  <2>1. UNCHANGED <<slots, pc, req, inflight, verdict>>
    BY <1>3 DEF Reserve
  <2> QED BY <2>1, CoveredFrame DEF Reserving, Submitting
<1> QED BY <1>2, <1>3

LEMMA SubmitCovered ==
    ASSUME IInv, Submit, NEW d \in Destination
    PROVE  Covered(d)'
<1> USE DEF IInv
<1> DEFINE t == [id |-> nextId, dest |-> DestOf[req], req |-> req]
<1>1. ActiveFor(d)' = ActiveFor(d)
  BY DEF Submit, ActiveFor, Active
<1>2. CASE pc' = "commit"
  <2>1. pc = "submit" /\ inflight' = inflight \cup {t}
    BY <1>2 DEF Submit
  <2>2. t \notin inflight /\ t.dest = DestOf[req]
    BY DEF IdsAgree, Types, TypeOK
  <2> HIDE DEF t
  <2>3. /\ t \notin InFlightFor(d)
        /\ InFlightFor(d)' = IF DestOf[req] = d THEN InFlightFor(d) \cup {t}
                             ELSE InFlightFor(d)
    BY <2>1, <2>2 DEF InFlightFor
  <2>4. Cardinality(InFlightFor(d)') =
          IF DestOf[req] = d THEN Cardinality(InFlightFor(d)) + 1
          ELSE Cardinality(InFlightFor(d))
    BY <2>3, CountsFinite, FS_AddElement
  <2>5. /\ ~Reserving(d)' /\ (Reserving(d) <=> DestOf[req] = d)
        /\ ~Submitting(d)' /\ (Submitting(d) <=> DestOf[req] = d)
    BY <1>2, <2>1 DEF Reserving, Submitting
  <2>6. RefusedFor(d)' = RefusedFor(d)
    BY <1>2 DEF Submit, RefusedFor
  <2> QED BY <1>1, <2>4, <2>5, <2>6, CountsFinite DEF Covered, Held, Allowed
<1>3. CASE pc' = "reject"
  <2>1. /\ UNCHANGED <<slots, req, inflight>> /\ pc = "submit"
        /\ verdict' = [verdict EXCEPT ![req] = "REFUSED"]
    BY <1>3 DEF Submit
  <2>2. req \in Confirmable /\ verdict[req] = "NONE"
    BY <2>1 DEF Types, Holding, Untouched
  <2>3. /\ req \notin RefusedFor(d)
        /\ RefusedFor(d)' = IF DestOf[req] = d THEN RefusedFor(d) \cup {req}
                            ELSE RefusedFor(d)
    BY <2>1, <2>2 DEF RefusedFor, Types, TypeOK
  <2>4. Cardinality(RefusedFor(d)') =
          IF DestOf[req] = d THEN Cardinality(RefusedFor(d)) + 1
          ELSE Cardinality(RefusedFor(d))
    BY <2>3, CountsFinite, FS_AddElement
  <2>5. /\ Reserving(d) <=> Reserving(d)'
        /\ ~Submitting(d)' /\ (Submitting(d) <=> DestOf[req] = d)
    BY <1>3, <2>1 DEF Reserving, Submitting
  <2>6. InFlightFor(d)' = InFlightFor(d)
    BY <2>1 DEF InFlightFor
  <2> QED BY <1>1, <2>4, <2>5, <2>6, CountsFinite DEF Covered, Held, Allowed
<1> QED BY <1>2, <1>3 DEF Submit

LEMMA ReleaseCovered ==
    ASSUME IInv, Release, NEW d \in Destination
    PROVE  Covered(d)'
<1> USE DEF IInv
<1>1. /\ pc = "reject" /\ pc' = "failed" /\ slot \in Slot
      /\ slots' = [slots EXCEPT ![slot] = Free] /\ UNCHANGED <<inflight, verdict>>
  BY DEF Release, Types, Holding
<1>2. InFlightFor(d)' = InFlightFor(d) /\ RefusedFor(d)' = RefusedFor(d)
  BY <1>1 DEF InFlightFor, RefusedFor
<1>3. /\ ~Reserving(d)' /\ (Reserving(d) <=> DestOf[req] = d)
      /\ ~Submitting(d) /\ ~Submitting(d)'
  BY <1>1 DEF Reserving, Submitting
<1>4. CASE Active(slot)
  <2>1. slots[slot].dest = DestOf[req]
    BY <1>1, <1>4 DEF ReservationKept
  <2>2. ActiveFor(d)' = IF DestOf[req] = d THEN ActiveFor(d) \ {slot} ELSE ActiveFor(d)
    BY <1>1, <1>4, <2>1, ActiveAfterFree
  <2>3. /\ Cardinality(ActiveFor(d) \ {slot}) \in Nat
        /\ Cardinality(ActiveFor(d) \ {slot}) >= Cardinality(ActiveFor(d)) - 1
        /\ Cardinality(ActiveFor(d) \ {slot}) <= Cardinality(ActiveFor(d))
    <3>1. IsFiniteSet(ActiveFor(d)) /\ Cardinality(ActiveFor(d)) \in Nat
      BY CountsFinite
    <3>2. /\ IsFiniteSet(ActiveFor(d) \ {slot})
          /\ Cardinality(ActiveFor(d) \ {slot}) =
               IF slot \in ActiveFor(d) THEN Cardinality(ActiveFor(d)) - 1
               ELSE Cardinality(ActiveFor(d))
      BY <3>1, FS_RemoveElement
    <3>3. Cardinality(ActiveFor(d) \ {slot}) \in Nat
      BY <3>2, FS_CardinalityType
    <3> QED BY <3>1, <3>2, <3>3
  <2> QED BY <1>1, <1>2, <1>3, <2>2, <2>3, CountsFinite DEF Covered, Held, Allowed
<1>5. CASE ~Active(slot)
  <2>1. slots' = slots
    BY <1>1, <1>5 DEF Active, Types, TypeOK
  <2>2. ActiveFor(d)' = ActiveFor(d)
    BY <2>1 DEF ActiveFor, Active
  <2> QED BY <1>1, <1>2, <1>3, <2>2, CountsFinite DEF Covered, Held, Allowed
<1> QED BY <1>4, <1>5

\* The slot a callback consumes is one of its own destination.
LEMMA MatchHasDestination ==
    ASSUME IInv, NEW t \in inflight, NEW id \in {0, t.id}, Matching(id, t.dest) # {}
    PROVE  LET s == First(Matching(id, t.dest)) IN
           s \in Slot /\ Active(s) /\ slots[s].dest = t.dest
<1> DEFINE s == First(Matching(id, t.dest))
<1>1. s \in Matching(id, t.dest)
  BY FirstMatching
<1> HIDE DEF s
<1>2. s \in Slot /\ Active(s) /\ (slots[s].dest = t.dest \/ slots[s].msgId = t.id)
  BY <1>1 DEF Matching
<1>3. slots[s].dest = t.dest
  BY <1>2 DEF IInv, IdsAgree
<1> QED BY <1>2, <1>3 DEF s

LEMMA CallbackCovered ==
    ASSUME IInv, NEW t \in inflight, NEW status \in Terminal, Callback(t, status),
           NEW d \in Destination
    PROVE  Covered(d)'
<1> USE DEF IInv
<1>1. /\ inflight' = inflight \ {t} /\ UNCHANGED <<pc, req>>
      /\ verdict' = [verdict EXCEPT ![t.req] = status]
  BY DEF Callback
<1>2. PICK id \in {0, t.id} :
        LET m == Matching(id, t.dest) IN
        \/ /\ m # {}
           /\ slots' = [slots EXCEPT ![First(m)] = Free]
        \/ /\ m = {}
           /\ UNCHANGED slots
  BY DEF Callback
<1>3. /\ Reserving(d)' <=> Reserving(d)
      /\ Submitting(d)' <=> Submitting(d)
      /\ RefusedFor(d)' = RefusedFor(d)
  <2>1. verdict[t.req] = "NONE" /\ status # "REFUSED"
    BY DEF Untouched, Terminal
  <2>2. RefusedFor(d)' = RefusedFor(d)
    BY <1>1, <2>1 DEF RefusedFor, Types, TypeOK
  <2> QED BY <1>1, <2>2 DEF Reserving, Submitting
<1>4. /\ t \in InFlightFor(t.dest) /\ (t \in InFlightFor(d) <=> t.dest = d)
      /\ InFlightFor(d)' = InFlightFor(d) \ {t}
  BY <1>1 DEF InFlightFor
<1>5. /\ IsFiniteSet(InFlightFor(d)) /\ Cardinality(InFlightFor(d)) \in Nat
      /\ IsFiniteSet(ActiveFor(d)) /\ Cardinality(ActiveFor(d)) \in Nat
      /\ Cardinality(RefusedFor(d)) \in Nat
  BY CountsFinite
<1>6. Cardinality(InFlightFor(d)') =
        IF t.dest = d THEN Cardinality(InFlightFor(d)) - 1 ELSE Cardinality(InFlightFor(d))
  BY <1>4, <1>5, FS_RemoveElement
<1>7. t.dest = d => Cardinality(InFlightFor(d)) > 0
  BY <1>4, <1>5, FS_EmptySet
<1>8. CASE Matching(id, t.dest) # {}
  <2> DEFINE s == First(Matching(id, t.dest))
  <2>1. s \in Slot /\ Active(s) /\ slots[s].dest = t.dest
    BY <1>8, MatchHasDestination
  <2>2. slots' = [slots EXCEPT ![s] = Free]
    BY <1>2, <1>8
  <2> HIDE DEF s
  <2>3. /\ s \in ActiveFor(t.dest)
        /\ ActiveFor(d)' = IF t.dest = d THEN ActiveFor(d) \ {s} ELSE ActiveFor(d)
    BY <2>1, <2>2, ActiveAfterFree DEF ActiveFor
  <2>4. Cardinality(ActiveFor(d)') =
          IF t.dest = d THEN Cardinality(ActiveFor(d)) - 1 ELSE Cardinality(ActiveFor(d))
    BY <1>5, <2>3, FS_RemoveElement
  <2> QED BY <1>3, <1>5, <1>6, <2>4 DEF Covered, Held, Allowed
<1>9. CASE Matching(id, t.dest) = {}
  <2>1. ActiveFor(t.dest) = {}
    BY <1>9 DEF Matching, ActiveFor
  <2>2. t.dest # d
    BY <1>5, <1>7, <2>1, FS_EmptySet DEF Covered, Held, Allowed
  <2>3. ActiveFor(d)' = ActiveFor(d)
    BY <1>2, <1>9 DEF ActiveFor, Active
  <2> QED BY <1>3, <1>5, <1>6, <2>2, <2>3 DEF Covered, Held, Allowed
<1> QED BY <1>8, <1>9

LEMMA IInvStep == IInv /\ [Next]_vars => IInv'
<1> SUFFICES ASSUME IInv, [Next]_vars PROVE IInv'
  OBVIOUS
<1>1. Types'
  BY TypesStep DEF IInv
<1>2. IdsAgree' /\ ReservationKept'
  BY IdsStep
<1>3. IsFiniteSet(Refused)'
  <2>1. CASE Submit /\ pc' = "reject"
    <3>1. Refused' \in SUBSET (Refused \cup {req})
      BY <2>1 DEF Submit, Refused, IInv, Types, TypeOK
    <3> QED BY <3>1, FS_AddElement, FS_Subset DEF IInv
  <2>2. ASSUME NEW t \in inflight, NEW status \in Terminal, Callback(t, status)
        PROVE  IsFiniteSet(Refused)'
    <3>1. status # "REFUSED"
      BY DEF Terminal
    <3>2. Refused' \in SUBSET Refused
      BY <2>2, <3>1 DEF Callback, Refused, IInv, Types, TypeOK
    <3> QED BY <3>2, FS_Subset DEF IInv
  <2>3. CASE UNCHANGED verdict
    BY <2>3 DEF IInv, Refused
  <2> QED
    BY <2>1, <2>2, <2>3
       DEF Next, MainStep, Respond, vars, Command, FailEarly, Reserve, SubmitPlain,
           Submit, Release, Commit, ReportSend, ReportCallback
<1>4. IsFiniteSet(inflight)'
  <2>1. CASE Submit /\ pc' = "commit"
    <3>1. PICK t : inflight' = inflight \cup {t}
      BY <2>1 DEF Submit
    <3> QED BY <3>1, FS_AddElement DEF IInv
  <2>2. CASE \E t \in inflight : inflight' = inflight \ {t}
    BY <2>2, FS_RemoveElement DEF IInv
  <2>3. CASE UNCHANGED inflight
    BY <2>3 DEF IInv
  <2> QED
    BY <2>1, <2>2, <2>3
       DEF Next, MainStep, Respond, vars, Command, FailEarly, Reserve, SubmitPlain,
           Submit, Release, Commit, ReportSend, Callback, ReportCallback
<1>5. ASSUME NEW d \in Destination PROVE Covered(d)'
  <2>0. Covered(d)
    BY DEF IInv
  <2>1. CASE Commit
    <3>1. UNCHANGED inflight /\ pc = "commit" /\ pc' \in {"sent", "failed"}
      BY <2>1 DEF Commit
    <3>2. ActiveFor(d)' = ActiveFor(d)
      <4>1. CASE Active(slot)
        <5>1. slot \in Slot /\ slots[slot] \in Entry
          BY <3>1, <4>1 DEF IInv, Types, TypeOK, Holding, Active
        <5>2. slots' = [slots EXCEPT ![slot] = [slots[slot] EXCEPT !.msgId = msgId]]
          BY <2>1, <4>1 DEF Commit
        <5>3. [slots[slot] EXCEPT !.msgId = msgId] \in Entry
          BY <5>1 DEF Entry, IInv, Types, TypeOK
        <5>4. /\ slots'[slot] # Free /\ slots'[slot].dest = slots[slot].dest
              /\ \A s \in Slot : s # slot => slots'[s] = slots[s]
          BY <5>1, <5>2, <5>3 DEF Entry, IInv, Types, TypeOK
        <5> QED BY <4>1, <5>4 DEF ActiveFor, Active
      <4>2. CASE ~Active(slot)
        BY <2>1, <4>2 DEF Commit, ActiveFor, Active
      <4> QED BY <4>1, <4>2
    <3>3. /\ ~Reserving(d) /\ ~Reserving(d)' /\ ~Submitting(d) /\ ~Submitting(d)'
          /\ InFlightFor(d)' = InFlightFor(d) /\ RefusedFor(d)' = RefusedFor(d)
      BY <2>1, <3>1 DEF Commit, Reserving, Submitting, InFlightFor, RefusedFor
    <3> QED BY <2>0, <3>2, <3>3 DEF Covered, Held, Allowed
  <2>2. ASSUME NEW r \in todo, FailEarly(r) \/ SubmitPlain(r) PROVE Covered(d)'
    BY <2>0, <2>2, CoveredFrame DEF FailEarly, SubmitPlain, Reserving, Submitting
  <2>3. CASE Command \/ ReportSend \/ ReportCallback \/ UNCHANGED vars
    BY <2>0, <2>3, CoveredFrame
       DEF Command, ReportSend, Return, ReportCallback, vars, Reserving, Submitting
  <2> QED
    BY <2>1, <2>2, <2>3, ReserveCovered, SubmitCovered, ReleaseCovered, CallbackCovered
       DEF Next, MainStep, Respond
<1>6. Untouched'
  BY UntouchedStep DEF IInv
<1> QED BY <1>1, <1>2, <1>3, <1>4, <1>5, <1>6 DEF IInv

LEMMA IInvAlways == Spec => []IInv
BY IInvInit, IInvStep, PTL DEF Spec

(***************************************************************************)
(* Whatever the interleaving of the main and the stack thread, for any     *)
(* table length and any requests: every callback of the CoAP service for a *)
(* confirmable request finds a slot to report its result for, so           *)
(* pyronet_ncp_pending_tx_match_and_consume never comes back empty-handed. *)
(***************************************************************************)
THEOREM TxEveryResultMatches == Spec => []EveryResultMatches
<1>1. IInv => EveryResultMatches
  BY DEF IInv, Covered, Held, EveryResultMatches
<1> QED BY <1>1, IInvAlways, PTL

(***************************************************************************)
(* Only refused submits leak slots, each at most one, for any table length *)
(* and any requests: otherwise the table holds no more slots than there    *)
(* are transactions and a reservation under way, although a result may     *)
(* have consumed another request's slot.                                   *)
(***************************************************************************)
THEOREM TxSlotBalance == Spec => []SlotBalance
<1>1. IInv => SlotBalance
  BY DEF IInv, Covered, Allowed, Submitting, SlotBalance
<1> QED BY <1>1, IInvAlways, PTL

----------------------------------------------------------------------------
(* The ledger of results.                                                  *)

Ends(r) == Occurrences(r, Terminal)
Sents(r) == Occurrences(r, {"SENT"})
Answers(r) == Occurrences(r, {"ACKED"}) + Occurrences(r, {"TIMEOUT"})

InSlot(r) == \E s \in Slot : Active(s) /\ slots[s].req = r
InCb(r) == \E c \in cb : c.req = r
InHand(r) == pc # "idle" /\ req = r

----------------------------------------------------------------------------
(* Counting results.                                                       *)

LEMMA SubIntervalFinite ==
    ASSUME NEW n \in Nat, NEW T \in SUBSET (1..n)
    PROVE  IsFiniteSet(T) /\ Cardinality(T) \in Nat
<1>1. IsFiniteSet(1..n)
  BY FS_Interval
<1>2. IsFiniteSet(T)
  BY <1>1, FS_Subset
<1> QED BY <1>2, FS_CardinalityType

LEMMA OccurrencesType ==
    ASSUME outcomes \in [Request -> Seq(Status)], NEW r \in Request, NEW S
    PROVE  Occurrences(r, S) \in Nat
<1>1. {i \in 1..Len(outcomes[r]) : outcomes[r][i] \in S} \in SUBSET (1..Len(outcomes[r]))
  OBVIOUS
<1>2. outcomes[r] \in Seq(Status)
  OBVIOUS
<1>3. Len(outcomes[r]) \in Nat
  BY <1>2, LenProperties
<1> QED BY <1>1, <1>3, SubIntervalFinite DEF Occurrences

LEMMA OccurrencesNone ==
    ASSUME NEW r, outcomes[r] = <<>>, NEW S
    PROVE  Occurrences(r, S) = 0
<1>0. Len(outcomes[r]) = 0
  BY EmptySeq
<1>1. {i \in 1..Len(outcomes[r]) : outcomes[r][i] \in S} = {}
  BY <1>0
<1> QED BY <1>1, FS_EmptySet DEF Occurrences

LEMMA OccurrencesSame ==
    ASSUME NEW r, outcomes'[r] = outcomes[r], NEW S
    PROVE  Occurrences(r, S)' = Occurrences(r, S)
BY DEF Occurrences

\* Reporting a result counts it once, for its own request.
LEMMA OccurrencesReport ==
    ASSUME outcomes \in [Request -> Seq(Status)],
           NEW r \in Request, NEW status \in Status, Report(r, status),
           NEW q \in Request, NEW S
    PROVE  Occurrences(q, S)' =
             Occurrences(q, S) + (IF q = r /\ status \in S THEN 1 ELSE 0)
<1>0. Occurrences(q, S) \in Nat
  BY OccurrencesType
<1>1. CASE q # r
  <2>1. outcomes'[q] = outcomes[q]
    BY <1>1 DEF Report
  <2> QED BY <1>0, <1>1, <2>1, OccurrencesSame
<1>2. CASE q = r
  <2> DEFINE o == outcomes[r]
             n == Len(o)
             old == {i \in 1..n : o[i] \in S}
             new == {i \in 1..Len(outcomes'[r]) : outcomes'[r][i] \in S}
  <2>1. o \in Seq(Status) /\ outcomes'[r] = Append(o, status)
    BY DEF Report
  <2>2. n \in Nat
    BY <2>1, LenProperties
  <2>b. /\ Len(outcomes'[r]) = n + 1
        /\ outcomes'[r][n + 1] = status
        /\ \A i \in 1..n : outcomes'[r][i] = o[i]
    BY <2>1, AppendProperties
  <2>3. n + 1 \notin old /\ IsFiniteSet(old)
    <3>1. old \in SUBSET (1..n) /\ n + 1 \notin 1..n
      BY <2>2
    <3> QED BY <2>2, <3>1, SubIntervalFinite
  <2>a. 1..(n + 1) = (1..n) \cup {n + 1}
    BY <2>2
  <2> HIDE DEF o, n
  <2>4. new = IF status \in S THEN old \cup {n + 1} ELSE old
    <3>1. new = {i \in (1..n) \cup {n + 1} : outcomes'[r][i] \in S}
      BY <2>b, <2>a
    <3>3. CASE status \in S
      BY <2>b, <3>1, <3>3
    <3>4. CASE status \notin S
      BY <2>b, <3>1, <3>4
    <3> QED BY <3>3, <3>4
  <2>5. Cardinality(new) = Cardinality(old) + (IF status \in S THEN 1 ELSE 0)
    <3>1. Cardinality(old) \in Nat
      BY <2>3, FS_CardinalityType
    <3> HIDE DEF old, new
    <3>2. /\ Cardinality(old \cup {n + 1}) = Cardinality(old) + 1
      BY <2>3, <3>1, FS_AddElement
    <3> QED BY <2>4, <3>1, <3>2
  <2>6. Occurrences(r, S) = Cardinality(old) /\ Occurrences(r, S)' = Cardinality(new)
    BY DEF Occurrences, o, n
  <2> QED BY <1>2, <2>5, <2>6
<1> QED BY <1>1, <1>2

LEMMA OccurrencesWitness ==
    ASSUME NEW r, NEW S, Occurrences(r, S) > 0, outcomes \in [Request -> Seq(Status)],
           r \in Request
    PROVE  \E status \in S : Reported(r, status)
<1> DEFINE found == {i \in 1..Len(outcomes[r]) : outcomes[r][i] \in S}
<1>1. found # {}
  <2>1. Cardinality(found) # 0
    BY DEF Occurrences
  <2> QED BY <2>1, FS_EmptySet
<1>2. PICK i \in 1..Len(outcomes[r]) : outcomes[r][i] \in S
  BY <1>1
<1> DEFINE same == {j \in 1..Len(outcomes[r]) : outcomes[r][j] \in {outcomes[r][i]}}
<1>3. i \in same /\ IsFiniteSet(same)
  <2>1. same \in SUBSET (1..Len(outcomes[r])) /\ Len(outcomes[r]) \in Nat
    BY LenProperties
  <2> QED BY <1>2, <2>1, SubIntervalFinite
<1>4. Cardinality(same) > 0
  <2>1. Cardinality(same) \in Nat /\ Cardinality(same) # 0
    BY <1>3, FS_EmptySet, FS_CardinalityType
  <2> QED BY <2>1
<1>5. Reported(r, outcomes[r][i])
  BY <1>4 DEF Reported, Occurrences
<1> QED BY <1>2, <1>5

----------------------------------------------------------------------------
(* Which request a slot is for.                                            *)

\* A request has one slot at most; the reserved slot, when a callback has not
\* emptied it, is that of the request in hand; and one callback runs at a time.
SlotsNamed ==
    /\ \A s, x \in Slot : Active(s) /\ Active(x) /\ slots[s].req = slots[x].req => s = x
    /\ pc \in {"submit", "reject", "commit"} =>
         \A s \in Slot : Active(s) => (slots[s].req = req <=> s = slot)
    /\ \A s \in Slot : Active(s) => slots[s].dest = DestOf[slots[s].req]
    /\ cb = {} \/ \E c \in cb : cb = {c}

LEMMA SlotsNamedStep ==
    ASSUME Types, Untouched, SlotsNamed, [Next]_vars
    PROVE  SlotsNamed'
<1> USE DEF Types, TypeOK, Holding, SlotsNamed
<1>0. ASSUME NEW s \in Slot, Active(s) PROVE slots[s] \in Entry
  BY <1>0 DEF Active
<1>1. CASE Command
  BY <1>1 DEF Command, Active
<1>2. ASSUME NEW r \in todo, FailEarly(r) \/ SubmitPlain(r) PROVE SlotsNamed'
  BY <1>2 DEF FailEarly, SubmitPlain, Active
<1>3. ASSUME NEW r \in todo, Reserve(r) PROVE SlotsNamed'
  <2> DEFINE idle == {s \in Slot : ~Active(s)}
             e == [msgId |-> 0, dest |-> DestOf[r], req |-> r]
  <2>1. CASE idle # {}
    <3>1. First(idle) \in idle
      BY <2>1, FirstSlot
    <3>2. First(idle) \in Slot /\ ~Active(First(idle))
      BY <3>1
    <3>3. e.req = r /\ e.dest = DestOf[r]
      OBVIOUS
    <3> HIDE DEF idle
    <3>4. /\ slot' = First(idle) /\ slots' = [slots EXCEPT ![First(idle)] = e]
          /\ pc' = "submit" /\ req' = r /\ UNCHANGED cb
      BY <1>3, <2>1 DEF Reserve, idle
    <3> HIDE DEF e
    <3>5. \A s \in Slot : Active(s) => slots[s].req # r
      BY DEF Untouched
    <3>6. /\ slots'[slot'] = e /\ slot' \in Slot /\ ~Active(slot')
          /\ \A s \in Slot : s # slot' => slots'[s] = slots[s]
      BY <3>2, <3>4
    <3> QED BY <3>3, <3>4, <3>5, <3>6 DEF Active
  <2>2. CASE idle = {}
    <3>1. UNCHANGED <<slots, slot, pc, req, cb>>
      BY <1>3, <2>2 DEF Reserve
    <3> QED BY <3>1 DEF Active
  <2> QED BY <2>1, <2>2
<1>5. CASE Submit
  BY <1>5 DEF Submit, Active
<1>6. CASE Release
  BY <1>6 DEF Release, Active
<1>7. CASE Commit
  <2>1. CASE Active(slot)
    <3>1. slots[slot] \in Entry /\ slot \in Slot
      BY <1>0, <1>7, <2>1 DEF Commit
    <3>2. /\ slots' = [slots EXCEPT ![slot] = [slots[slot] EXCEPT !.msgId = msgId]]
          /\ pc' = "sent" /\ UNCHANGED <<cb, req>>
      BY <1>7, <2>1 DEF Commit
    <3>3. /\ slots'[slot].req = slots[slot].req /\ slots'[slot].dest = slots[slot].dest
          /\ \A s \in Slot : s # slot => slots'[s] = slots[s]
      BY <3>1, <3>2 DEF Entry
    <3> QED BY <2>1, <3>2, <3>3 DEF Active
  <2>2. CASE ~Active(slot)
    BY <1>7, <2>2 DEF Commit, Active
  <2> QED BY <2>1, <2>2
<1>8. CASE ReportSend
  BY <1>8 DEF ReportSend, Return, Active
<1>9. ASSUME NEW t \in inflight, NEW status \in Terminal, Callback(t, status)
      PROVE  SlotsNamed'
  <2>1. UNCHANGED <<pc, req, slot>>
    BY <1>9 DEF Callback
  <2>2. \/ \E s \in Slot : /\ Active(s)
                           /\ slots' = [slots EXCEPT ![s] = Free]
                           /\ cb' = {[req |-> slots[s].req, status |-> status]}
        \/ UNCHANGED <<slots, cb>>
    BY <1>9, CallbackEffect
  <2>3. /\ \A s \in Slot : slots'[s] = slots[s] \/ slots'[s] = Free
        /\ cb' = {} \/ \E c \in cb' : cb' = {c}
    BY <2>2
  <2> QED BY <2>1, <2>3 DEF Active
<1>10. CASE ReportCallback
  BY <1>10 DEF ReportCallback, Active
<1>11. CASE UNCHANGED vars
  BY <1>11 DEF vars, Active
<1> QED
  BY <1>1, <1>2, <1>3, <1>5, <1>6, <1>7, <1>8, <1>9, <1>10, <1>11
     DEF Next, MainStep, Respond

----------------------------------------------------------------------------
(* Where a request is, and what has been reported of it.                   *)

Ledger(r) ==
    /\ InSlot(r) => Ends(r) = 0 /\ ~InCb(r)
    /\ InSlot(r) \/ InCb(r) => Answers(r) = 0
    /\ InHand(r) => Sents(r) = 0
    /\ Sents(r) > 0 \/ InHand(r) => Ends(r) + (IF InCb(r) THEN 1 ELSE 0) <= 1
    /\ Sents(r) > 0 \/ (pc = "sent" /\ req = r) => Ends(r) > 0 \/ InSlot(r) \/ InCb(r)
    /\ pc = "failed" /\ req = r => ~InSlot(r)

Counted(r) == Ends(r) \in Nat /\ Sents(r) \in Nat /\ Answers(r) \in Nat

LEMMA CountedType == ASSUME Types, NEW r \in Confirmable PROVE Counted(r)
<1>1. outcomes \in [Request -> Seq(Status)] /\ r \in Request
  BY DEF Types, TypeOK
<1>2. \A S : Occurrences(r, S) \in Nat
  BY <1>1, OccurrencesType
<1> QED BY <1>2 DEF Counted, Ends, Sents, Answers

\* A step that reports nothing.
LEMMA CountsSame ==
    ASSUME NEW r, outcomes'[r] = outcomes[r]
    PROVE  Ends(r)' = Ends(r) /\ Sents(r)' = Sents(r) /\ Answers(r)' = Answers(r)
BY OccurrencesSame DEF Ends, Sents, Answers

\* A step that reports a result of request r.
LEMMA CountsReport ==
    ASSUME Types, NEW r \in Request, NEW status \in Status, Report(r, status),
           NEW q \in Confirmable
    PROVE  /\ Ends(q)' = Ends(q) + (IF q = r /\ status # "SENT" THEN 1 ELSE 0)
           /\ Sents(q)' = Sents(q) + (IF q = r /\ status = "SENT" THEN 1 ELSE 0)
           /\ Answers(q)' = Answers(q)
                + (IF q = r /\ status \in {"ACKED", "TIMEOUT"} THEN 1 ELSE 0)
<1>1. outcomes \in [Request -> Seq(Status)] /\ q \in Request
  BY DEF Types, TypeOK
<1>2. \A S : Occurrences(q, S)' =
               Occurrences(q, S) + (IF q = r /\ status \in S THEN 1 ELSE 0)
  BY <1>1, OccurrencesReport
<1>3. \A S : Occurrences(q, S) \in Nat
  BY <1>1, OccurrencesType
<1>4. status \in Terminal <=> status # "SENT"
  BY DEF Status, Terminal
<1> QED BY <1>2, <1>3, <1>4 DEF Ends, Sents, Answers

LEMMA CountsNone ==
    ASSUME NEW r, outcomes[r] = <<>>
    PROVE  Ends(r) = 0 /\ Sents(r) = 0 /\ Answers(r) = 0
BY OccurrencesNone DEF Ends, Sents, Answers

LEMMA LedgerStep ==
    ASSUME Types, Untouched, SlotsNamed, \A q \in Confirmable : Ledger(q), [Next]_vars,
           NEW r \in Confirmable
    PROVE  Ledger(r)'
<1>a. Ledger(r) /\ Counted(r) /\ r \in Request
  BY CountedType
<1>b. r \in fresh \cup todo =>
        ~InSlot(r) /\ ~InCb(r) /\ ~InHand(r) /\ Ends(r) = 0 /\ Sents(r) = 0 /\ Answers(r) = 0
  BY CountsNone DEF Untouched, InSlot, InCb, InHand
<1>1. ASSUME UNCHANGED <<slots, cb, outcomes, pc, req>> PROVE Ledger(r)'
  <2>1. Ends(r)' = Ends(r) /\ Sents(r)' = Sents(r) /\ Answers(r)' = Answers(r)
    BY <1>1, CountsSame
  <2>2. /\ InSlot(r)' <=> InSlot(r)
        /\ InCb(r)' <=> InCb(r)
        /\ InHand(r)' <=> InHand(r)
    BY <1>1 DEF InSlot, InCb, InHand, Active
  <2> QED BY <1>1, <1>a, <2>1, <2>2 DEF Ledger
<1>2. ASSUME NEW q \in todo, Report(q, "FAILED"), UNCHANGED <<slots, cb, pc, req>>, pc = "idle"
      PROVE  Ledger(r)'
  <2>1. q \in Request /\ "FAILED" \in Status
    BY DEF Types, TypeOK, Status, Terminal
  <2>2. /\ Ends(r)' = Ends(r) + (IF r = q THEN 1 ELSE 0)
        /\ Sents(r)' = Sents(r) /\ Answers(r)' = Answers(r)
    BY <1>2, <1>a, <2>1, CountsReport DEF Counted
  <2>3. /\ InSlot(r)' <=> InSlot(r)
        /\ InCb(r)' <=> InCb(r)
        /\ ~InHand(r)' /\ pc' = "idle"
    BY <1>2 DEF InSlot, InCb, InHand, Active
  <2> QED BY <1>a, <1>b, <2>2, <2>3 DEF Ledger, Counted
<1>3. ASSUME NEW q \in todo, Reserve(q) PROVE Ledger(r)'
  <2> DEFINE idle == {s \in Slot : ~Active(s)}
             e == [msgId |-> 0, dest |-> DestOf[q], req |-> q]
  <2>1. CASE idle # {}
    <3>1. First(idle) \in idle
      BY <2>1, FirstSlot
    <3>2. First(idle) \in Slot /\ ~Active(First(idle))
      BY <3>1
    <3>3. e.req = q
      OBVIOUS
    <3> HIDE DEF idle
    <3>4. /\ slots' = [slots EXCEPT ![First(idle)] = e]
          /\ pc' = "submit" /\ req' = q /\ UNCHANGED <<cb, outcomes>>
      BY <1>3, <2>1 DEF Reserve, idle
    <3> HIDE DEF e
    <3>5. \A s \in Slot : slots'[s] = IF s = First(idle) THEN e ELSE slots[s]
      BY <3>2, <3>4 DEF Types, TypeOK
    <3>6. Ends(r)' = Ends(r) /\ Sents(r)' = Sents(r) /\ Answers(r)' = Answers(r)
      BY <3>4, CountsSame
    <3>7. /\ InCb(r)' <=> InCb(r)
          /\ InHand(r)' => r = q
      BY <3>4 DEF InCb, InHand
    <3>8. r # q => (InSlot(r)' <=> InSlot(r))
      BY <3>2, <3>3, <3>5 DEF InSlot, Active
    <3>9. CASE r = q
      BY <1>b, <3>4, <3>6, <3>7, <3>9 DEF Ledger
    <3>10. CASE r # q
      BY <1>a, <3>4, <3>6, <3>7, <3>8, <3>10 DEF Ledger
    <3> QED BY <3>9, <3>10
  <2>2. CASE idle = {}
    BY <1>2, <1>3, <2>2 DEF Reserve
  <2> QED BY <2>1, <2>2
<1>4. ASSUME NEW q \in todo, SubmitPlain(q) PROVE Ledger(r)'
  <2>1. /\ q # r /\ pc = "idle" /\ pc' = "sent" /\ req' = q
        /\ UNCHANGED <<slots, cb, outcomes>>
    BY <1>4 DEF SubmitPlain
  <2>2. Ends(r)' = Ends(r) /\ Sents(r)' = Sents(r) /\ Answers(r)' = Answers(r)
    BY <2>1, CountsSame
  <2>3. /\ InSlot(r)' <=> InSlot(r)
        /\ InCb(r)' <=> InCb(r)
        /\ ~InHand(r)'
    BY <2>1 DEF InSlot, InCb, InHand, Active
  <2> QED BY <1>a, <2>1, <2>2, <2>3 DEF Ledger
<1>5. CASE Submit
  <2>1. /\ UNCHANGED <<slots, cb, outcomes, req>> /\ pc = "submit"
        /\ pc' \in {"commit", "reject"}
    BY <1>5 DEF Submit
  <2>2. Ends(r)' = Ends(r) /\ Sents(r)' = Sents(r) /\ Answers(r)' = Answers(r)
    BY <2>1, CountsSame
  <2>3. /\ InSlot(r)' <=> InSlot(r)
        /\ InCb(r)' <=> InCb(r)
        /\ InHand(r)' <=> InHand(r)
    BY <2>1 DEF InSlot, InCb, InHand, Active
  <2> QED BY <1>a, <2>1, <2>2, <2>3 DEF Ledger
<1>6. CASE Release
  <2>1. /\ UNCHANGED <<cb, outcomes, req>> /\ pc = "reject" /\ pc' = "failed"
        /\ slots' = [slots EXCEPT ![slot] = Free] /\ slot \in Slot
    BY <1>6 DEF Release, Types, Holding
  <2>2. Ends(r)' = Ends(r) /\ Sents(r)' = Sents(r) /\ Answers(r)' = Answers(r)
    BY <2>1, CountsSame
  <2>3. /\ InCb(r)' <=> InCb(r)
        /\ InHand(r)' <=> InHand(r)
    BY <2>1 DEF InCb, InHand
  <2>4. \A s \in Slot : slots'[s] = IF s = slot THEN Free ELSE slots[s]
    BY <2>1 DEF Types, TypeOK
  <2>5. InSlot(r)' <=> InSlot(r) /\ r # req
    BY <2>1, <2>4 DEF InSlot, Active, SlotsNamed
  <2>6. Sents(r) > 0 => r # req
    BY <1>a, <2>1 DEF Ledger, InHand, Counted
  <2> QED BY <1>a, <2>1, <2>2, <2>3, <2>5, <2>6 DEF Ledger
<1>7. CASE Commit
  <2>1. /\ UNCHANGED <<cb, outcomes, req>> /\ pc = "commit"
        /\ pc' = IF Active(slot) THEN "sent" ELSE "failed"
    BY <1>7 DEF Commit
  <2>2. Ends(r)' = Ends(r) /\ Sents(r)' = Sents(r) /\ Answers(r)' = Answers(r)
    BY <2>1, CountsSame
  <2>3. /\ InCb(r)' <=> InCb(r)
        /\ InHand(r)' <=> InHand(r)
    BY <2>1 DEF InCb, InHand
  <2>4. slot \in Slot
    BY <2>1 DEF Types, Holding
  <2>5. InSlot(r)' <=> InSlot(r)
    <3>1. CASE Active(slot)
      <4>1. slots[slot] \in Entry
        BY <2>4, <3>1 DEF Types, TypeOK, Active
      <4>2. slots' = [slots EXCEPT ![slot] = [slots[slot] EXCEPT !.msgId = msgId]]
        BY <1>7, <3>1 DEF Commit
      <4>3. [slots[slot] EXCEPT !.msgId = msgId] \in Entry
        BY <4>1 DEF Entry, Types, TypeOK
      <4>4. /\ slots'[slot].req = slots[slot].req /\ slots'[slot] # Free
            /\ \A s \in Slot : s # slot => slots'[s] = slots[s]
        BY <2>4, <4>1, <4>2, <4>3 DEF Entry, Types, TypeOK
      <4> QED BY <2>4, <3>1, <4>4 DEF InSlot, Active
    <3> QED BY <1>7, <3>1 DEF Commit, InSlot, Active
  <2>6. InSlot(req) <=> Active(slot)
    BY <2>1, <2>4 DEF InSlot, SlotsNamed
  <2> QED BY <1>a, <2>1, <2>2, <2>3, <2>5, <2>6 DEF Ledger
<1>8. CASE ReportSend
  <2>1. /\ UNCHANGED <<slots, cb>> /\ pc' = "idle"
        /\ \/ pc = "sent" /\ Report(req, "SENT")
           \/ pc = "failed" /\ Report(req, "FAILED")
    BY <1>8 DEF ReportSend, Return
  <2>2. req \in Request /\ {"SENT", "FAILED"} \subseteq Status
    BY <2>1 DEF Types, Holding, Status, Terminal
  <2>3. /\ InSlot(r)' <=> InSlot(r)
        /\ InCb(r)' <=> InCb(r)
        /\ ~InHand(r)' /\ (pc # "idle" /\ req = r => InHand(r))
    BY <2>1 DEF InSlot, InCb, InHand, Active
  <2>4. CASE pc = "sent" /\ Report(req, "SENT")
    <3>1. /\ Ends(r)' = Ends(r) /\ Answers(r)' = Answers(r)
          /\ Sents(r)' = Sents(r) + (IF r = req THEN 1 ELSE 0)
      BY <1>a, <2>2, <2>4, CountsReport DEF Counted
    <3> QED BY <1>a, <2>1, <2>3, <2>4, <3>1 DEF Ledger, Counted
  <2>5. CASE pc = "failed" /\ Report(req, "FAILED")
    <3>1. /\ Ends(r)' = Ends(r) + (IF r = req THEN 1 ELSE 0)
          /\ Answers(r)' = Answers(r) /\ Sents(r)' = Sents(r)
      BY <1>a, <2>2, <2>5, CountsReport DEF Counted
    <3> QED BY <1>a, <2>1, <2>3, <2>5, <3>1 DEF Ledger, Counted
  <2> QED BY <2>1, <2>4, <2>5
<1>9. ASSUME NEW t \in inflight, NEW status \in Terminal, Callback(t, status)
      PROVE  Ledger(r)'
  <2>1. UNCHANGED <<pc, req, outcomes>> /\ cb = {}
    BY <1>9 DEF Callback
  <2>2. Ends(r)' = Ends(r) /\ Sents(r)' = Sents(r) /\ Answers(r)' = Answers(r)
    BY <2>1, CountsSame
  <2>3. InHand(r)' <=> InHand(r)
    BY <2>1 DEF InHand
  <2>4. ASSUME NEW s \in Slot, Active(s), slots' = [slots EXCEPT ![s] = Free],
               cb' = {[req |-> slots[s].req, status |-> status]}
        PROVE  Ledger(r)'
    <3>1. \A x \in Slot : slots'[x] = IF x = s THEN Free ELSE slots[x]
      BY <2>4 DEF Types, TypeOK
    <3>2. InSlot(r)' <=> InSlot(r) /\ r # slots[s].req
      BY <2>4, <3>1 DEF InSlot, Active, SlotsNamed
    <3>3. InCb(r)' <=> r = slots[s].req
      BY <2>4 DEF InCb
    <3>4. ~InCb(r) /\ (r = slots[s].req => InSlot(r))
      BY <2>1, <2>4 DEF InCb, InSlot
    <3> QED BY <1>a, <2>1, <2>2, <2>3, <3>2, <3>3, <3>4 DEF Ledger, Counted
  <2>5. CASE UNCHANGED <<slots, cb>>
    BY <1>1, <2>1, <2>5
  <2> QED BY <1>9, <2>4, <2>5, CallbackEffect
<1>10. CASE ReportCallback
  <2>1. PICK c \in cb : Report(c.req, c.status)
    BY <1>10 DEF ReportCallback
  <2>2. UNCHANGED <<slots, pc, req>> /\ cb' = {} /\ cb = {c}
    BY <1>10 DEF ReportCallback, SlotsNamed
  <2>3. c.req \in Request /\ c.status \in Terminal /\ c.status # "SENT"
    BY DEF Types, TypeOK, Terminal
  <2>4. c.status \in Status
    BY <2>3 DEF Status
  <2>5. /\ Ends(r)' = Ends(r) + (IF r = c.req THEN 1 ELSE 0)
        /\ Sents(r)' = Sents(r)
        /\ Answers(r)' = Answers(r)
             + (IF r = c.req /\ c.status \in {"ACKED", "TIMEOUT"} THEN 1 ELSE 0)
    BY <1>a, <2>1, <2>3, <2>4, CountsReport DEF Counted
  <2>6. /\ InSlot(r)' <=> InSlot(r)
        /\ ~InCb(r)' /\ (InCb(r) <=> r = c.req)
        /\ InHand(r)' <=> InHand(r)
    BY <2>2 DEF InSlot, InCb, InHand, Active
  <2>7. CASE r = c.req
    BY <1>a, <2>2, <2>5, <2>6, <2>7 DEF Ledger, Counted
  <2>8. CASE r # c.req
    BY <1>a, <2>2, <2>5, <2>6, <2>8 DEF Ledger, Counted
  <2> QED BY <2>7, <2>8
<1>11. CASE Command
  BY <1>1, <1>11 DEF Command
<1>12. ASSUME NEW q \in todo, FailEarly(q) PROVE Ledger(r)'
  BY <1>2, <1>12 DEF FailEarly
<1>13. CASE UNCHANGED vars
  BY <1>1, <1>13 DEF vars
<1> QED
  BY <1>3, <1>4, <1>5, <1>6, <1>7, <1>8, <1>9, <1>10, <1>11, <1>12, <1>13
     DEF Next, MainStep, Respond

LedgerInv == IInv /\ SlotsNamed /\ \A r \in Confirmable : Ledger(r)

LEMMA LedgerInvInit == Init => LedgerInv
<1> SUFFICES ASSUME Init PROVE LedgerInv
  OBVIOUS
<1>1. SlotsNamed
  BY DEF Init, SlotsNamed, Active
<1>2. ASSUME NEW r \in Confirmable PROVE Ledger(r)
  <2>1. Ends(r) = 0 /\ Sents(r) = 0 /\ Answers(r) = 0
    <3>1. outcomes[r] = <<>>
      BY DEF Init
    <3> QED BY <3>1, CountsNone
  <2>2. ~InSlot(r) /\ ~InCb(r) /\ ~InHand(r) /\ pc = "idle"
    BY DEF Init, InSlot, InCb, InHand, Active
  <2> QED BY <2>1, <2>2 DEF Ledger
<1> QED BY <1>1, <1>2, IInvInit DEF LedgerInv

LEMMA LedgerInvStep == LedgerInv /\ [Next]_vars => LedgerInv'
BY IInvStep, SlotsNamedStep, LedgerStep DEF LedgerInv, IInv

LEMMA LedgerInvAlways == Spec => []LedgerInv
BY LedgerInvInit, LedgerInvStep, PTL DEF Spec

(***************************************************************************)
(* A confirmable request that reported SENT is never forgotten: it has     *)
(* reported its terminal result, or a slot or a running callback holds it, *)
(* whatever the order of commit, callback and report (tx.c:230-231).       *)
(***************************************************************************)
THEOREM TxSentIsTracked == Spec => []SentIsTracked
<1>1. ASSUME LedgerInv, NEW r \in Confirmable, Reported(r, "SENT")
      PROVE  \/ \E status \in Terminal : Reported(r, status)
             \/ \E s \in Slot : Active(s) /\ slots[s].req = r
             \/ \E c \in cb : c.req = r
  <2>1. Ends(r) > 0 \/ InSlot(r) \/ InCb(r)
    BY <1>1 DEF LedgerInv, Ledger, Reported, Sents
  <2>2. r \in Request /\ outcomes \in [Request -> Seq(Status)]
    BY <1>1 DEF LedgerInv, IInv, Types, TypeOK
  <2>3. Ends(r) > 0 => \E status \in Terminal : Reported(r, status)
    BY <2>2, OccurrencesWitness DEF Ends
  <2> QED BY <2>1, <2>3 DEF InSlot, InCb
<1>2. LedgerInv => SentIsTracked
  BY <1>1 DEF SentIsTracked
<1> QED BY <1>2, LedgerInvAlways, PTL

(***************************************************************************)
(* A request that reported SENT reports at most one terminal result: it is *)
(* never in a slot and in a callback at once, and leaves both for good     *)
(* when its result is queued (pyronetNcpCoapResponseCallback).             *)
(***************************************************************************)
THEOREM TxSentEndsOnce == Spec => []SentEndsOnce
<1>1. ASSUME LedgerInv, NEW r \in Confirmable, Reported(r, "SENT")
      PROVE  Occurrences(r, Terminal) <= 1
  <2>1. Ends(r) + (IF InCb(r) THEN 1 ELSE 0) <= 1
    BY <1>1 DEF LedgerInv, Ledger, Reported, Sents
  <2>2. Counted(r)
    BY <1>1, CountedType DEF LedgerInv, IInv
  <2> QED BY <2>1, <2>2 DEF Ends, Counted
<1>2. LedgerInv => SentEndsOnce
  BY <1>1 DEF SentEndsOnce
<1> QED BY <1>2, LedgerInvAlways, PTL

----------------------------------------------------------------------------
(* Results announced and results reported.                                 *)

To(d) == {r \in Confirmable : DestOf[r] = d}
Announced(d, status) == {r \in To(d) : verdict[r] = status}
Passed(d, status) == {r \in To(d) : Reported(r, status)}
InPassing(d, status) == {c \in cb : c.req \in To(d) /\ c.status = status}

Balanced(d, status) ==
    /\ IsFiniteSet(Announced(d, status))
    /\ IsFiniteSet(Passed(d, status))
    /\ Cardinality(Announced(d, status)) =
         Cardinality(Passed(d, status)) + Cardinality(InPassing(d, status))

\* A callback always finds a slot of its own destination.
LEMMA CallbackConsumes ==
    ASSUME IInv, NEW t \in inflight, NEW status \in Terminal, Callback(t, status)
    PROVE  \E s \in Slot : /\ Active(s)
                           /\ slots[s].dest = t.dest
                           /\ cb' = {[req |-> slots[s].req, status |-> status]}
<1>1. PICK id \in {0, t.id} :
        LET m == Matching(id, t.dest) IN
        \/ /\ m # {}
           /\ cb' = {[req |-> slots[First(m)].req, status |-> status]}
        \/ m = {}
  BY DEF Callback
<1>2. Matching(id, t.dest) # {}
  <2>1. t.dest \in Destination /\ t \in InFlightFor(t.dest)
    BY DEF IInv, Types, TypeOK, Transaction, InFlightFor
  <2>2. /\ IsFiniteSet(InFlightFor(t.dest)) /\ Cardinality(InFlightFor(t.dest)) \in Nat
        /\ Cardinality(ActiveFor(t.dest)) \in Nat
    BY CountsFinite DEF IInv
  <2>3. Cardinality(InFlightFor(t.dest)) # 0
    BY <2>1, <2>2, FS_EmptySet
  <2>4. Cardinality(ActiveFor(t.dest)) # 0
    BY <2>1, <2>2, <2>3 DEF IInv, Covered, Held
  <2>5. ActiveFor(t.dest) # {}
    BY <2>4, FS_EmptySet
  <2> QED BY <2>5 DEF ActiveFor, Matching
<1> QED BY <1>1, <1>2, MatchHasDestination

LEMMA ReportedSame ==
    ASSUME Types, NEW r \in Request, NEW told \in Status, Report(r, told),
           NEW status \in Status, status # told, NEW d
    PROVE  Passed(d, status)' = Passed(d, status)
<1>1. ASSUME NEW q \in Confirmable PROVE Reported(q, status)' <=> Reported(q, status)
  <2>1. outcomes \in [Request -> Seq(Status)] /\ q \in Request
    BY DEF Types, TypeOK
  <2>2. Occurrences(q, {status})' = Occurrences(q, {status})
    BY <2>1, OccurrencesReport, OccurrencesType
  <2> QED BY <2>2 DEF Reported
<1> QED BY <1>1 DEF Passed, To

LEMMA BalancedStep ==
    ASSUME LedgerInv, [Next]_vars, NEW d \in Destination, NEW status \in {"ACKED", "TIMEOUT"},
           Balanced(d, status)
    PROVE  Balanced(d, status)'
<1> USE DEF LedgerInv, IInv
<1>a. status \in Terminal /\ status \in Status
  BY DEF Terminal, Status
<1>1. ASSUME UNCHANGED cb, Announced(d, status)' = Announced(d, status),
             Passed(d, status)' = Passed(d, status)
      PROVE  Balanced(d, status)'
  <2>1. InPassing(d, status)' = InPassing(d, status)
    BY <1>1 DEF InPassing, To
  <2> QED BY <1>1, <2>1 DEF Balanced
<1>2. ASSUME UNCHANGED <<outcomes, verdict, cb>> PROVE Balanced(d, status)'
  <2>1. /\ Announced(d, status)' = Announced(d, status)
        /\ Passed(d, status)' = Passed(d, status)
    BY <1>2 DEF Announced, Passed, To, Reported, Occurrences
  <2> QED BY <1>1, <1>2, <2>1
<1>3. ASSUME NEW r \in Request, NEW told \in {"SENT", "FAILED"}, Report(r, told),
             UNCHANGED <<verdict, cb>>
      PROVE  Balanced(d, status)'
  <2>1. told \in Status /\ told # status
    BY DEF Status, Terminal
  <2>2. Passed(d, status)' = Passed(d, status)
    BY <1>3, <1>a, <2>1, ReportedSame
  <2> QED BY <1>1, <1>3, <2>2 DEF Announced, To
<1>4. CASE Submit
  <2>1. Announced(d, status)' = Announced(d, status)
    <3>1. CASE pc' = "commit"
      BY <1>4, <3>1 DEF Submit, Announced, To
    <3>2. CASE pc' = "reject"
      <4>1. verdict' = [verdict EXCEPT ![req] = "REFUSED"] /\ verdict[req] = "NONE"
        BY <1>4, <3>2 DEF Submit, Untouched
      <4> QED BY <4>1 DEF Announced, To, Types, TypeOK
    <3> QED BY <1>4, <3>1, <3>2 DEF Submit
  <2>2. Passed(d, status)' = Passed(d, status) /\ UNCHANGED cb
    BY <1>4 DEF Submit, Passed, To, Reported, Occurrences
  <2> QED BY <1>1, <2>1, <2>2
<1>5. ASSUME NEW t \in inflight, NEW told \in Terminal, Callback(t, told)
      PROVE  Balanced(d, status)'
  <2>1. /\ cb = {} /\ verdict' = [verdict EXCEPT ![t.req] = told] /\ UNCHANGED outcomes
    BY <1>5 DEF Callback
  <2>2. PICK s \in Slot : /\ Active(s) /\ slots[s].dest = t.dest
                          /\ cb' = {[req |-> slots[s].req, status |-> told]}
    BY <1>5, CallbackConsumes
  <2> DEFINE c == [req |-> slots[s].req, status |-> told]
  <2>3. /\ t.req \in Confirmable /\ verdict[t.req] = "NONE" /\ t.dest = DestOf[t.req]
        /\ slots[s].req \in Confirmable /\ DestOf[slots[s].req] = t.dest
    <3>1. slots[s] \in Entry
      BY <2>2 DEF Types, TypeOK, Active
    <3> QED BY <2>2, <3>1 DEF Types, TypeOK, Transaction, Entry, Untouched, SlotsNamed
  <2>4. /\ Passed(d, status)' = Passed(d, status) /\ InPassing(d, status) = {}
    BY <2>1 DEF Passed, To, Reported, Occurrences, InPassing
  <2>5. c.req = slots[s].req /\ c.status = told /\ cb' = {c}
    BY <2>2
  <2> HIDE DEF c
  <2>6. CASE t.dest = d /\ told = status
    <3>1. InPassing(d, status)' = {c}
      BY <2>3, <2>5, <2>6 DEF InPassing, To
    <3>2. /\ Announced(d, status)' = Announced(d, status) \cup {t.req}
          /\ t.req \notin Announced(d, status)
      BY <1>a, <2>1, <2>3, <2>6 DEF Announced, To, Types, TypeOK
    <3>3. /\ IsFiniteSet(Announced(d, status))'
          /\ Cardinality(Announced(d, status)') = Cardinality(Announced(d, status)) + 1
      BY <3>2, FS_AddElement DEF Balanced
    <3>4. Cardinality(InPassing(d, status)') = 1 /\ Cardinality(InPassing(d, status)) = 0
      BY <2>4, <3>1, FS_Singleton, FS_EmptySet
    <3>5. Cardinality(Passed(d, status)) \in Nat
      BY FS_CardinalityType DEF Balanced
    <3> QED BY <2>4, <3>3, <3>4, <3>5 DEF Balanced
  <2>7. CASE ~ (t.dest = d /\ told = status)
    <3>1. InPassing(d, status)' = {}
      BY <2>3, <2>5, <2>7 DEF InPassing, To
    <3>2. Announced(d, status)' = Announced(d, status)
      BY <1>a, <2>1, <2>3, <2>7 DEF Announced, To, Types, TypeOK
    <3> QED BY <2>4, <3>1, <3>2 DEF Balanced
  <2> QED BY <2>6, <2>7
<1>6. CASE ReportCallback
  <2>1. PICK c \in cb : Report(c.req, c.status)
    BY <1>6 DEF ReportCallback
  <2>2. cb = {c} /\ cb' = {} /\ UNCHANGED verdict
    BY <1>6 DEF ReportCallback, SlotsNamed
  <2>3. c.req \in Confirmable /\ c.req \in Request /\ c.status \in Terminal /\ c.status \in Status
    BY DEF Types, TypeOK, Status
  <2>4. Announced(d, status)' = Announced(d, status) /\ InPassing(d, status)' = {}
    BY <2>2 DEF Announced, To, InPassing
  <2>5. CASE c.status = status /\ c.req \in To(d)
    <3>1. Reported(c.req, status)' /\ ~Reported(c.req, status)
      <4>1. Answers(c.req) = 0
        BY <2>3 DEF Ledger, InCb
      <4>2. outcomes \in [Request -> Seq(Status)]
        BY DEF Types, TypeOK
      <4>3. \A S : Occurrences(c.req, S) \in Nat
        BY <2>3, <4>2, OccurrencesType
      <4>4. Occurrences(c.req, {status}) = 0
        <5>1. /\ Occurrences(c.req, {"ACKED"}) \in Nat
              /\ Occurrences(c.req, {"TIMEOUT"}) \in Nat
          BY <4>3
        <5>2. Occurrences(c.req, {"ACKED"}) = 0 /\ Occurrences(c.req, {"TIMEOUT"}) = 0
          BY <4>1, <5>1 DEF Answers
        <5>3. status = "ACKED" \/ status = "TIMEOUT"
          OBVIOUS
        <5> QED BY <5>2, <5>3
      <4>5. Occurrences(c.req, {status})' = Occurrences(c.req, {status}) + 1
        BY <2>1, <2>3, <2>5, <4>2, OccurrencesReport
      <4> QED BY <4>4, <4>5 DEF Reported
    <3>2. ASSUME NEW q \in Confirmable, q # c.req
          PROVE  Reported(q, status)' <=> Reported(q, status)
      <4>1. outcomes'[q] = outcomes[q]
        BY <2>1, <3>2 DEF Report, Types, TypeOK
      <4> QED BY <4>1 DEF Reported, Occurrences
    <3>3. Passed(d, status)' = Passed(d, status) \cup {c.req} /\ c.req \notin Passed(d, status)
      BY <2>5, <3>1, <3>2 DEF Passed, To
    <3>4. /\ IsFiniteSet(Passed(d, status))'
          /\ Cardinality(Passed(d, status)') = Cardinality(Passed(d, status)) + 1
      BY <3>3, FS_AddElement DEF Balanced
    <3>5. InPassing(d, status) = {c}
      BY <2>2, <2>5 DEF InPassing
    <3>6. Cardinality(InPassing(d, status)) = 1 /\ Cardinality(InPassing(d, status)') = 0
      BY <2>4, <3>5, FS_Singleton, FS_EmptySet
    <3>7. Cardinality(Passed(d, status)) \in Nat
      BY FS_CardinalityType DEF Balanced
    <3> QED BY <2>4, <3>4, <3>6, <3>7 DEF Balanced
  <2>6. CASE c.status # status
    <3>1. Passed(d, status)' = Passed(d, status)
      BY <1>a, <2>1, <2>3, <2>6, ReportedSame
    <3>2. InPassing(d, status) = {}
      BY <2>2, <2>6 DEF InPassing
    <3> QED BY <2>4, <3>1, <3>2 DEF Balanced
  <2>7. CASE c.req \notin To(d)
    <3>1. \A q \in To(d) : outcomes'[q] = outcomes[q]
      BY <2>1, <2>7 DEF Report, To, Types, TypeOK
    <3>2. Passed(d, status)' = Passed(d, status)
      <4>1. \A q \in To(d) : Reported(q, status)' <=> Reported(q, status)
        BY <3>1 DEF Reported, Occurrences
      <4> QED BY <4>1 DEF Passed, To
    <3>3. InPassing(d, status) = {}
      BY <2>2, <2>7 DEF InPassing
    <3> QED BY <2>4, <3>2, <3>3 DEF Balanced
  <2> QED BY <2>5, <2>6, <2>7
<1>7. ASSUME NEW r \in todo, FailEarly(r) \/ Reserve(r) PROVE Balanced(d, status)'
  <2>1. r \in Request
    BY DEF Types, TypeOK
  <2>2. UNCHANGED <<verdict, cb>> /\ (UNCHANGED outcomes \/ Report(r, "FAILED"))
    BY <1>7 DEF FailEarly, Reserve
  <2> QED BY <1>2, <1>3, <2>1, <2>2
<1>8. CASE ReportSend
  <2>1. /\ UNCHANGED <<verdict, cb>> /\ req \in Request
        /\ Report(req, "SENT") \/ Report(req, "FAILED")
    BY <1>8 DEF ReportSend, Types, Holding
  <2> QED BY <1>3, <2>1
<1>9. CASE Command \/ (\E r \in todo : SubmitPlain(r)) \/ Release \/ Commit \/ UNCHANGED vars
  BY <1>2, <1>9 DEF Command, SubmitPlain, Release, Commit, vars
<1> QED
  BY <1>4, <1>5, <1>6, <1>7, <1>8, <1>9 DEF Next, MainStep, Respond

(***************************************************************************)
(* Matching by destination may swap results among the requests to one      *)
(* destination but loses and invents none: towards every destination, for  *)
(* any workload, as many ACKED and TIMEOUT results are reported, or are in *)
(* a callback's hands, as the CoAP service announced.                      *)
(***************************************************************************)
THEOREM TxResultsConserved == Spec => []ResultsConserved
<1> DEFINE AllBalanced ==
             \A d \in Destination, status \in {"ACKED", "TIMEOUT"} : Balanced(d, status)
<1>1. ASSUME Init PROVE AllBalanced
  <2>1. ASSUME NEW d \in Destination, NEW status \in {"ACKED", "TIMEOUT"}
        PROVE  Balanced(d, status)
    <3>1. \A r \in Confirmable : outcomes[r] = <<>> /\ verdict[r] = "NONE" /\ cb = {}
      BY <1>1 DEF Init
    <3>2. \A r \in Confirmable : ~Reported(r, status)
      BY <3>1, OccurrencesNone DEF Reported
    <3>3. Announced(d, status) = {} /\ Passed(d, status) = {} /\ InPassing(d, status) = {}
      BY <1>1, <3>1, <3>2 DEF Init, Announced, Passed, InPassing, To
    <3> QED BY <3>3, FS_EmptySet DEF Balanced
  <2> QED BY <2>1
<1>2. LedgerInv /\ AllBalanced /\ [Next]_vars => AllBalanced'
  <2>1. UNCHANGED Destination
    OBVIOUS
  <2> QED BY <2>1, BalancedStep
<1>3. AllBalanced => ResultsConserved
  BY DEF Balanced, Announced, Passed, InPassing, To, ResultsConserved
<1> HIDE DEF AllBalanced
<1> QED BY <1>1, <1>2, <1>3, LedgerInvAlways, PTL DEF Spec
=============================================================================
