------------------------------- MODULE NcpTx -------------------------------
(***************************************************************************)
(* The CoAP transmit path of the sensor NCP                                *)
(* (firmware/sensor_ncp/ncp/pyronet_ncp_tx.c, pyronet_ncp_pending_tx.c).   *)
(*                                                                         *)
(* Two threads share the pending-transmission table.  The main thread      *)
(* executes host commands: it reserves a slot, submits the request to the  *)
(* CoAP service under the nanostack lock, commits the message id into the  *)
(* slot and reports SENT.  The stack thread runs the CoAP response         *)
(* callback: it consumes the slot that matches the response and reports    *)
(* the terminal result.  Each action below is one critical section of the  *)
(* code, so every interleaving the two locks allow is a behaviour.         *)
(*                                                                         *)
(* A Request is one call of pyronetNcpSendCoapRequest: its request_type    *)
(* and detail are what the code stores in the slot, and the request itself *)
(* is used once, so that what is reported of it can be told apart.         *)
(***************************************************************************)
EXTENDS Naturals, Sequences, FiniteSets

CONSTANTS Request,      \* the sends the host commands in a behaviour
          Confirmable,  \* those sent as confirmable CoAP messages
          Burst,        \* the sends of one neighbour-alert command, one per neighbour
          Destination,  \* border router and neighbours (the port is always the same)
          DestOf,       \* the address each request is sent to
          NumSlots,     \* PYRONET_PENDING_TX_LEN
          MayRefuse,    \* can coap_service_request_send run out of memory and return 0?
          Free,         \* a slot cleared by memset
          None          \* no request at hand

Slot == 1..NumSlots
Entry == [msgId : Nat, dest : Destination, req : Confirmable]
Terminal == {"ACKED", "FAILED", "TIMEOUT"}
Status == Terminal \cup {"SENT"}
Transaction == [id : Nat \ {0}, dest : Destination, req : Confirmable]

ASSUME TxAssumption ==
    /\ Confirmable \subseteq Request
    /\ Burst \subseteq Confirmable
    /\ DestOf \in [Request -> Destination]
    /\ NumSlots \in Nat \ {0}
    /\ MayRefuse \in BOOLEAN
    /\ Free \notin Entry
    /\ None \notin Request

VARIABLES
    slots,     \* pyronetNcpPendingTxState.slots
    fresh,     \* requests the host has not commanded yet
    todo,      \* requests of the command being executed that are not sent yet
    pc,        \* where the main thread is in pyronetNcpSendCoapRequest
    req,       \* its request_type and detail arguments
    slot,      \* its reserved_slot
    msgId,     \* its msg_id
    nextId,    \* the CoAP service's message id counter
    inflight,  \* transactions the CoAP service will call back for
    cb,        \* result a callback has matched but not queued yet
    outcomes,  \* history: the TX_RESULT statuses queued for each request
    verdict    \* history: what the CoAP service said of each request

vars == <<slots, fresh, todo, pc, req, slot, msgId, nextId, inflight, cb,
          outcomes, verdict>>

TypeOK ==
    /\ slots \in [Slot -> Entry \cup {Free}]
    /\ fresh \in SUBSET Request
    /\ todo \in SUBSET Request
    /\ pc \in {"idle", "submit", "reject", "commit", "sent", "failed"}
    /\ req \in Request \cup {None}
    /\ slot \in Slot \cup {0}
    /\ msgId \in Nat
    /\ nextId \in Nat \ {0}
    /\ inflight \in SUBSET Transaction
    /\ cb \in SUBSET [req : Confirmable, status : Terminal]
    /\ outcomes \in [Request -> Seq(Status)]
    /\ verdict \in [Request -> Terminal \cup {"NONE", "REFUSED"}]

Init ==
    /\ slots = [s \in Slot |-> Free]
    /\ fresh = Request
    /\ todo = {}
    /\ pc = "idle"
    /\ req = None
    /\ slot = 0
    /\ msgId = 0
    /\ nextId = 1
    /\ inflight = {}
    /\ cb = {}
    /\ outcomes = [r \in Request |-> <<>>]
    /\ verdict = [r \in Request |-> "NONE"]

----------------------------------------------------------------------------
Active(s) == slots[s] # Free

\* The lowest-numbered slot of a non-empty set: the code scans from index 0.
First(S) == CHOOSE s \in S : \A t \in S : s <= t

\* pyronet_ncp_events_queue_tx_result, as far as this path is concerned.
Report(r, status) == outcomes' = [outcomes EXCEPT ![r] = Append(@, status)]

\* The main thread leaves pyronetNcpSendCoapRequest.
Return ==
    /\ pc' = "idle"
    /\ req' = None
    /\ slot' = 0
    /\ msgId' = 0

----------------------------------------------------------------------------
(* The main thread.                                                        *)

\* A host command arrives.  A neighbour alert is sent to every neighbour in
\* the table before the main thread looks at the host link again.
Command ==
    /\ pc = "idle"
    /\ todo = {}
    /\ \/ \E r \in fresh \ Burst : todo' = {r}
       \/ /\ Burst \cap fresh # {}
          /\ todo' = Burst \cap fresh
    /\ fresh' = fresh \ todo'
    /\ UNCHANGED <<slots, pc, req, slot, msgId, nextId, inflight, cb,
                   outcomes, verdict>>

\* Mutant: an early return that queues no result
FailEarlySilently(r) ==
    /\ pc = "idle"
    /\ r \in todo
    /\ todo' = todo \ {r}
    /\ UNCHANGED <<slots, fresh, pc, req, slot, msgId, nextId, inflight, cb,
                   outcomes, verdict>>

\* No CoAP service, or no router address: the request fails before it is tracked.
FailEarly(r) ==
    /\ pc = "idle"
    /\ r \in todo
    /\ todo' = todo \ {r}
    /\ Report(r, "FAILED")
    /\ UNCHANGED <<slots, fresh, pc, req, slot, msgId, nextId, inflight, cb, verdict>>

\* Mutant: a slot is reserved for plain sends too
ReserveAny(r) ==
    /\ pc = "idle"
    /\ r \in todo
    /\ todo' = todo \ {r}
    /\ \E s \in Slot :
         /\ ~Active(s) /\ \A t \in Slot : ~Active(t) => s <= t
         /\ slot' = s
         /\ slots' = [slots EXCEPT ![s] = [msgId |-> 0, dest |-> DestOf[r], req |-> r]]
    /\ pc' = "submit"
    /\ req' = r
    /\ UNCHANGED <<fresh, msgId, nextId, inflight, cb, outcomes, verdict>>

\* pyronet_ncp_pending_tx_reserve, or TRACK_EXHAUSTED when every slot is taken.
Reserve(r) ==
    /\ pc = "idle"
    /\ r \in todo \cap Confirmable
    /\ todo' = todo \ {r}
    /\ LET idle == {s \in Slot : ~Active(s)} IN
       \/ /\ idle # {}
          /\ slot' = First(idle)
          /\ slots' = [slots EXCEPT ![First(idle)] =
                         [msgId |-> 0, dest |-> DestOf[r], req |-> r]]
          /\ pc' = "submit"
          /\ req' = r
          /\ UNCHANGED outcomes
       \/ /\ idle = {}
          /\ Report(r, "FAILED")
          /\ UNCHANGED <<slots, slot, pc, req>>
    /\ UNCHANGED <<fresh, msgId, nextId, inflight, cb, verdict>>

\* A non-confirmable send needs no slot; the service returns id 0 for it.
SubmitPlain(r) ==
    /\ pc = "idle"
    /\ r \in todo \ Confirmable
    /\ cb = {}
    /\ todo' = todo \ {r}
    /\ pc' = "sent"
    /\ req' = r
    /\ UNCHANGED <<slots, fresh, slot, msgId, nextId, inflight, cb, outcomes, verdict>>

\* coap_service_request_send under the nanostack lock, which the stack thread
\* holds while a callback runs (cb = {}).  Id 0 means the request is refused.
Submit ==
    /\ pc = "submit"
    /\ cb = {}
    /\ \/ /\ msgId' = nextId
          /\ nextId' = nextId + 1
          /\ inflight' = inflight \cup
                {[id |-> nextId, dest |-> DestOf[req], req |-> req]}
          /\ pc' = "commit"
          /\ UNCHANGED verdict
       \/ /\ MayRefuse
          /\ pc' = "reject"
          /\ verdict' = [verdict EXCEPT ![req] = "REFUSED"]
          /\ UNCHANGED <<msgId, nextId, inflight>>
    /\ UNCHANGED <<slots, fresh, todo, req, slot, cb, outcomes>>

\* pyronet_ncp_pending_tx_release after a refused submit.
Release ==
    /\ pc = "reject"
    /\ slots' = [slots EXCEPT ![slot] = Free]
    /\ pc' = "failed"
    /\ UNCHANGED <<fresh, todo, req, slot, msgId, nextId, inflight, cb, outcomes, verdict>>

\* pyronet_ncp_pending_tx_commit: fails when a callback has emptied the slot.
Commit ==
    /\ pc = "commit"
    /\ IF Active(slot)
       THEN /\ slots' = [slots EXCEPT ![slot].msgId = msgId]
            /\ pc' = "sent"
       ELSE /\ pc' = "failed"
            /\ UNCHANGED slots
    /\ UNCHANGED <<fresh, todo, req, slot, msgId, nextId, inflight, cb, outcomes, verdict>>

\* The result event of pyronetNcpSendCoapRequest: SENT, SEND_REJECTED or TRACK_COMMIT.
ReportSend ==
    /\ \/ pc = "sent" /\ Report(req, "SENT")
       \/ pc = "failed" /\ Report(req, "FAILED")
    /\ Return
    /\ UNCHANGED <<slots, fresh, todo, nextId, inflight, cb, verdict>>

----------------------------------------------------------------------------
(* The stack thread.                                                       *)

\* Mutant: the fallback ignores the source address
MatchingAnyDestination(id, dest) ==
    LET byId == {s \in Slot : Active(s) /\ id # 0 /\ slots[s].msgId = id}
    IN  IF byId # {} THEN byId ELSE {s \in Slot : Active(s)}

\* The slot pyronet_ncp_pending_tx_match_and_consume picks: by message id,
\* else the first one in use with the same destination and port.
Matching(id, dest) ==
    LET byId == {s \in Slot : Active(s) /\ id # 0 /\ slots[s].msgId = id}
        byDest == {s \in Slot : Active(s) /\ slots[s].dest = dest}
    IN  IF byId # {} THEN byId ELSE byDest

\* Mutant: the slot is matched but not consumed
CallbackKeepsSlot(t, status) ==
    /\ cb = {}
    /\ t \in inflight
    /\ inflight' = inflight \ {t}
    /\ verdict' = [verdict EXCEPT ![t.req] = status]
    /\ \E id \in IF status = "TIMEOUT" THEN {0, t.id} ELSE {t.id} :
         LET m == Matching(id, t.dest) IN
         cb' = IF m = {} THEN {} ELSE {[req |-> slots[First(m)].req, status |-> status]}
    /\ UNCHANGED <<slots, fresh, todo, pc, req, slot, msgId, nextId, outcomes>>

\* pyronetNcpCoapResponseCallback up to the consumed slot.  A transaction that
\* timed out is reported with a NULL response, which carries no message id; an
\* answer (an acceptance or an error) carries the id of the request.
Callback(t, status) ==
    /\ cb = {}
    /\ t \in inflight
    /\ inflight' = inflight \ {t}
    /\ verdict' = [verdict EXCEPT ![t.req] = status]
    /\ \E id \in IF status = "TIMEOUT" THEN {0, t.id} ELSE {t.id} :
         LET m == Matching(id, t.dest) IN
         \/ /\ m # {}
            /\ cb' = {[req |-> slots[First(m)].req, status |-> status]}
            /\ slots' = [slots EXCEPT ![First(m)] = Free]
         \/ /\ m = {}
            /\ UNCHANGED <<slots, cb>>
    /\ UNCHANGED <<fresh, todo, pc, req, slot, msgId, nextId, outcomes>>

\* Mutant: only an acceptance is queued
ReportCallbackAckOnly ==
    /\ \E c \in cb : IF c.status = "ACKED" THEN Report(c.req, c.status)
                    ELSE UNCHANGED outcomes
    /\ cb' = {}
    /\ UNCHANGED <<slots, fresh, todo, pc, req, slot, msgId, nextId, inflight, verdict>>

\* The rest of the callback: the terminal result of the consumed slot is queued.
ReportCallback ==
    /\ \E c \in cb : Report(c.req, c.status)
    /\ cb' = {}
    /\ UNCHANGED <<slots, fresh, todo, pc, req, slot, msgId, nextId, inflight, verdict>>

----------------------------------------------------------------------------
MainStep ==
    \/ \E r \in todo : FailEarly(r) \/ Reserve(r) \/ SubmitPlain(r)
    \/ Submit \/ Release \/ Commit \/ ReportSend
Respond == \E t \in inflight, status \in Terminal : Callback(t, status)

Next == Command \/ MainStep \/ Respond \/ ReportCallback

Spec == Init /\ [][Next]_vars

\* The main loop keeps running, and the CoAP service answers or times out
\* every transaction it accepted (its retransmission timer is bounded).
FairSpec ==
    /\ Spec
    /\ WF_vars(MainStep)
    /\ WF_vars(Respond)
    /\ WF_vars(ReportCallback)
=============================================================================
