----------------------------- MODULE NcpTxProps -----------------------------
(***************************************************************************)
(* What the CoAP transmit path of the NCP must guarantee.                  *)
(***************************************************************************)
EXTENDS NcpTx

Occurrences(r, S) == Cardinality({i \in 1..Len(outcomes[r]) : outcomes[r][i] \in S})
Reported(r, status) == Occurrences(r, {status}) > 0

ActiveFor(d) == {s \in Slot : Active(s) /\ slots[s].dest = d}
InFlightFor(d) == {t \in inflight : t.dest = d}

\* The main thread holds a reservation for d that the service does not know of.
Reserving(d) == pc \in {"submit", "reject"} /\ DestOf[req] = d

(***************************************************************************)
(* No terminal result is thrown away as unmatched, whatever the order of   *)
(* reserve, submit, commit and callback: towards every destination there   *)
(* are at least as many slots in use as transactions the CoAP service will *)
(* still call back for, plus the reservation in the main thread's hands.   *)
(* (pyronet_ncp_pending_tx_match_and_consume finds a slot.)                *)
(***************************************************************************)
EveryResultMatches ==
    \A d \in Destination :
        Cardinality(ActiveFor(d)) >=
            Cardinality(InFlightFor(d)) + (IF Reserving(d) THEN 1 ELSE 0)

(***************************************************************************)
(* Nothing but a refused submit leaks a slot, and each leaks one at most:  *)
(* towards every destination no more slots are in use than transactions    *)
(* are still to be called back for, a reservation in hand and requests the *)
(* CoAP service ever refused.  A leak without such a bound fills the       *)
(* 32-entry table until every later confirmable send fails with            *)
(* TRACK_EXHAUSTED (pyronet_ncp_pending_tx_release and _commit).           *)
(***************************************************************************)
RefusedFor(d) == {r \in Confirmable : verdict[r] = "REFUSED" /\ DestOf[r] = d}

SlotBalance ==
    \A d \in Destination :
        Cardinality(ActiveFor(d)) <=
            Cardinality(InFlightFor(d)) + Cardinality(RefusedFor(d))
            + (IF pc = "submit" /\ DestOf[req] = d THEN 1 ELSE 0)

(***************************************************************************)
(* A confirmable request that reported SENT is never forgotten: it has     *)
(* reported its terminal result, or a slot or a running callback still     *)
(* holds it (tx.c: "any request that reports SENT is guaranteed to have a  *)
(* terminal ACKED/FAILED/TIMEOUT outcome").                                *)
(***************************************************************************)
SentIsTracked ==
    \A r \in Confirmable : Reported(r, "SENT") =>
        \/ \E status \in Terminal : Reported(r, status)
        \/ \E s \in Slot : Active(s) /\ slots[s].req = r
        \/ \E c \in cb : c.req = r

(***************************************************************************)
(* A request that reported SENT reports at most one terminal result,       *)
(* whatever the order of commit, callback and report.                      *)
(***************************************************************************)
SentEndsOnce ==
    \A r \in Confirmable : Reported(r, "SENT") => Occurrences(r, Terminal) <= 1

(***************************************************************************)
(* Matching by destination may hand a result to another request, but only  *)
(* among requests to the same destination: for each destination, as many   *)
(* ACKED (and TIMEOUT) results are reported as the CoAP service announced. *)
(***************************************************************************)
ResultsConserved ==
    \A d \in Destination, status \in {"ACKED", "TIMEOUT"} :
        LET to == {r \in Confirmable : DestOf[r] = d} IN
        Cardinality({r \in to : verdict[r] = status}) =
            Cardinality({r \in to : Reported(r, status)})
            + Cardinality({c \in cb : c.req \in to /\ c.status = status})

(***************************************************************************)
(* A confirmable request the host commanded eventually reports a terminal  *)
(* result, unless the CoAP service refuses a request to its destination    *)
(* (pyronetNcpSendCoapRequest, pyronetNcpCoapResponseCallback).            *)
(***************************************************************************)
EveryRequestEnds ==
    \A r \in Confirmable :
        (r \in todo) ~> \/ \E status \in Terminal : Reported(r, status)
                       \/ RefusedFor(DestOf[r]) # {}

(***************************************************************************)
(* The comment at the reservation in pyronetNcpSendCoapRequest: slots are  *)
(* reserved "so any request that reports SENT is guaranteed to have a      *)
(* terminal ACKED/FAILED/TIMEOUT outcome".  When nothing is under way any  *)
(* more, every request that reported SENT has had its outcome.             *)
(***************************************************************************)
SentHasOutcome ==
    (pc = "idle" /\ inflight = {} /\ cb = {}) =>
        \A r \in Confirmable : Reported(r, "SENT") =>
            \E status \in Terminal : Reported(r, status)
=============================================================================
