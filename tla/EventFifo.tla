----------------------------- MODULE EventFifo -----------------------------
(***************************************************************************)
(* What the NCP's event queue promises its callers: a bounded first-in     *)
(* first-out queue that gives up its oldest event for a new one, and holds *)
(* the request to register at most once, with its latest reason.           *)
(***************************************************************************)
EXTENDS Naturals, Sequences

CONSTANTS Capacity,      \* how many events it holds
          Event,         \* what can be queued
          Registration   \* the REGISTRATION_NEEDED events, one per reason

VARIABLES q,      \* the events, oldest first
          taken   \* the last event handed out, or the initial value

Pos == {i \in 1..Len(q) : q[i] \in Registration}

Init == q = <<>> /\ taken \notin Event

Put(e) == q' = Append(IF Len(q) = Capacity THEN Tail(q) ELSE q, e)

Push(e) == Put(e) /\ UNCHANGED taken

Register(e) ==
    /\ IF Pos = {} THEN Put(e) ELSE \E i \in Pos : q' = [q EXCEPT ![i] = e]
    /\ UNCHANGED taken

Take ==
    /\ q # <<>>
    /\ taken' = Head(q)
    /\ q' = Tail(q)

Next ==
    \/ \E e \in Event \ Registration : Push(e)
    \/ \E e \in Registration : Register(e)
    \/ Take

Spec == Init /\ [][Next]_<<q, taken>>
=============================================================================
