----------------------------- MODULE NcpEvents -----------------------------
(***************************************************************************)
(* The ring buffer of events the NCP has for its host                      *)
(* (firmware/sensor_ncp/ncp/pyronet_ncp_events.c).  The stack thread (CoAP *)
(* callbacks, downlinks) and the main thread (polls, send results) queue   *)
(* events, the main thread's host link takes them.  Every operation holds  *)
(* the queue's mutex from its first read to its last write, so each is one *)
(* action.                                                                 *)
(***************************************************************************)
EXTENDS Naturals, Sequences

CONSTANTS QueueLen,      \* PYRONET_EVENT_QUEUE_LEN
          Event,         \* the events, message type and payload
          Registration,  \* those of type REGISTRATION_NEEDED, one per reason
          Zero           \* a cleared queue entry; nothing taken yet

ASSUME EventsAssumption ==
    /\ QueueLen \in Nat \ {0}
    /\ Registration \subseteq Event
    /\ Zero \notin Event

VARIABLES queue, head, tail, count,  \* pyronetNcpEventQueue
          taken,                     \* *out_event of the last pyronet_ncp_events_next
          reason                     \* history: the last registration event queued

ring == <<queue, head, tail, count>>
vars == <<queue, head, tail, count, taken, reason>>

Index == 0..QueueLen - 1

TypeOK ==
    /\ queue \in [Index -> Event \cup {Zero}]
    /\ head \in Index
    /\ tail \in Index
    /\ count \in 0..QueueLen
    /\ taken \in Event \cup {Zero}
    /\ reason \in Registration \cup {Zero}

\* pyronetNcpEventsReset
Init ==
    /\ queue = [i \in Index |-> Zero]
    /\ head = 0
    /\ tail = 0
    /\ count = 0
    /\ taken = Zero
    /\ reason = Zero

----------------------------------------------------------------------------
\* The ring position n places after i.
After(i, n) == (i + n) % QueueLen

Full == count >= QueueLen

\* Mutant: a full queue overwrites its oldest event but leaves head on it
PushKeepsHead(e) ==
    /\ queue' = [queue EXCEPT ![tail] = e]
    /\ tail' = After(tail, 1)
    /\ count' = IF Full THEN count ELSE count + 1
    /\ UNCHANGED head

\* Mutant: the dropped event is still counted
PushKeepsCount(e) ==
    /\ head' = IF Full THEN After(head, 1) ELSE head
    /\ queue' = [queue EXCEPT ![tail] = e]
    /\ tail' = After(tail, 1)
    /\ count' = count + 1

\* pyronetNcpEventsPushLocked: when full, the oldest event makes room.
PushLocked(e) ==
    /\ head' = IF Full THEN After(head, 1) ELSE head
    /\ queue' = [queue EXCEPT ![tail] = e]
    /\ tail' = After(tail, 1)
    /\ count' = IF Full THEN count ELSE count + 1

\* pyronetNcpEventsFindLocked(REGISTRATION_NEEDED): offsets from head.
Found == {n \in 0..count - 1 : queue[After(head, n)] \in Registration}

\* Mutant: an event that is already queued keeps its first reason
QueueRegistrationOnce(e) ==
    /\ reason' = e
    /\ IF Found # {} THEN UNCHANGED ring ELSE PushLocked(e)
    /\ UNCHANGED taken

\* pyronet_ncp_events_queue_registration_needed: the first one queued is
\* given the new reason where it stands.
QueueRegistration(e) ==
    /\ reason' = e
    /\ \/ /\ Found # {}
          /\ \E n \in Found :
               /\ \A m \in Found : n <= m
               /\ queue' = [queue EXCEPT ![After(head, n)] = e]
          /\ UNCHANGED <<head, tail, count>>
       \/ Found = {} /\ PushLocked(e)
    /\ UNCHANGED taken

\* Every other pyronet_ncp_events_queue_*.
Queue(e) == PushLocked(e) /\ UNCHANGED <<taken, reason>>

\* pyronet_ncp_events_next; an empty queue returns false and changes nothing.
NextEvent ==
    /\ count # 0
    /\ taken' = queue[head]
    /\ head' = After(head, 1)
    /\ count' = count - 1
    /\ UNCHANGED <<queue, tail, reason>>

Next ==
    \/ \E e \in Event \ Registration : Queue(e)
    \/ \E e \in Registration : QueueRegistration(e)
    \/ NextEvent

Spec == Init /\ [][Next]_vars

----------------------------------------------------------------------------
\* The events the ring holds, oldest first.
Contents == [i \in 1..count |-> queue[After(head, i - 1)]]

(***************************************************************************)
(* The ring is a bounded queue that drops its oldest event: indices,       *)
(* wrap-around, count and the in-place update of a queued registration     *)
(* request together behave as EventFifo says, from the caller's side too   *)
(* (what pyronet_ncp_events_next hands out).                               *)
(***************************************************************************)
Fifo == INSTANCE EventFifo WITH q <- Contents, Capacity <- QueueLen
ImplementsFifo == Fifo!Spec

(***************************************************************************)
(* However often a join and a host session ask for it, the host is told to *)
(* register at most once per drain, and with the latest reason: a queued   *)
(* REGISTRATION_NEEDED is unique and carries the last reason queued.       *)
(* (pyronet_ncp_events_queue_registration_needed.)                         *)
(***************************************************************************)
OneLatestRegistration ==
    \A m, n \in Found : m = n /\ queue[After(head, n)] = reason
=============================================================================
