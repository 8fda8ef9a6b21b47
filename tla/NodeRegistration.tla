-------------------------- MODULE NodeRegistration --------------------------
(***************************************************************************)
(* How a node comes to register: the NCP sees the mesh come up             *)
(* (firmware/sensor_ncp/ncp/pyronet_ncp_state.c), asks its host to         *)
(* register (pyronet_ncp.c, the event queue), the MCU answers with the     *)
(* registration command (firmware/sensor_mcu/app/app_boundary_tx.c), and   *)
(* the NCP submits it or keeps it until there is a route                   *)
(* (pyronet_ncp_tx.c).  pc is the place of the NCP's main thread in        *)
(* uartTransportRun; the stack thread reports the mesh status and queues   *)
(* events of its own at any time.                                          *)
(***************************************************************************)
EXTENDS HostLink

CONSTANTS Capacity,    \* PYRONET_EVENT_QUEUE_LEN
          MaxChanges,  \* bound: changes of the mesh status and the route
          MaxOther,    \* bound: other events of the stack thread
          MaxRefusals  \* bound: registrations the CoAP service refuses

ASSUME RegistrationAssumption ==
    /\ Capacity \in Nat \ {0}
    /\ MaxChanges \in Nat
    /\ MaxOther \in Nat
    /\ MaxRefusals \in Nat

VARIABLES network,        \* network_state
          everJoined,     \* ever_joined
          sessionJoined,  \* session_joined
          pendingJoin,    \* pending_join_ready
          required,       \* registration_required
          reason,         \* local: the reason to be queued
          mesh,           \* external: whether the last status reported was a connected one
          routed,         \* external: the stack has a router address
          events,         \* the event queue
          deferred,       \* pyronetNcpDeferredRegistration.valid
          pc,
          givenUp,        \* history: the request to register was dropped knowingly
          changes, other, refusals

stateVars == <<network, everJoined, sessionJoined, pendingJoin>>
stack == <<mesh, routed>>
bounds == <<changes, other, refusals>>
vars == <<linkVars, stateVars, required, reason, stack, events, deferred, pc,
          givenUp, bounds>>

Reasons == {"JOIN", "REJOIN"}
Event == Reasons \cup {"other"}

Queue == INSTANCE EventFifo WITH q <- events, taken <- NoRequest,
                                 Registration <- Reasons

TypeOK ==
    /\ LinkTypeOK
    /\ network \in {"DOWN", "JOINING", "JOINED"}
    /\ everJoined \in BOOLEAN
    /\ sessionJoined \in BOOLEAN
    /\ pendingJoin \in BOOLEAN
    /\ required \in BOOLEAN
    /\ reason \in Reasons
    /\ mesh \in BOOLEAN
    /\ routed \in BOOLEAN
    /\ events \in Seq(Event) /\ Len(events) <= Capacity
    /\ deferred \in BOOLEAN
    /\ pc \in {"connectivity", "joined", "queueJoin", "tx", "frames", "sync",
               "queueSync", "drain"}
    /\ givenUp \in BOOLEAN
    /\ changes \in 0..MaxChanges
    /\ other \in 0..MaxOther
    /\ refusals \in 0..MaxRefusals

\* pyronet_ncp_init is done.
Init ==
    /\ LinkInit
    /\ network = "JOINING"
    /\ everJoined = FALSE
    /\ sessionJoined = FALSE
    /\ pendingJoin = FALSE
    /\ required = FALSE
    /\ reason = "JOIN"
    /\ mesh = FALSE
    /\ routed = FALSE
    /\ events = <<>>
    /\ deferred = FALSE
    /\ pc = "connectivity"
    /\ givenUp = FALSE
    /\ changes = 0 /\ other = 0 /\ refusals = 0

\* The NCP restarts: nothing is kept.
NcpReset ==
    /\ NcpLinkReset
    /\ network' = "JOINING"
    /\ everJoined' = FALSE
    /\ sessionJoined' = FALSE
    /\ pendingJoin' = FALSE
    /\ required' = FALSE
    /\ reason' = "JOIN"
    /\ mesh' = FALSE
    /\ routed' = FALSE
    /\ events' = <<>>
    /\ deferred' = FALSE
    /\ pc' = "connectivity"
    /\ givenUp' = FALSE
    /\ UNCHANGED bounds

\* pyronet_ncp_state_read_router_address gives READY.
RouteReady == network # "DOWN" /\ routed

\* A full queue gives up its oldest event, which may be the request to register.
Drops == Len(events) = Capacity /\ Head(events) \in Reasons

\* Mutant: a full queue takes one more
PushUnbounded ==
    /\ events' = Append(events, "other")
    /\ UNCHANGED givenUp

PushOther ==
    /\ Queue!Put("other")
    /\ givenUp' = (givenUp \/ Drops)

----------------------------------------------------------------------------
(* The stack thread.                                                       *)

\* pyronet_ncp_state_handle_network_status
Connected ==
    /\ changes < MaxChanges /\ changes' = changes + 1
    /\ IF sessionJoined THEN network' = "JOINED" /\ UNCHANGED pendingJoin
       ELSE network' = "JOINING" /\ pendingJoin' = TRUE
    /\ mesh' = TRUE
    /\ UNCHANGED <<linkVars, everJoined, sessionJoined, required, reason, routed,
                   events, deferred, pc, givenUp, other, refusals>>

Interrupted ==
    /\ changes < MaxChanges /\ changes' = changes + 1
    /\ network' \in {"JOINING", "DOWN"}  \* bootstrap started; failed or disconnected
    /\ sessionJoined' = FALSE
    /\ pendingJoin' = FALSE
    /\ mesh' = FALSE
    /\ UNCHANGED <<linkVars, everJoined, required, reason, routed, events, deferred,
                   pc, givenUp, other, refusals>>

RouteChange ==
    /\ changes < MaxChanges /\ changes' = changes + 1
    /\ routed' = ~routed
    /\ UNCHANGED <<linkVars, stateVars, required, reason, mesh, events, deferred, pc,
                   givenUp, other, refusals>>

\* A downlink or the result of a request is queued.
OtherEvent ==
    /\ other < MaxOther /\ other' = other + 1
    /\ PushOther
    /\ UNCHANGED <<linkVars, stateVars, required, reason, stack, deferred, pc,
                   changes, refusals>>

----------------------------------------------------------------------------
(* The NCP's main thread: pyronet_ncp_poll.                                *)

\* pyronet_ncp_state_poll_connectivity up to the router address.
PollConnectivity ==
    /\ pc = "connectivity"
    /\ pc' = IF pendingJoin /\ ~sessionJoined /\ RouteReady THEN "joined" ELSE "tx"
    /\ UNCHANGED <<linkVars, stateVars, required, reason, stack, events, deferred,
                   givenUp, bounds>>

Needed ==
    /\ required' = TRUE
    /\ givenUp' = FALSE
    /\ reason' = IF everJoined THEN "REJOIN" ELSE "JOIN"

\* Mutant: what was read before the lock was released is taken for granted
SessionJoinedUnchecked ==
    /\ pc = "joined"
    /\ network' = "JOINED" /\ sessionJoined' = TRUE /\ pendingJoin' = FALSE
    /\ Needed
    /\ everJoined' = TRUE
    /\ pc' = "queueJoin"
    /\ UNCHANGED <<linkVars, stack, events, deferred, bounds>>

\* Its second critical section, which looks at the status again.
SessionJoined ==
    /\ pc = "joined"
    /\ \/ /\ pendingJoin /\ ~sessionJoined
          /\ network' = "JOINED" /\ sessionJoined' = TRUE /\ pendingJoin' = FALSE
          /\ Needed
          /\ everJoined' = TRUE
          /\ pc' = "queueJoin"
       \/ /\ ~(pendingJoin /\ ~sessionJoined)
          /\ pc' = "tx"
          /\ UNCHANGED <<stateVars, required, reason, givenUp>>
    /\ UNCHANGED <<linkVars, stack, events, deferred, bounds>>

\* pyronet_ncp_events_queue_registration_needed, for a join or for a session.
QueueRegistration ==
    /\ pc \in {"queueJoin", "queueSync"}
    /\ pc' = IF pc = "queueJoin" THEN "tx" ELSE "frames"
    /\ \/ Queue!Pos = {} /\ Queue!Put(reason)
       \/ \E i \in Queue!Pos : events' = [events EXCEPT ![i] = reason]
    /\ UNCHANGED <<linkVars, stateVars, required, reason, stack, deferred, givenUp,
                   bounds>>

\* pyronetNcpTrySendRegistration: deferred without a route; submitted; or
\* refused before or by the CoAP service, when a deferred one stays and any
\* other is gone.  A submit queues its result.
TrySendRegistration ==
    \/ /\ ~RouteReady
       /\ deferred' = TRUE
       /\ UNCHANGED <<required, events, givenUp, refusals>>
    \/ /\ RouteReady
       /\ deferred' = FALSE
       /\ required' = FALSE
       /\ PushOther
       /\ UNCHANGED refusals
    \/ /\ RouteReady
       /\ refusals < MaxRefusals /\ refusals' = refusals + 1
       /\ Queue!Put("other")
       /\ givenUp' = (givenUp \/ Drops \/ ~deferred)
       /\ UNCHANGED <<required, deferred>>

\* Mutant: a deferred registration waits for the next command
TxPollIdle ==
    /\ pc = "tx"
    /\ pc' = "frames"
    /\ UNCHANGED <<linkVars, stateVars, reason, stack, bounds, required, events,
                   deferred, givenUp>>

\* pyronet_ncp_tx_poll
TxPoll ==
    /\ pc = "tx"
    /\ pc' = "frames"
    /\ \/ deferred /\ RouteReady /\ TrySendRegistration
       \/ /\ ~(deferred /\ RouteReady)
          /\ UNCHANGED <<required, events, deferred, givenUp, refusals>>
    /\ UNCHANGED <<linkVars, stateVars, reason, stack, changes, other>>

----------------------------------------------------------------------------
(* The NCP's main thread: host_link_poll.                                  *)

\* hostLinkHandleFrame for a frame of the link itself.
HandleLinkFrame ==
    /\ pc = "frames"
    /\ HandleHello \/ Ignore \/ HandlePing
    /\ UNCHANGED <<stateVars, required, reason, stack, events, deferred, pc,
                   givenUp, bounds>>

\* Mutant: the session counts as synchronised only once the node has joined
StatusRequestJoined ==
    /\ pc = "frames" /\ ncpLink = "ready"
    /\ Received("GET_STATUS")
    /\ Answer("STATUS")
    /\ syncPending' = (syncPending /\ network # "JOINED")
    /\ pc' = IF syncPending /\ network = "JOINED" THEN "sync" ELSE "frames"
    /\ UNCHANGED <<mcuVars, ncpLink, unnoticed, early, resets, stateVars, required,
                   reason, stack, events, deferred, givenUp, bounds>>

\* hostLinkHandleGetStatus: the first one of a session synchronises it.
StatusRequest ==
    /\ pc = "frames"
    /\ HandleGetStatus
    /\ pc' = IF syncPending THEN "sync" ELSE "frames"
    /\ UNCHANGED <<stateVars, required, reason, stack, events, deferred, givenUp,
                   bounds>>

\* pyronet_ncp_state_request_registration_sync
RequestSync ==
    /\ pc = "sync"
    /\ \/ network = "JOINED" /\ Needed /\ pc' = "queueSync"
       \/ network # "JOINED" /\ pc' = "frames" /\ UNCHANGED <<required, reason, givenUp>>
    /\ UNCHANGED <<linkVars, stateVars, stack, events, deferred, bounds>>

\* hostLinkHandleSendRegistration
RegistrationCommand ==
    /\ pc = "frames" /\ ncpLink = "ready"
    /\ Received("SEND_REGISTRATION")
    /\ TrySendRegistration
    /\ UNCHANGED <<mcuVars, ncpLink, syncPending, toMcu, unnoticed, early, resets,
                   stateVars, reason, stack, pc, changes, other>>

\* No byte has come in; hostLinkDrainNcpEvents; the next pass.
GoOn ==
    /\ \/ pc = "frames" /\ pc' = "drain"
       \/ pc = "drain" /\ (events = <<>> \/ ~MayDrain) /\ pc' = "connectivity"
    /\ UNCHANGED <<linkVars, stateVars, required, reason, stack, events, deferred,
                   givenUp, bounds>>

\* One event: of the others the MCU's part is not in this module.
DrainEvent ==
    /\ pc = "drain" /\ MayDrain /\ events # <<>>
    /\ events' = Tail(events)
    /\ IF Head(events) \in Reasons THEN SendEvent("REGISTRATION_NEEDED")
       ELSE UNCHANGED linkVars
    /\ UNCHANGED <<stateVars, required, reason, stack, deferred, pc, givenUp, bounds>>

----------------------------------------------------------------------------
(* The MCU.                                                                *)

\* app_handle_registration_needed, in any state of the link: a registration
\* that cannot be sent is not kept.
RegistrationNeeded ==
    /\ toMcu # <<>> /\ Head(toMcu).type = "REGISTRATION_NEEDED"
    /\ toMcu' = Tail(toMcu)
    /\ IF link = "ready" THEN Send("SEND_REGISTRATION") ELSE UNCHANGED <<toNcp, nextSeq>>
    /\ UNCHANGED <<link, phase, request, ncpLink, syncPending, unnoticed, early,
                   resets>>

McuReceive == HandleHelloAck \/ HandleResponse \/ RegistrationNeeded
McuRequest == SendRequest \/ RequestDone
McuTimeout == HelloTimeout \/ RequestTimeout

McuStep ==
    /\ McuReceive \/ McuRequest \/ McuTimeout \/ McuReset
    /\ UNCHANGED <<stateVars, required, reason, stack, events, deferred, pc,
                   givenUp, bounds>>

----------------------------------------------------------------------------
StackStep == Connected \/ Interrupted \/ RouteChange \/ OtherEvent

Receive == HandleLinkFrame \/ StatusRequest \/ RegistrationCommand

NcpStep ==
    \/ PollConnectivity \/ SessionJoined \/ QueueRegistration \/ TxPoll
    \/ Receive \/ RequestSync \/ GoOn \/ DrainEvent

Next == StackStep \/ NcpStep \/ McuStep \/ NcpReset

Spec == Init /\ [][Next]_vars

\* Both main loops go on for ever, deadlines pass, and what is on the wire is
\* read in one of the NCP's passes.
FairSpec ==
    /\ Spec
    /\ WF_vars(NcpStep)
    /\ SF_vars(Receive)
    /\ WF_vars(McuReceive /\ McuStep)
    /\ WF_vars(McuRequest /\ McuStep)
    /\ WF_vars(McuTimeout /\ McuStep)

----------------------------------------------------------------------------
\* The session will be synchronised, and then the host be asked again.
SyncComing ==
    link = "wait" \/ syncPending \/ On(toNcp, "HELLO") \/ pc \in {"sync", "queueSync"}

(***************************************************************************)
(* A node that must register is on its way to it: the request is queued,   *)
(* on the wire, answered by a command or deferred, or it will be made anew *)
(* when the session is synchronised or the mesh joined.  Only the CoAP     *)
(* service's refusal and a full event queue may end it, whatever order     *)
(* handshakes, MCU resets, time-outs and mesh changes come in.             *)
(***************************************************************************)
RequiredIsPursued ==
    (required /\ ~givenUp) =>
        \/ ~sessionJoined \/ SyncComing \/ pc = "queueJoin"
        \/ \E i \in DOMAIN events : events[i] \in Reasons
        \/ On(toMcu, "REGISTRATION_NEEDED") \/ On(toNcp, "SEND_REGISTRATION")
        \/ deferred

(***************************************************************************)
(* The NCP says JOINED, and counts on the host having been asked, only     *)
(* while the last status the stack reported is a connected one, although   *)
(* the stack thread may report the end of a connection between the main    *)
(* thread's two critical sections.                                         *)
(***************************************************************************)
JoinedIsConnected ==
    /\ sessionJoined <=> network = "JOINED"
    /\ sessionJoined \/ pendingJoin => mesh

(***************************************************************************)
(* When the MCU has gone through its start-up (it will say no more HELLO   *)
(* and ask for no status), the NCP does not hold its events back for a     *)
(* status request that will never come.                                    *)
(***************************************************************************)
StartedIsSynced ==
    (phase = "idle" /\ ~unnoticed) =>
        \/ ncpLink = "ready" /\ ~syncPending
        \/ On(toNcp, "GET_STATUS")

(***************************************************************************)
(* Once the node stays joined with a route, a registration that is needed  *)
(* is submitted, unless it was refused or pushed out of the event queue.   *)
(***************************************************************************)
Registers ==
    <>[](sessionJoined /\ routed /\ ~givenUp /\ ~unnoticed) => <>[]~required
=============================================================================
