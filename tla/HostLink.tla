------------------------------ MODULE HostLink ------------------------------
(***************************************************************************)
(* The UART link of a sensor node: the MCU's end                           *)
(* (firmware/sensor_mcu/transport/host_link.c, with the start-up phases of *)
(* app.c), the NCP's end (firmware/sensor_ncp/host/host_link.c) and the    *)
(* frames between them, which arrive in order.  Every operation ends with  *)
(* what it gives to the wire; what a command or an event does is left to   *)
(* the module that extends this one.                                       *)
(***************************************************************************)
EXTENDS Naturals, Sequences, FiniteSets

CONSTANTS SeqMod,      \* sequence numbers are taken modulo 2^8
          MaxEarly,    \* bound: time-outs that fire although an answer is on its way
          MaxResets,   \* bound: resets of the MCU or the NCP
          NoRequest    \* request_active is false

ASSUME LinkAssumption ==
    /\ SeqMod \in Nat \ {0}
    /\ MaxEarly \in Nat
    /\ MaxResets \in Nat

VARIABLES link,         \* the MCU's state: waiting for HELLO_ACK, or ready
          phase,        \* app_phase; WAIT_LINK and RUN_PING both ping when ready
          nextSeq,      \* next_tx_seq of the MCU
          request,      \* the request that is waited for, and whether it is done
          ncpLink,      \* the NCP's state: waiting for HELLO, or ready
          syncPending,  \* session_sync_pending
          toNcp, toMcu, \* frames on the wire, oldest first
          unnoticed,    \* history: the NCP restarted and the MCU will not find out
          early, resets

mcuVars == <<link, phase, nextSeq, request>>
linkVars == <<mcuVars, ncpLink, syncPending, toNcp, toMcu, unnoticed, early,
              resets>>

Requests == {"PING", "GET_STATUS"}
Commands == {"HELLO", "SEND_REGISTRATION"} \cup Requests
Answers == {"HELLO_ACK", "PONG", "STATUS"}
Events == {"REGISTRATION_NEEDED"}
Frame(types) == [type : types, seq : 0..SeqMod - 1]

LinkTypeOK ==
    /\ link \in {"wait", "ready"}
    /\ phase \in {"ping", "status", "idle"}
    /\ nextSeq \in 0..SeqMod - 1
    /\ request \in [type : Requests, seq : 0..SeqMod - 1, done : BOOLEAN] \cup {NoRequest}
    /\ ncpLink \in {"wait", "ready"}
    /\ syncPending \in BOOLEAN
    /\ toNcp \in Seq(Frame(Commands))
    /\ toMcu \in Seq(Frame(Answers \cup Events))
    /\ unnoticed \in BOOLEAN
    /\ early \in 0..MaxEarly
    /\ resets \in 0..MaxResets

\* host_link_send_frame of the MCU with the next sequence number.
Send(type) ==
    /\ toNcp' = Append(toNcp, [type |-> type, seq |-> nextSeq])
    /\ nextSeq' = (nextSeq + 1) % SeqMod

Hello == Send("HELLO") /\ link' = "wait"

\* Both have been switched on; host_link_init has sent the first HELLO, which is
\* lost when the NCP's UART was not up yet.
LinkInit ==
    /\ link = "wait"
    /\ phase = "ping"
    /\ nextSeq = 1 % SeqMod
    /\ request = NoRequest
    /\ ncpLink = "wait"
    /\ syncPending = FALSE
    /\ toNcp \in {<<[type |-> "HELLO", seq |-> 0]>>, <<>>}
    /\ toMcu = <<>>
    /\ unnoticed = FALSE
    /\ early = 0
    /\ resets = 0

----------------------------------------------------------------------------
(* The MCU.                                                                *)

\* A deadline passes: because nothing is coming, or before it has come.
Deadline ==
    IF toNcp = <<>> /\ toMcu = <<>> THEN UNCHANGED early
    ELSE early < MaxEarly /\ early' = early + 1

\* host_link_poll: no HELLO_ACK in time.
HelloTimeout ==
    /\ link = "wait"
    /\ Deadline
    /\ Hello
    /\ UNCHANGED <<phase, request, ncpLink, syncPending, toMcu, unnoticed, resets>>

\* app_process_action with a ready link: the ping or status request goes out.
SendRequest ==
    /\ link = "ready" /\ request = NoRequest /\ phase # "idle"
    /\ LET type == IF phase = "ping" THEN "PING" ELSE "GET_STATUS" IN
       /\ Send(type)
       /\ request' = [type |-> type, seq |-> nextSeq, done |-> FALSE]
    /\ UNCHANGED <<link, phase, ncpLink, syncPending, toMcu, unnoticed, early,
                   resets>>

\* host_link_wait_for_response returns TRUE.
RequestDone ==
    /\ request # NoRequest /\ request.done
    /\ request' = NoRequest
    /\ phase' = IF request.type = "PING" THEN "status" ELSE "idle"
    /\ UNCHANGED <<link, nextSeq, ncpLink, syncPending, toNcp, toMcu, unnoticed,
                   early, resets>>

\* It returns FALSE: a ping restarts the handshake, a status request is sent
\* again by the next pass of the main loop.
RequestTimeout ==
    /\ request # NoRequest /\ ~request.done
    /\ Deadline
    /\ request' = NoRequest
    /\ IF request.type = "PING" THEN Hello ELSE UNCHANGED <<link, nextSeq, toNcp>>
    /\ UNCHANGED <<phase, ncpLink, syncPending, toMcu, unnoticed, resets>>

\* host_link_handle_frame for HELLO_ACK
HandleHelloAck ==
    /\ toMcu # <<>> /\ Head(toMcu).type = "HELLO_ACK"
    /\ toMcu' = Tail(toMcu)
    /\ IF link = "ready" THEN UNCHANGED <<link, request>>
       ELSE link' = "ready" /\ request' = NoRequest
    /\ UNCHANGED <<phase, nextSeq, ncpLink, syncPending, toNcp, unnoticed,
                   early, resets>>

\* A frame of that type is on the wire.
On(wire, type) == \E i \in DOMAIN wire : wire[i].type = type

\* host_link_handle_frame for PONG and STATUS: only the answer to the request
\* that is waited for counts.  (History: a PONG given before the NCP restarted,
\* taken for the answer, hides the restart from the MCU.)
HandleResponse ==
    /\ toMcu # <<>> /\ Head(toMcu).type \in {"PONG", "STATUS"}
    /\ toMcu' = Tail(toMcu)
    /\ LET f == Head(toMcu)
           expected == /\ link = "ready" /\ request # NoRequest
                       /\ ~request.done /\ f.seq = request.seq
                       /\ f.type = IF request.type = "PING" THEN "PONG" ELSE "STATUS"
           hides == expected /\ f.type = "PONG" /\ ncpLink = "wait" /\ ~On(toNcp, "HELLO")
       IN  /\ request' = IF expected THEN [request EXCEPT !.done = TRUE] ELSE request
           /\ unnoticed' = (unnoticed \/ hides)
    /\ UNCHANGED <<link, phase, nextSeq, ncpLink, syncPending, toNcp, early, resets>>

\* The MCU restarts: what it had received is gone, what is on the wire is not.
McuReset ==
    /\ resets < MaxResets
    /\ resets' = resets + 1
    /\ link' = "wait"
    /\ phase' = "ping"
    /\ request' = NoRequest
    /\ nextSeq' = 1 % SeqMod
    /\ toNcp' = Append(toNcp, [type |-> "HELLO", seq |-> 0])
    /\ toMcu' \in {toMcu, <<>>}
    /\ unnoticed' = FALSE
    /\ UNCHANGED <<ncpLink, syncPending, early>>

----------------------------------------------------------------------------
(* The NCP: hostLinkHandleFrame.                                           *)

Received(type) == toNcp # <<>> /\ Head(toNcp).type = type /\ toNcp' = Tail(toNcp)

Answer(type) == toMcu' = Append(toMcu, [type |-> type, seq |-> Head(toNcp).seq])

\* Mutant: a HELLO of a session that is already up needs no new synchronisation
HandleHelloOnce ==
    /\ Received("HELLO")
    /\ Answer("HELLO_ACK")
    /\ ncpLink' = "ready"
    /\ syncPending' = (syncPending \/ ncpLink # "ready")
    /\ UNCHANGED <<mcuVars, unnoticed, early, resets>>

\* hostLinkHandleHello
HandleHello ==
    /\ Received("HELLO")
    /\ Answer("HELLO_ACK")
    /\ ncpLink' = "ready"
    /\ syncPending' = TRUE
    /\ UNCHANGED <<mcuVars, unnoticed, early, resets>>

\* Before a HELLO every other frame is ignored.
Ignore ==
    /\ ncpLink # "ready"
    /\ \E type \in Commands \ {"HELLO"} : Received(type)
    /\ UNCHANGED <<mcuVars, ncpLink, syncPending, toMcu, unnoticed, early,
                   resets>>

\* hostLinkHandlePing
HandlePing ==
    /\ ncpLink = "ready"
    /\ Received("PING")
    /\ Answer("PONG")
    /\ UNCHANGED <<mcuVars, ncpLink, syncPending, unnoticed, early, resets>>

\* hostLinkHandleGetStatus up to pyronet_ncp_host_session_ready.
HandleGetStatus ==
    /\ ncpLink = "ready"
    /\ Received("GET_STATUS")
    /\ Answer("STATUS")
    /\ syncPending' = FALSE
    /\ UNCHANGED <<mcuVars, ncpLink, unnoticed, early, resets>>

\* host_link_init after a restart.  The MCU may find out while it still has to be
\* given a PONG; after that nothing makes it say HELLO again.
NcpLinkReset ==
    /\ resets < MaxResets
    /\ resets' = resets + 1
    /\ ncpLink' = "wait"
    /\ syncPending' = FALSE
    /\ toNcp' = <<>>
    /\ unnoticed' = ~(phase = "ping" /\ (request = NoRequest \/ ~request.done))
    /\ UNCHANGED <<mcuVars, toMcu, early>>

\* hostLinkDrainNcpEvents goes on, and sends an event.
MayDrain == ncpLink = "ready" /\ ~syncPending

SendEvent(type) ==
    /\ toMcu' = Append(toMcu, [type |-> type, seq |-> 0])
    /\ UNCHANGED <<mcuVars, ncpLink, syncPending, toNcp, unnoticed,
                   early, resets>>
=============================================================================
