----------------------- MODULE NodeRegistrationProofs -----------------------
(***************************************************************************)
(* A node that has to register is on its way to it, and a MCU that has     *)
(* gone through its start-up is heard, for every length of the event queue *)
(* and every number of resets, early time-outs, mesh changes, events and   *)
(* refusals.                                                               *)
(***************************************************************************)
EXTENDS NodeRegistration, TLAPS, SequenceTheorems

USE LinkAssumption, RegistrationAssumption DEF LinkAssumption, RegistrationAssumption

Queued(s) == \E i \in DOMAIN s : s[i] \in Reasons

\* Behind every status request on the wire there is a HELLO.
Trails(wire) ==
    \A i \in DOMAIN wire : wire[i].type = "GET_STATUS" =>
        \E j \in DOMAIN wire : j > i /\ wire[j].type = "HELLO"

\* Only a session that is up is waiting for its synchronisation, or in it.
SyncInSession ==
    /\ syncPending => ncpLink = "ready"
    /\ pc \in {"sync", "queueSync"} => ncpLink = "ready"

\* While the MCU waits for HELLO_ACK the session is not synchronised behind its
\* back: an old HELLO_ACK that makes it ready leaves a synchronisation to come.
HelloFollows ==
    link = "wait" =>
        /\ Trails(toNcp)
        /\ ncpLink = "wait" \/ syncPending \/ On(toNcp, "HELLO")

\* Before the first HELLO no request to register leaves the queue.
UnheardIsQueued ==
    (ncpLink = "wait" /\ required /\ sessionJoined /\ ~givenUp) =>
        pc = "queueJoin" \/ Queued(events)

IInv ==
    /\ TypeOK
    /\ JoinedIsConnected
    /\ SyncInSession
    /\ HelloFollows
    /\ UnheardIsQueued
    /\ RequiredIsPursued

----------------------------------------------------------------------------
(* Wires and queues.                                                       *)

LEMMA OnHead ==
    ASSUME NEW S, NEW s \in Seq(S), s # <<>>, NEW t
    PROVE  On(s, t) <=> Head(s).type = t \/ On(Tail(s), t)
<1>1. /\ Len(s) \in Nat \ {0} /\ DOMAIN s = 1..Len(s) /\ Head(s) = s[1]
      /\ DOMAIN Tail(s) = 1..Len(s) - 1
      /\ \A i \in 1..Len(s) - 1 : Tail(s)[i] = s[i + 1]
  BY HeadTailProperties, EmptySeq, LenProperties
<1>2. ASSUME On(s, t), Head(s).type # t PROVE On(Tail(s), t)
  <2>1. PICK i \in 1..Len(s) : s[i].type = t
    BY <1>1, <1>2 DEF On
  <2>2. i - 1 \in 1..Len(s) - 1 /\ (i - 1) + 1 = i
    BY <1>1, <1>2, <2>1
  <2> QED BY <1>1, <2>1, <2>2 DEF On
<1>3. ASSUME On(Tail(s), t) PROVE On(s, t)
  <2>1. PICK i \in 1..Len(s) - 1 : s[i + 1].type = t
    BY <1>1, <1>3 DEF On
  <2>2. i + 1 \in 1..Len(s)
    BY <1>1
  <2> QED BY <1>1, <2>1, <2>2 DEF On
<1>4. Head(s).type = t => On(s, t)
  BY <1>1 DEF On
<1> QED BY <1>2, <1>3, <1>4

LEMMA OnAppend ==
    ASSUME NEW S, NEW s \in Seq(S), NEW e, NEW t
    PROVE  On(Append(s, e), t) <=> On(s, t) \/ e.type = t
<1>1. /\ Len(s) \in Nat /\ DOMAIN s = 1..Len(s)
      /\ DOMAIN Append(s, e) = 1..Len(s) + 1
      /\ \A i \in 1..Len(s) : Append(s, e)[i] = s[i]
      /\ Append(s, e)[Len(s) + 1] = e
  OBVIOUS
<1> QED BY <1>1 DEF On

LEMMA TrailsTail ==
    ASSUME NEW S, NEW s \in Seq(S), s # <<>>, Trails(s)
    PROVE  /\ Trails(Tail(s))
           /\ Head(s).type = "GET_STATUS" => On(Tail(s), "HELLO")
<1>1. /\ Len(s) \in Nat \ {0} /\ DOMAIN s = 1..Len(s) /\ Head(s) = s[1]
      /\ DOMAIN Tail(s) = 1..Len(s) - 1
      /\ \A i \in 1..Len(s) - 1 : Tail(s)[i] = s[i + 1]
  BY HeadTailProperties, EmptySeq, LenProperties
<1>2. ASSUME NEW i \in 1..Len(s) - 1, Tail(s)[i].type = "GET_STATUS"
      PROVE  \E j \in 1..Len(s) - 1 : j > i /\ Tail(s)[j].type = "HELLO"
  <2>1. i + 1 \in 1..Len(s) /\ s[i + 1].type = "GET_STATUS"
    BY <1>1, <1>2
  <2>2. PICK k \in 1..Len(s) : k > i + 1 /\ s[k].type = "HELLO"
    BY <1>1, <2>1 DEF Trails
  <2>3. k - 1 \in 1..Len(s) - 1 /\ k - 1 > i /\ (k - 1) + 1 = k
    BY <1>1, <2>2
  <2> QED BY <1>1, <2>2, <2>3
<1>3. ASSUME Head(s).type = "GET_STATUS" PROVE On(Tail(s), "HELLO")
  <2>1. PICK k \in 1..Len(s) : k > 1 /\ s[k].type = "HELLO"
    BY <1>1, <1>3 DEF Trails
  <2>2. k - 1 \in 1..Len(s) - 1 /\ (k - 1) + 1 = k
    BY <1>1, <2>1
  <2> QED BY <1>1, <2>1, <2>2 DEF On
<1> QED BY <1>1, <1>2, <1>3 DEF Trails

LEMMA TrailsHello ==
    ASSUME NEW S, NEW s \in Seq(S), NEW e, e.type = "HELLO"
    PROVE  Trails(Append(s, e))
<1>1. /\ Len(s) \in Nat
      /\ DOMAIN Append(s, e) = 1..Len(s) + 1
      /\ Append(s, e)[Len(s) + 1] = e
  OBVIOUS
<1>2. ASSUME NEW i \in 1..Len(s) + 1, Append(s, e)[i].type = "GET_STATUS"
      PROVE  Len(s) + 1 > i /\ Len(s) + 1 \in 1..Len(s) + 1
  BY <1>1, <1>2
<1> QED BY <1>1, <1>2 DEF Trails

\* What is put into the queue leaves it a queue, and drops at most its head.
LEMMA PutQueue ==
    ASSUME events \in Seq(Event), Len(events) <= Capacity, NEW e \in Event, Queue!Put(e)
    PROVE  /\ events' \in Seq(Event) /\ Len(events') <= Capacity
           /\ e \in Reasons => Queued(events')
           /\ Queued(events) /\ ~Drops => Queued(events')
<1>1. Len(events) \in Nat /\ DOMAIN events = 1..Len(events)
  OBVIOUS
<1>2. CASE Len(events) # Capacity
  <2>1. events' = Append(events, e)
    BY <1>2 DEF Queue!Put
  <2>2. /\ DOMAIN events' = 1..Len(events) + 1 /\ Len(events') = Len(events) + 1
        /\ \A i \in 1..Len(events) : events'[i] = events[i]
        /\ events'[Len(events) + 1] = e
        /\ events' \in Seq(Event)
    BY <2>1
  <2>3. e \in Reasons => Queued(events')
    BY <1>1, <2>2 DEF Queued
  <2>4. ASSUME Queued(events) PROVE Queued(events')
    <3>1. PICK i \in 1..Len(events) : events[i] \in Reasons
      BY <1>1, <2>4 DEF Queued
    <3>2. i \in 1..Len(events) + 1
      BY <1>1
    <3> QED BY <2>2, <3>1, <3>2 DEF Queued
  <2>5. Len(events') <= Capacity
    <3>1. Len(events') = Len(events) + 1 /\ Len(events) \in Nat /\ Capacity \in Nat
      BY <1>1, <2>2
    <3>2. Len(events) < Capacity
      BY <1>2, <3>1
    <3> QED BY <3>1, <3>2
  <2> QED BY <2>2, <2>3, <2>4, <2>5
<1>3. CASE Len(events) = Capacity
  <2> DEFINE t == Tail(events)
  <2>1. events' = Append(t, e)
    BY <1>3 DEF Queue!Put
  <2>2. events # <<>>
    BY <1>3, EmptySeq
  <2>3. /\ t \in Seq(Event) /\ Len(t) = Len(events) - 1 /\ Head(events) = events[1]
        /\ \A i \in 1..Len(events) - 1 : t[i] = events[i + 1]
    BY <2>2, HeadTailProperties, EmptySeq, LenProperties
  <2> HIDE DEF t
  <2>4. /\ DOMAIN events' = 1..Len(t) + 1 /\ Len(events') = Len(t) + 1
        /\ \A i \in 1..Len(t) : events'[i] = t[i]
        /\ events'[Len(t) + 1] = e
        /\ events' \in Seq(Event)
    BY <2>1, <2>3
  <2>5. e \in Reasons => Queued(events')
    BY <2>3, <2>4, <1>1, <1>3 DEF Queued
  <2>6. ASSUME Queued(events), ~Drops PROVE Queued(events')
    <3>1. PICK i \in 1..Len(events) : events[i] \in Reasons
      BY <1>1, <2>6 DEF Queued
    <3>2. i # 1
      BY <1>3, <2>3, <2>6, <3>1 DEF Drops
    <3>3. i - 1 \in 1..Len(t) /\ (i - 1) + 1 = i /\ i - 1 \in 1..Len(events) - 1
      BY <1>1, <2>3, <3>1, <3>2
    <3>4. t[i - 1] = events[i] /\ i - 1 \in DOMAIN events' /\ events'[i - 1] = t[i - 1]
      BY <2>3, <2>4, <3>3
    <3> QED BY <3>1, <3>4 DEF Queued
  <2>7. Len(events') <= Capacity
    BY <1>1, <1>3, <2>3, <2>4
  <2> QED BY <2>4, <2>5, <2>6, <2>7
<1> QED BY <1>2, <1>3

LEMMA UpdateQueue ==
    ASSUME events \in Seq(Event), Len(events) <= Capacity, NEW e \in Reasons,
           NEW i \in Queue!Pos, events' = [events EXCEPT ![i] = e]
    PROVE  events' \in Seq(Event) /\ Len(events') <= Capacity /\ Queued(events')
<1>1. Len(events) \in Nat /\ DOMAIN events = 1..Len(events) /\ i \in 1..Len(events)
      /\ e \in Event
  BY DEF Queue!Pos, Event
<1>2. /\ events' \in Seq(Event) /\ Len(events') = Len(events)
      /\ DOMAIN events' = 1..Len(events) /\ events'[i] = e
  BY <1>1, ExceptSeq
<1> QED BY <1>1, <1>2 DEF Queued

LEMMA QueuedTail ==
    ASSUME events \in Seq(Event), events # <<>>, Head(events) \notin Reasons, Queued(events)
    PROVE  Queued(Tail(events))
<1>1. /\ Len(events) \in Nat \ {0} /\ DOMAIN events = 1..Len(events)
      /\ Head(events) = events[1]
      /\ DOMAIN Tail(events) = 1..Len(events) - 1
      /\ \A i \in 1..Len(events) - 1 : Tail(events)[i] = events[i + 1]
  BY HeadTailProperties, EmptySeq, LenProperties
<1>2. PICK i \in 1..Len(events) : events[i] \in Reasons
  BY <1>1 DEF Queued
<1>3. i - 1 \in 1..Len(events) - 1 /\ (i - 1) + 1 = i
  BY <1>1, <1>2
<1> QED BY <1>1, <1>2, <1>3 DEF Queued

----------------------------------------------------------------------------
(* Types.                                                                  *)

LEMMA SendTypes ==
    ASSUME LinkTypeOK, NEW type \in Commands, Send(type)
    PROVE  toNcp' \in Seq(Frame(Commands)) /\ nextSeq' \in 0..SeqMod - 1
<1>1. \A n \in Nat : n % SeqMod \in 0..SeqMod - 1
  OBVIOUS
<1>2. nextSeq \in 0..SeqMod - 1 /\ nextSeq + 1 \in Nat
  BY DEF LinkTypeOK
<1>3. [type |-> type, seq |-> nextSeq] \in Frame(Commands)
  BY <1>2 DEF Frame
<1>4. toNcp \in Seq(Frame(Commands))
  BY DEF LinkTypeOK
<1>5. toNcp' \in Seq(Frame(Commands))
  BY <1>3, <1>4 DEF Send
<1>6. nextSeq' \in 0..SeqMod - 1
  BY <1>1, <1>2 DEF Send
<1> QED BY <1>5, <1>6

LEMMA ReceivedTypes ==
    ASSUME LinkTypeOK, NEW type, Received(type)
    PROVE  /\ toNcp # <<>> /\ Head(toNcp).type = type /\ toNcp' = Tail(toNcp)
           /\ toNcp' \in Seq(Frame(Commands))
           /\ Head(toNcp).seq \in 0..SeqMod - 1
<1>1. toNcp # <<>> /\ toNcp \in Seq(Frame(Commands)) /\ toNcp' = Tail(toNcp)
  BY DEF LinkTypeOK, Received
<1>2. Head(toNcp) \in Frame(Commands) /\ Tail(toNcp) \in Seq(Frame(Commands))
  BY <1>1, HeadTailProperties
<1> QED BY <1>1, <1>2 DEF Frame, Received

LEMMA AnswerTypes ==
    ASSUME LinkTypeOK, NEW type, Received(type), NEW answer \in Answers, Answer(answer)
    PROVE  toMcu' \in Seq(Frame(Answers \cup Events))
<1>1. [type |-> answer, seq |-> Head(toNcp).seq] \in Frame(Answers \cup Events)
  BY ReceivedTypes DEF Frame
<1>2. toMcu \in Seq(Frame(Answers \cup Events))
  BY DEF LinkTypeOK
<1> QED BY <1>1, <1>2 DEF Answer

LEMMA SendEventTypes ==
    ASSUME LinkTypeOK, NEW type \in Events, SendEvent(type)
    PROVE  LinkTypeOK'
<1>1. [type |-> type, seq |-> 0] \in Frame(Answers \cup Events)
  BY DEF Frame
<1>2. toMcu' \in Seq(Frame(Answers \cup Events))
  BY <1>1 DEF LinkTypeOK, SendEvent
<1> QED BY <1>2 DEF LinkTypeOK, SendEvent, mcuVars

\* The MCU takes a frame.
LEMMA TakenTypes ==
    ASSUME LinkTypeOK, toMcu # <<>>
    PROVE  Tail(toMcu) \in Seq(Frame(Answers \cup Events))
BY HeadTailProperties DEF LinkTypeOK

LEMMA LinkStepTypes ==
    ASSUME LinkTypeOK,
           \/ McuReceive \/ McuRequest \/ McuTimeout \/ McuReset
           \/ HandleHello \/ Ignore \/ HandlePing \/ HandleGetStatus \/ NcpLinkReset
    PROVE  LinkTypeOK'
<1> USE DEF LinkTypeOK, mcuVars
<1>1. Deadline => early' \in 0..MaxEarly
  BY DEF Deadline
<1>2. resets < MaxResets => resets + 1 \in 0..MaxResets
  OBVIOUS
<1>3. Hello => /\ toNcp' \in Seq(Frame(Commands))
               /\ nextSeq' \in 0..SeqMod - 1 /\ link' = "wait"
  BY SendTypes DEF Hello, Commands
<1>4. CASE HandleHelloAck
  BY <1>4, TakenTypes DEF HandleHelloAck
<1>5. CASE HandleResponse
  <2>1. toMcu' \in Seq(Frame(Answers \cup Events))
    BY <1>5, TakenTypes DEF HandleResponse
  <2>2. request' \in [type : Requests, seq : 0..SeqMod - 1, done : BOOLEAN] \cup {NoRequest}
    <3>1. request' = request \/ (request # NoRequest /\ request' = [request EXCEPT !.done = TRUE])
      BY <1>5 DEF HandleResponse
    <3> QED BY <3>1
  <2> QED BY <1>5, <2>1, <2>2 DEF HandleResponse
<1>6. CASE RegistrationNeeded
  <2>1. toMcu' \in Seq(Frame(Answers \cup Events))
    BY <1>6, TakenTypes DEF RegistrationNeeded
  <2>2. toNcp' \in Seq(Frame(Commands)) /\ nextSeq' \in 0..SeqMod - 1
    BY <1>6, SendTypes DEF RegistrationNeeded, Commands
  <2> QED BY <1>6, <2>1, <2>2 DEF RegistrationNeeded
<1>7. CASE SendRequest
  <2> DEFINE type == IF phase = "ping" THEN "PING" ELSE "GET_STATUS"
  <2>1. type \in Requests /\ type \in Commands
    BY DEF Requests, Commands
  <2>2. Send(type) /\ request' = [type |-> type, seq |-> nextSeq, done |-> FALSE]
    BY <1>7 DEF SendRequest
  <2> HIDE DEF type
  <2>3. toNcp' \in Seq(Frame(Commands)) /\ nextSeq' \in 0..SeqMod - 1
    BY <2>1, <2>2, SendTypes
  <2>4. request' \in [type : Requests, seq : 0..SeqMod - 1, done : BOOLEAN]
    BY <2>1, <2>2
  <2> QED BY <1>7, <2>3, <2>4 DEF SendRequest
<1>8. CASE RequestDone
  BY <1>8 DEF RequestDone
<1>9. CASE HelloTimeout
  BY <1>1, <1>3, <1>9 DEF HelloTimeout
<1>10. CASE RequestTimeout
  <2>1. toNcp' \in Seq(Frame(Commands)) /\ nextSeq' \in 0..SeqMod - 1 /\ link' \in {"wait", "ready"}
    BY <1>3, <1>10 DEF RequestTimeout
  <2> QED BY <1>1, <1>10, <2>1 DEF RequestTimeout
<1>11. CASE McuReset
  <2>1. [type |-> "HELLO", seq |-> 0] \in Frame(Commands)
    BY DEF Frame, Commands
  <2>2. toNcp' \in Seq(Frame(Commands)) /\ toMcu' \in Seq(Frame(Answers \cup Events))
    <3>1. toNcp' = Append(toNcp, [type |-> "HELLO", seq |-> 0]) /\ toMcu' \in {toMcu, <<>>}
      BY <1>11 DEF McuReset
    <3>2. toNcp' \in Seq(Frame(Commands))
      BY <2>1, <3>1
    <3>3. toMcu' \in Seq(Frame(Answers \cup Events))
      BY <3>1, EmptySeq
    <3> QED BY <3>2, <3>3
  <2>3. 1 % SeqMod \in 0..SeqMod - 1
    OBVIOUS
  <2> QED BY <1>2, <1>11, <2>2, <2>3 DEF McuReset
<1>12. CASE HandleHello
  <2>1. toNcp' \in Seq(Frame(Commands)) /\ toMcu' \in Seq(Frame(Answers \cup Events))
    BY <1>12, ReceivedTypes, AnswerTypes DEF HandleHello, Answers
  <2> QED BY <1>12, <2>1 DEF HandleHello
<1>13. CASE Ignore
  <2>1. toNcp' \in Seq(Frame(Commands))
    BY <1>13, ReceivedTypes DEF Ignore
  <2> QED BY <1>13, <2>1 DEF Ignore
<1>14. CASE HandlePing
  <2>1. toNcp' \in Seq(Frame(Commands)) /\ toMcu' \in Seq(Frame(Answers \cup Events))
    BY <1>14, ReceivedTypes, AnswerTypes DEF HandlePing, Answers
  <2> QED BY <1>14, <2>1 DEF HandlePing
<1>15. CASE HandleGetStatus
  <2>1. toNcp' \in Seq(Frame(Commands)) /\ toMcu' \in Seq(Frame(Answers \cup Events))
    BY <1>15, ReceivedTypes, AnswerTypes DEF HandleGetStatus, Answers
  <2> QED BY <1>15, <2>1 DEF HandleGetStatus
<1>16. CASE NcpLinkReset
  <2>1. toNcp' \in Seq(Frame(Commands))
    BY <1>16, EmptySeq DEF NcpLinkReset
  <2>2. unnoticed' \in BOOLEAN
    BY <1>16 DEF NcpLinkReset
  <2> QED BY <1>2, <1>16, <2>1, <2>2 DEF NcpLinkReset
<1> QED BY <1>4, <1>5, <1>6, <1>7, <1>8, <1>9, <1>10, <1>11, <1>12, <1>13, <1>14,
           <1>15, <1>16 DEF McuReceive, McuRequest, McuTimeout

\* The event queue and what a try to register leaves.
LEMMA PutOther ==
    ASSUME TypeOK, Queue!Put("other")
    PROVE  /\ events' \in Seq(Event) /\ Len(events') <= Capacity
           /\ Queued(events) /\ ~Drops => Queued(events')
BY PutQueue DEF TypeOK, Event

LEMMA TryTypes ==
    ASSUME TypeOK, TrySendRegistration
    PROVE  /\ deferred' \in BOOLEAN /\ required' \in BOOLEAN /\ givenUp' \in BOOLEAN
           /\ events' \in Seq(Event) /\ Len(events') <= Capacity
           /\ refusals' \in 0..MaxRefusals
<1>1. /\ deferred \in BOOLEAN /\ required \in BOOLEAN /\ givenUp \in BOOLEAN
      /\ events \in Seq(Event) /\ Len(events) <= Capacity
      /\ refusals \in 0..MaxRefusals
  BY DEF TypeOK
<1>2. refusals < MaxRefusals => refusals + 1 \in 0..MaxRefusals
  BY <1>1
<1> QED BY <1>1, <1>2, PutOther DEF TrySendRegistration, PushOther

LEMMA TypeStep ==
    ASSUME TypeOK, [Next]_vars
    PROVE  TypeOK'
<1>1. LinkTypeOK
  BY DEF TypeOK
<1>2. UNCHANGED linkVars => LinkTypeOK'
  BY <1>1 DEF LinkTypeOK, linkVars, mcuVars
<1>3. changes < MaxChanges => changes + 1 \in 0..MaxChanges
  BY DEF TypeOK
<1>4. CASE Connected
  BY <1>2, <1>3, <1>4 DEF Connected, TypeOK
<1>5. CASE Interrupted
  BY <1>2, <1>3, <1>5 DEF Interrupted, TypeOK
<1>6. CASE RouteChange
  BY <1>2, <1>3, <1>6 DEF RouteChange, TypeOK, stateVars
<1>7. CASE OtherEvent
  <2>1. other + 1 \in 0..MaxOther
    BY <1>7 DEF OtherEvent, TypeOK
  <2>2. /\ events' \in Seq(Event) /\ Len(events') <= Capacity
        /\ givenUp' \in BOOLEAN
    BY <1>7, PutOther DEF OtherEvent, PushOther, TypeOK
  <2> QED BY <1>2, <1>7, <2>1, <2>2 DEF OtherEvent, TypeOK, stateVars, stack
<1>8. CASE PollConnectivity
  BY <1>2, <1>8 DEF PollConnectivity, TypeOK, stateVars, stack, bounds
<1>9. CASE SessionJoined
  BY <1>2, <1>9 DEF SessionJoined, Needed, TypeOK, stateVars, stack, bounds, Reasons
<1>10. CASE QueueRegistration
  <2>1. reason \in Reasons /\ reason \in Event /\ events \in Seq(Event) /\ Len(events) <= Capacity
    BY DEF TypeOK, Event
  <2>2. events' \in Seq(Event) /\ Len(events') <= Capacity
    BY <1>10, <2>1, PutQueue, UpdateQueue DEF QueueRegistration
  <2> QED BY <1>2, <1>10, <2>2 DEF QueueRegistration, TypeOK, stateVars, stack, bounds
<1>11. CASE TxPoll
  <2>1. /\ deferred' \in BOOLEAN /\ required' \in BOOLEAN /\ givenUp' \in BOOLEAN
        /\ events' \in Seq(Event) /\ Len(events') <= Capacity
        /\ refusals' \in 0..MaxRefusals
    BY <1>11, TryTypes DEF TxPoll, TypeOK
  <2> QED BY <1>2, <1>11, <2>1 DEF TxPoll, TypeOK, stateVars, stack
<1>12. CASE HandleLinkFrame
  <2>1. LinkTypeOK'
    BY <1>1, <1>12, LinkStepTypes DEF HandleLinkFrame
  <2> QED BY <1>12, <2>1 DEF HandleLinkFrame, TypeOK, stateVars, stack, bounds
<1>13. CASE StatusRequest
  <2>1. LinkTypeOK'
    BY <1>1, <1>13, LinkStepTypes DEF StatusRequest
  <2> QED BY <1>13, <2>1 DEF StatusRequest, TypeOK, stateVars, stack, bounds
<1>14. CASE RegistrationCommand
  <2>1. toNcp' \in Seq(Frame(Commands))
    BY <1>1, <1>14, ReceivedTypes DEF RegistrationCommand
  <2>2. LinkTypeOK'
    BY <1>1, <1>14, <2>1 DEF RegistrationCommand, LinkTypeOK, mcuVars
  <2>3. /\ deferred' \in BOOLEAN /\ required' \in BOOLEAN /\ givenUp' \in BOOLEAN
        /\ events' \in Seq(Event) /\ Len(events') <= Capacity
        /\ refusals' \in 0..MaxRefusals
    BY <1>14, TryTypes DEF RegistrationCommand
  <2> QED BY <1>14, <2>2, <2>3 DEF RegistrationCommand, TypeOK, stateVars, stack
<1>15. CASE RequestSync
  BY <1>2, <1>15 DEF RequestSync, Needed, TypeOK, stateVars, stack, bounds, Reasons
<1>16. CASE GoOn
  BY <1>2, <1>16 DEF GoOn, TypeOK, stateVars, stack, bounds
<1>17. CASE DrainEvent
  <2>1. LinkTypeOK'
    BY <1>1, <1>2, <1>17, SendEventTypes DEF DrainEvent, Events
  <2>2. /\ events \in Seq(Event) /\ Len(events) <= Capacity
        /\ events # <<>> /\ events' = Tail(events)
    BY <1>17 DEF DrainEvent, TypeOK
  <2>3. events' \in Seq(Event) /\ Len(events') = Len(events) - 1 /\ Len(events) \in Nat
    BY <2>2, HeadTailProperties, LenProperties
  <2>4. Len(events') <= Capacity
    BY <2>2, <2>3
  <2> QED BY <1>17, <2>1, <2>3, <2>4 DEF DrainEvent, TypeOK, stateVars, stack, bounds
<1>18. CASE McuStep
  <2>1. LinkTypeOK'
    BY <1>1, <1>18, LinkStepTypes DEF McuStep
  <2> QED BY <1>18, <2>1 DEF McuStep, TypeOK, stateVars, stack, bounds
<1>19. CASE NcpReset
  <2>1. LinkTypeOK'
    BY <1>1, <1>19, LinkStepTypes DEF NcpReset
  <2>2. events' \in Seq(Event) /\ Len(events') <= Capacity
    BY <1>19, EmptySeq DEF NcpReset
  <2> QED BY <1>19, <2>1, <2>2 DEF NcpReset, TypeOK, bounds, Reasons
<1>20. CASE UNCHANGED vars
  BY <1>2, <1>20 DEF vars, TypeOK, stateVars, stack, bounds
<1> QED BY <1>4, <1>5, <1>6, <1>7, <1>8, <1>9, <1>10, <1>11, <1>12, <1>13, <1>14, <1>15,
           <1>16, <1>17, <1>18, <1>19, <1>20 DEF Next, StackStep, NcpStep, Receive

----------------------------------------------------------------------------
(* The steps.                                                              *)

LEMMA JoinedStep ==
    ASSUME TypeOK, JoinedIsConnected, [Next]_vars
    PROVE  JoinedIsConnected'
<1> USE DEF JoinedIsConnected
<1>1. CASE Connected
  BY <1>1 DEF Connected
<1>2. CASE Interrupted
  BY <1>2 DEF Interrupted
<1>3. CASE SessionJoined
  BY <1>3 DEF SessionJoined, stateVars, stack
<1>4. CASE NcpReset
  BY <1>4 DEF NcpReset
<1>5. CASE UNCHANGED <<stateVars, mesh>>
  BY <1>5 DEF stateVars
<1> QED BY <1>1, <1>2, <1>3, <1>4, <1>5
    DEF Next, StackStep, NcpStep, Receive, RouteChange, OtherEvent, PollConnectivity,
        QueueRegistration, TxPoll, HandleLinkFrame, StatusRequest, RegistrationCommand,
        RequestSync, GoOn, DrainEvent, McuStep, vars, stack

LEMMA McuLeaves ==
    ASSUME McuStep
    PROVE  UNCHANGED <<ncpLink, syncPending, stateVars, required, events, deferred, pc,
                       givenUp>>
BY DEF McuStep, McuReceive, McuRequest, McuTimeout, McuReset, HandleHelloAck,
       HandleResponse, RegistrationNeeded, SendRequest, RequestDone, HelloTimeout,
       RequestTimeout

LEMMA SyncStep ==
    ASSUME TypeOK, SyncInSession, [Next]_vars
    PROVE  SyncInSession'
<1> USE DEF SyncInSession
<1>1. CASE UNCHANGED <<ncpLink, syncPending>> /\ (pc' = pc \/ pc' \notin {"sync", "queueSync"})
  BY <1>1
<1>2. CASE HandleLinkFrame
  BY <1>2 DEF HandleLinkFrame, HandleHello, Ignore, HandlePing
<1>3. CASE StatusRequest
  BY <1>3 DEF StatusRequest, HandleGetStatus
<1>4. CASE RequestSync
  BY <1>4 DEF RequestSync, linkVars
<1>5. CASE NcpReset
  BY <1>5 DEF NcpReset, NcpLinkReset
<1>6. CASE McuStep
  BY <1>1, <1>6, McuLeaves
<1>7. CASE DrainEvent
  BY <1>1, <1>7 DEF DrainEvent, SendEvent, linkVars
<1>8. CASE StackStep
  BY <1>1, <1>8 DEF StackStep, Connected, Interrupted, RouteChange, OtherEvent, linkVars
<1>9. CASE PollConnectivity \/ SessionJoined \/ QueueRegistration \/ TxPoll \/ GoOn
  BY <1>1, <1>9 DEF PollConnectivity, SessionJoined, QueueRegistration, TxPoll, GoOn, linkVars
<1>10. CASE RegistrationCommand
  BY <1>1, <1>10 DEF RegistrationCommand
<1>11. CASE UNCHANGED vars
  BY <1>1, <1>11 DEF vars, linkVars
<1> QED BY <1>2, <1>3, <1>4, <1>5, <1>6, <1>7, <1>8, <1>9, <1>10, <1>11
    DEF Next, NcpStep, Receive

LEMMA HelloStep ==
    ASSUME TypeOK, HelloFollows, [Next]_vars
    PROVE  HelloFollows'
<1> USE DEF HelloFollows
<1>1. /\ toNcp \in Seq(Frame(Commands)) /\ toMcu \in Seq(Frame(Answers \cup Events))
      /\ link \in {"wait", "ready"} /\ ncpLink \in {"wait", "ready"}
  BY DEF TypeOK, LinkTypeOK
<1>2. ASSUME UNCHANGED <<link, toNcp, ncpLink, syncPending>>
      PROVE  HelloFollows'
  BY <1>2 DEF On, Trails
<1>3. ASSUME link' = "wait", NEW e, e.type = "HELLO", toNcp' = Append(toNcp, e)
      PROVE  HelloFollows'
  <2>1. Trails(toNcp') /\ On(toNcp', "HELLO")
    BY <1>1, <1>3, TrailsHello, OnAppend
  <2> QED BY <2>1
<1>4. ASSUME NEW type, Received(type), link = "wait"
      PROVE  /\ Trails(toNcp')
             /\ type = "GET_STATUS" => On(toNcp', "HELLO")
             /\ type # "HELLO" /\ On(toNcp, "HELLO") => On(toNcp', "HELLO")
  BY <1>1, <1>4, TrailsTail, OnHead DEF Received
<1>5. ASSUME Hello PROVE HelloFollows'
  BY <1>3, <1>5 DEF Hello, Send
<1>6. CASE HandleLinkFrame
  <2>1. CASE HandleHello
    BY <1>4, <2>1 DEF HandleHello, mcuVars
  <2>2. CASE Ignore
    BY <1>1, <1>4, <2>2 DEF Ignore, mcuVars
  <2>3. CASE HandlePing
    BY <1>4, <2>3 DEF HandlePing, mcuVars
  <2> QED BY <1>6, <2>1, <2>2, <2>3 DEF HandleLinkFrame
<1>7. CASE StatusRequest
  BY <1>4, <1>7 DEF StatusRequest, HandleGetStatus, mcuVars
<1>8. CASE RegistrationCommand
  BY <1>4, <1>8 DEF RegistrationCommand, mcuVars
<1>9. CASE McuStep
  <2>1. UNCHANGED <<ncpLink, syncPending>>
    BY <1>9, McuLeaves
  <2>2. CASE HandleHelloAck
    BY <2>2 DEF HandleHelloAck
  <2>3. CASE HandleResponse \/ RequestDone
    BY <1>2, <2>1, <2>3 DEF HandleResponse, RequestDone
  <2>4. CASE RegistrationNeeded
    BY <1>2, <2>1, <2>4 DEF RegistrationNeeded
  <2>5. CASE SendRequest
    BY <2>5 DEF SendRequest
  <2>6. CASE HelloTimeout
    BY <1>5, <2>6 DEF HelloTimeout
  <2>7. CASE RequestTimeout
    BY <1>2, <1>5, <2>1, <2>7 DEF RequestTimeout
  <2>8. CASE McuReset
    BY <1>3, <2>8 DEF McuReset
  <2> QED BY <1>9, <2>2, <2>3, <2>4, <2>5, <2>6, <2>7, <2>8
      DEF McuStep, McuReceive, McuRequest, McuTimeout
<1>10. CASE NcpReset
  <2>1. toNcp' = <<>> /\ ncpLink' = "wait"
    BY <1>10 DEF NcpReset, NcpLinkReset
  <2>2. Trails(toNcp')
    BY <2>1 DEF Trails
  <2> QED BY <2>1, <2>2
<1>11. CASE DrainEvent
  BY <1>2, <1>11 DEF DrainEvent, SendEvent, linkVars, mcuVars
<1>12. CASE UNCHANGED linkVars
  BY <1>2, <1>12 DEF linkVars, mcuVars
<1> QED BY <1>6, <1>7, <1>8, <1>9, <1>10, <1>11, <1>12
    DEF Next, StackStep, NcpStep, Receive, Connected, Interrupted, RouteChange, OtherEvent,
        PollConnectivity, SessionJoined, QueueRegistration, TxPoll, RequestSync, GoOn, vars

\* A registration that is neither submitted nor deferred is refused: then what
\* is queued stays queued, or the request is given up.
LEMMA TryOutcomes ==
    ASSUME TypeOK, TrySendRegistration, required', ~givenUp'
    PROVE  /\ required /\ ~givenUp
           /\ deferred'
           /\ Queued(events) => Queued(events')
<1>1. CASE ~RouteReady /\ deferred' = TRUE /\ UNCHANGED <<required, events, givenUp, refusals>>
  BY <1>1
<1>2. CASE required' = FALSE
  BY <1>2
<1>3. CASE /\ Queue!Put("other")
           /\ givenUp' = (givenUp \/ Drops \/ ~deferred)
           /\ UNCHANGED <<required, deferred>>
  BY <1>3, PutOther DEF TypeOK
<1> QED BY <1>1, <1>2, <1>3 DEF TrySendRegistration

LEMMA UnheardStep ==
    ASSUME TypeOK, SyncInSession, UnheardIsQueued, [Next]_vars
    PROVE  UnheardIsQueued'
<1> USE DEF UnheardIsQueued
<1>1. ASSUME UNCHANGED <<ncpLink, required, sessionJoined, givenUp, events>>,
             pc' = pc \/ pc # "queueJoin"
      PROVE  UnheardIsQueued'
  BY <1>1
<1>2. CASE Connected \/ RouteChange
  BY <1>1, <1>2 DEF Connected, RouteChange, linkVars, stateVars
<1>3. CASE Interrupted
  BY <1>3 DEF Interrupted
<1>4. CASE OtherEvent
  BY <1>4, PutOther DEF OtherEvent, PushOther, TypeOK, linkVars, stateVars
<1>5. CASE PollConnectivity \/ GoOn
  BY <1>1, <1>5 DEF PollConnectivity, GoOn, linkVars, stateVars
<1>6. CASE SessionJoined
  <2>1. CASE pc' = "queueJoin"
    BY <2>1
  <2>2. CASE UNCHANGED <<stateVars, required, reason, givenUp>>
    BY <1>1, <1>6, <2>2 DEF SessionJoined, linkVars, stateVars
  <2> QED BY <1>6, <2>1, <2>2 DEF SessionJoined
<1>7. CASE QueueRegistration
  <2>1. reason \in Reasons /\ reason \in Event /\ events \in Seq(Event) /\ Len(events) <= Capacity
    BY DEF TypeOK, Event
  <2> QED BY <1>7, <2>1, PutQueue, UpdateQueue DEF QueueRegistration
<1>8. CASE TxPoll
  <2>1. pc = "tx" /\ UNCHANGED <<ncpLink, sessionJoined>>
    BY <1>8 DEF TxPoll, linkVars, stateVars
  <2>2. CASE TrySendRegistration
    BY <2>1, <2>2, TryOutcomes
  <2>3. CASE UNCHANGED <<required, events, deferred, givenUp, refusals>>
    BY <1>1, <2>1, <2>3
  <2> QED BY <1>8, <2>2, <2>3 DEF TxPoll
<1>9. CASE HandleLinkFrame
  <2>1. CASE HandleHello
    BY <2>1 DEF HandleHello
  <2>2. CASE Ignore \/ HandlePing
    BY <1>1, <1>9, <2>2 DEF HandleLinkFrame, Ignore, HandlePing, stateVars
  <2> QED BY <1>9, <2>1, <2>2 DEF HandleLinkFrame
<1>10. CASE StatusRequest \/ RegistrationCommand \/ DrainEvent
  <2>1. ncpLink' = "ready"
    BY <1>10 DEF StatusRequest, HandleGetStatus, RegistrationCommand, DrainEvent, MayDrain,
                 SendEvent, linkVars
  <2> QED BY <2>1
<1>11. CASE RequestSync
  BY <1>11 DEF RequestSync, SyncInSession, linkVars
<1>12. CASE McuStep
  BY <1>1, <1>12, McuLeaves DEF stateVars
<1>13. CASE NcpReset
  BY <1>13 DEF NcpReset
<1>14. CASE UNCHANGED vars
  BY <1>1, <1>14 DEF vars, linkVars, stateVars
<1> QED BY <1>2, <1>3, <1>4, <1>5, <1>6, <1>7, <1>8, <1>9, <1>10, <1>11, <1>12, <1>13, <1>14
    DEF Next, StackStep, NcpStep, Receive

\* The consequent of RequiredIsPursued, place by place.
Pursued ==
    \/ ~sessionJoined \/ SyncComing \/ pc = "queueJoin" \/ Queued(events)
    \/ On(toMcu, "REGISTRATION_NEEDED") \/ On(toNcp, "SEND_REGISTRATION")
    \/ deferred

LEMMA PursuedIs ==
    /\ RequiredIsPursued <=> (required /\ ~givenUp => Pursued)
    /\ RequiredIsPursued' <=> (required' /\ ~givenUp' => Pursued')
BY DEF RequiredIsPursued, Pursued, Queued

LEMMA McuPursues ==
    ASSUME TypeOK, HelloFollows, UnheardIsQueued, required, ~givenUp, Pursued, McuStep
    PROVE  Pursued'
<1>1. /\ toNcp \in Seq(Frame(Commands)) /\ toMcu \in Seq(Frame(Answers \cup Events))
      /\ link \in {"wait", "ready"}
  BY DEF TypeOK, LinkTypeOK
<1>2. UNCHANGED <<ncpLink, syncPending, sessionJoined, events, deferred, pc>>
  BY McuLeaves DEF stateVars
<1>3. ASSUME UNCHANGED link,
             On(toNcp, "HELLO") => On(toNcp', "HELLO"),
             On(toNcp, "SEND_REGISTRATION") => On(toNcp', "SEND_REGISTRATION"),
             On(toMcu, "REGISTRATION_NEEDED") => On(toMcu', "REGISTRATION_NEEDED")
      PROVE  Pursued'
  BY <1>2, <1>3 DEF Pursued, SyncComing
<1>4. link' = "wait" => Pursued'
  BY DEF Pursued, SyncComing
<1>5. CASE HandleHelloAck
  <2>1. UNCHANGED toNcp /\ toMcu # <<>> /\ Head(toMcu).type = "HELLO_ACK" /\ toMcu' = Tail(toMcu)
    BY <1>5 DEF HandleHelloAck
  <2>2. On(toMcu, "REGISTRATION_NEEDED") => On(toMcu', "REGISTRATION_NEEDED")
    BY <1>1, <2>1, OnHead
  <2>3. CASE link = "ready"
    BY <1>3, <1>5, <2>1, <2>2, <2>3 DEF HandleHelloAck
  <2>4. CASE link = "wait"
    <3>1. ncpLink = "wait" \/ syncPending \/ On(toNcp, "HELLO")
      BY <2>4 DEF HelloFollows
    <3>2. ncpLink = "wait" => ~sessionJoined \/ pc = "queueJoin" \/ Queued(events)
      BY DEF UnheardIsQueued
    <3>3. On(toNcp, "HELLO") => On(toNcp', "HELLO")
      BY <2>1
    <3> QED BY <1>2, <3>1, <3>2, <3>3 DEF Pursued, SyncComing
  <2> QED BY <1>1, <2>3, <2>4
<1>6. CASE HandleResponse
  <2>1. /\ UNCHANGED <<link, toNcp>> /\ toMcu # <<>> /\ toMcu' = Tail(toMcu)
        /\ Head(toMcu).type # "REGISTRATION_NEEDED"
    BY <1>6 DEF HandleResponse
  <2> QED BY <1>1, <1>3, <2>1, OnHead
<1>7. CASE RegistrationNeeded
  <2>1. CASE link = "ready"
    <3>1. toNcp' = Append(toNcp, [type |-> "SEND_REGISTRATION", seq |-> nextSeq])
      BY <1>7, <2>1 DEF RegistrationNeeded, Send
    <3>2. On(toNcp', "SEND_REGISTRATION")
      BY <1>1, <3>1, OnAppend
    <3> QED BY <3>2 DEF Pursued
  <2>2. CASE link = "wait"
    BY <1>4, <1>7, <2>2 DEF RegistrationNeeded
  <2> QED BY <1>1, <2>1, <2>2
<1>8. CASE SendRequest
  <2>1. PICK e : toNcp' = Append(toNcp, e)
    BY <1>8 DEF SendRequest, Send
  <2>2. \A t : On(toNcp, t) => On(toNcp', t)
    BY <1>1, <2>1, OnAppend
  <2> QED BY <1>3, <1>8, <2>2 DEF SendRequest
<1>9. CASE RequestDone
  BY <1>3, <1>9 DEF RequestDone
<1>10. CASE HelloTimeout
  BY <1>4, <1>10 DEF HelloTimeout, Hello
<1>11. CASE RequestTimeout
  BY <1>3, <1>4, <1>11 DEF RequestTimeout, Hello
<1>12. CASE McuReset
  BY <1>4, <1>12 DEF McuReset
<1> QED BY <1>5, <1>6, <1>7, <1>8, <1>9, <1>10, <1>11, <1>12
    DEF McuStep, McuReceive, McuRequest, McuTimeout

\* What the NCP takes off the wire was not what the request depended on.
LEMMA NcpPursues ==
    ASSUME IInv, required', ~givenUp', required, ~givenUp, Pursued, NcpStep
    PROVE  Pursued'
<1>1. /\ toNcp \in Seq(Frame(Commands)) /\ toMcu \in Seq(Frame(Answers \cup Events))
      /\ events \in Seq(Event) /\ Len(events) <= Capacity /\ reason \in Reasons
      /\ ncpLink \in {"wait", "ready"}
  BY DEF IInv, TypeOK, LinkTypeOK
<1>2. ASSUME NEW type, Received(type)
      PROVE  \A t : t # type /\ On(toNcp, t) => On(toNcp', t)
  BY <1>1, <1>2, OnHead DEF Received
<1>3. ASSUME NEW e, toMcu' = Append(toMcu, e)
      PROVE  \A t : On(toMcu, t) => On(toMcu', t)
  BY <1>1, <1>3, OnAppend
<1>4. ASSUME UNCHANGED <<link, syncPending, sessionJoined, events, deferred, toNcp, toMcu>>,
             pc \notin {"sync", "queueSync", "queueJoin"}
      PROVE  Pursued'
  BY <1>4 DEF Pursued, SyncComing, On, Queued
<1>5. CASE PollConnectivity \/ GoOn
  BY <1>4, <1>5 DEF PollConnectivity, GoOn, linkVars, mcuVars, stateVars
<1>6. CASE SessionJoined
  <2>1. CASE pc' = "queueJoin"
    BY <2>1 DEF Pursued
  <2>2. CASE UNCHANGED stateVars
    BY <1>4, <1>6, <2>2 DEF SessionJoined, linkVars, mcuVars, stateVars
  <2> QED BY <1>6, <2>1, <2>2 DEF SessionJoined
<1>7. CASE QueueRegistration
  <2>1. reason \in Event
    BY <1>1 DEF Event
  <2>2. Queued(events')
    BY <1>1, <1>7, <2>1, PutQueue, UpdateQueue DEF QueueRegistration
  <2> QED BY <2>2 DEF Pursued
<1>8. CASE TxPoll
  <2>1. /\ pc = "tx"
        /\ UNCHANGED <<link, syncPending, sessionJoined, toNcp, toMcu>>
    BY <1>8 DEF TxPoll, linkVars, mcuVars, stateVars
  <2>2. CASE TrySendRegistration
    BY <2>2, TryOutcomes DEF IInv, Pursued
  <2>3. CASE UNCHANGED <<required, events, deferred, givenUp, refusals>>
    BY <1>4, <2>1, <2>3
  <2> QED BY <1>8, <2>2, <2>3 DEF TxPoll
<1>9. CASE HandleLinkFrame
  <2>1. UNCHANGED <<link, sessionJoined, events, deferred, pc>>
    BY <1>9 DEF HandleLinkFrame, HandleHello, Ignore, HandlePing, mcuVars, stateVars
  <2>2. CASE HandleHello
    BY <2>2 DEF HandleHello, Pursued, SyncComing
  <2>3. CASE Ignore
    <3>1. ncpLink = "wait"
      BY <1>1, <2>3 DEF Ignore
    <3>2. ~sessionJoined \/ pc = "queueJoin" \/ Queued(events)
      BY <3>1 DEF IInv, UnheardIsQueued
    <3> QED BY <2>1, <3>2 DEF Pursued
  <2>4. CASE HandlePing
    <3>1. /\ \A t : t # "PING" /\ On(toNcp, t) => On(toNcp', t)
          /\ \A t : On(toMcu, t) => On(toMcu', t)
          /\ UNCHANGED syncPending
      BY <1>2, <1>3, <2>4 DEF HandlePing, Answer
    <3> QED BY <2>1, <3>1 DEF Pursued, SyncComing
  <2> QED BY <1>9, <2>2, <2>3, <2>4 DEF HandleLinkFrame
<1>10. CASE StatusRequest
  <2>1. CASE syncPending
    BY <1>10, <2>1 DEF StatusRequest, Pursued, SyncComing
  <2>2. CASE ~syncPending
    <3>1. /\ \A t : t # "GET_STATUS" /\ On(toNcp, t) => On(toNcp', t)
          /\ \A t : On(toMcu, t) => On(toMcu', t)
          /\ pc = "frames" /\ UNCHANGED <<link, sessionJoined, events, deferred, pc>>
      BY <1>2, <1>3, <1>10, <2>2 DEF StatusRequest, HandleGetStatus, Answer, mcuVars, stateVars
    <3> QED BY <2>2, <3>1 DEF Pursued, SyncComing
  <2> QED BY <2>1, <2>2
<1>11. CASE RegistrationCommand
  BY <1>11, TryOutcomes DEF IInv, RegistrationCommand, Pursued
<1>12. CASE RequestSync
  <2>1. CASE pc' = "queueSync"
    BY <2>1 DEF Pursued, SyncComing
  <2>2. CASE network # "JOINED"
    BY <1>12, <2>2 DEF IInv, JoinedIsConnected, RequestSync, stateVars, Pursued
  <2> QED BY <1>12, <2>1, <2>2 DEF RequestSync
<1>13. CASE DrainEvent
  <2>1. /\ pc = "drain" /\ events # <<>> /\ events' = Tail(events)
        /\ UNCHANGED <<sessionJoined, deferred, pc>>
    BY <1>13 DEF DrainEvent, stateVars
  <2>2. UNCHANGED <<link, syncPending, toNcp>>
    BY <1>13 DEF DrainEvent, SendEvent, linkVars, mcuVars
  <2>3. CASE Head(events) \in Reasons
    <3>1. toMcu' = Append(toMcu, [type |-> "REGISTRATION_NEEDED", seq |-> 0])
      BY <1>13, <2>3 DEF DrainEvent, SendEvent
    <3>2. On(toMcu', "REGISTRATION_NEEDED")
      BY <1>1, <3>1, OnAppend
    <3> QED BY <3>2 DEF Pursued
  <2>4. CASE Head(events) \notin Reasons
    <3>1. UNCHANGED toMcu
      BY <1>13, <2>4 DEF DrainEvent, linkVars
    <3>2. Queued(events) => Queued(events')
      BY <1>1, <2>1, <2>4, QueuedTail
    <3> QED BY <2>1, <2>2, <3>1, <3>2 DEF Pursued, SyncComing
  <2> QED BY <2>3, <2>4
<1> QED BY <1>5, <1>6, <1>7, <1>8, <1>9, <1>10, <1>11, <1>12, <1>13 DEF NcpStep, Receive

LEMMA PursuedStep ==
    ASSUME IInv, [Next]_vars
    PROVE  RequiredIsPursued'
<1>1. SUFFICES ASSUME required', ~givenUp' PROVE Pursued'
  BY PursuedIs
<1>2. CASE SessionJoined /\ pc' = "queueJoin"
  BY <1>2 DEF Pursued
<1>3. CASE RequestSync /\ pc' = "queueSync"
  BY <1>3 DEF Pursued, SyncComing
<1>4. CASE NcpReset
  BY <1>1, <1>4 DEF NcpReset
<1>5. CASE /\ [Next]_vars
           /\ ~NcpReset
           /\ ~(SessionJoined /\ pc' = "queueJoin")
           /\ ~(RequestSync /\ pc' = "queueSync")
  <2>1. required /\ ~givenUp
    <3>1. required' = required /\ (givenUp => givenUp') => required /\ ~givenUp
      BY <1>1
    <3>2. CASE TxPoll
      <4>1. CASE TrySendRegistration
        BY <1>1, <4>1, TryOutcomes DEF IInv
      <4>2. CASE UNCHANGED <<required, events, deferred, givenUp, refusals>>
        BY <3>1, <4>2
      <4> QED BY <3>2, <4>1, <4>2 DEF TxPoll
    <3>3. CASE RegistrationCommand
      BY <1>1, <3>3, TryOutcomes DEF RegistrationCommand, IInv
    <3>4. CASE SessionJoined
      BY <1>5, <3>1, <3>4 DEF SessionJoined
    <3>5. CASE RequestSync
      BY <1>5, <3>1, <3>5 DEF RequestSync
    <3>6. CASE OtherEvent
      BY <3>1, <3>6 DEF OtherEvent, PushOther
    <3>7. CASE McuStep
      BY <3>1, <3>7, McuLeaves
    <3>8. CASE UNCHANGED <<required, givenUp>>
      BY <3>1, <3>8
    <3> QED BY <1>5, <3>2, <3>3, <3>4, <3>5, <3>6, <3>7, <3>8
        DEF Next, StackStep, NcpStep, Receive, Connected, Interrupted, RouteChange,
            PollConnectivity, QueueRegistration, HandleLinkFrame, StatusRequest, GoOn,
            DrainEvent, vars
  <2>2. Pursued
    BY <2>1, PursuedIs DEF IInv
  <2>3. CASE NcpStep
    BY <1>1, <2>1, <2>2, <2>3, NcpPursues
  <2>4. CASE McuStep
    BY <2>1, <2>2, <2>4, McuPursues DEF IInv
  <2>5. CASE Interrupted
    BY <2>5 DEF Interrupted, Pursued
  <2>6. CASE OtherEvent
    <3>1. Queued(events) => Queued(events')
      BY <1>1, <2>6, PutOther DEF OtherEvent, PushOther, IInv, TypeOK
    <3> QED BY <2>2, <2>6, <3>1 DEF OtherEvent, linkVars, mcuVars, stateVars, Pursued, SyncComing
  <2>7. CASE Connected \/ RouteChange \/ UNCHANGED vars
    BY <2>2, <2>7 DEF Connected, RouteChange, vars, linkVars, mcuVars, stateVars, Pursued, SyncComing
  <2> QED BY <1>5, <2>3, <2>4, <2>5, <2>6, <2>7 DEF Next, StackStep
<1> QED BY <1>2, <1>3, <1>4, <1>5

----------------------------------------------------------------------------
(* The start-up of the MCU.  Whichever old answers it takes for answers to *)
(* its own requests, its HELLO and its status request went out in that     *)
(* order and the wire keeps it.                                            *)

\* What the phase says of the link and of the request that is waited for.
OwnRequest ==
    /\ link = "wait" => request = NoRequest
    /\ phase # "ping" => link = "ready"
    /\ phase = "idle" => request = NoRequest
    /\ request # NoRequest => (request.type = "PING" <=> phase = "ping")

\* A ping has been answered in this session.
Answered == phase # "ping" \/ (request # NoRequest /\ request.done)

\* A status request of this session has been sent, or the start-up is over.
StatusAsked == phase = "idle" \/ (phase = "status" /\ request # NoRequest)

\* An NCP whose PONG was taken has heard the HELLO before the ping, or will.
AnsweredIsHeard ==
    Answered /\ ~unnoticed => ncpLink = "ready" \/ On(toNcp, "HELLO")

\* There is a status request on the wire with no HELLO behind it.
StatusLast(wire) ==
    \E j \in DOMAIN wire :
        /\ wire[j].type = "GET_STATUS"
        /\ \A k \in DOMAIN wire : k > j => wire[k].type # "HELLO"

\* A status request will be the last to change the session, or was.
StatusFollows ==
    StatusAsked /\ ~unnoticed =>
        \/ StatusLast(toNcp)
        \/ ~On(toNcp, "HELLO") /\ ncpLink = "ready" /\ ~syncPending

StartInv == OwnRequest /\ AnsweredIsHeard /\ StatusFollows

LEMMA StatusLastTail ==
    ASSUME NEW S, NEW s \in Seq(S), s # <<>>, StatusLast(s)
    PROVE  StatusLast(Tail(s)) \/ (Head(s).type = "GET_STATUS" /\ ~On(Tail(s), "HELLO"))
<1>1. /\ Len(s) \in Nat \ {0} /\ DOMAIN s = 1..Len(s) /\ Head(s) = s[1]
      /\ DOMAIN Tail(s) = 1..Len(s) - 1
      /\ \A i \in 1..Len(s) - 1 : Tail(s)[i] = s[i + 1]
  BY HeadTailProperties, EmptySeq, LenProperties
<1>2. PICK j \in 1..Len(s) : /\ s[j].type = "GET_STATUS"
                             /\ \A k \in 1..Len(s) : k > j => s[k].type # "HELLO"
  BY <1>1 DEF StatusLast
<1>3. ASSUME NEW i \in 1..Len(s) - 1, i + 1 > j PROVE Tail(s)[i].type # "HELLO"
  <2>1. i + 1 \in 1..Len(s)
    BY <1>1
  <2> QED BY <1>1, <1>2, <1>3, <2>1
<1>4. CASE j = 1
  <2>1. \A i \in 1..Len(s) - 1 : i + 1 > j
    BY <1>1, <1>4
  <2> QED BY <1>1, <1>2, <1>3, <1>4, <2>1 DEF On
<1>5. CASE j # 1
  <2>1. j - 1 \in 1..Len(s) - 1 /\ (j - 1) + 1 = j
    BY <1>1, <1>5
  <2>2. \A i \in 1..Len(s) - 1 : i > j - 1 => i + 1 > j
    BY <1>1
  <2>3. Tail(s)[j - 1].type = "GET_STATUS"
    BY <1>1, <1>2, <2>1
  <2> QED BY <1>1, <1>3, <2>1, <2>2, <2>3 DEF StatusLast
<1> QED BY <1>4, <1>5

LEMMA StatusLastAppend ==
    ASSUME NEW S, NEW s \in Seq(S), NEW e
    PROVE  /\ e.type = "GET_STATUS" => StatusLast(Append(s, e))
           /\ StatusLast(s) /\ e.type # "HELLO" => StatusLast(Append(s, e))
<1>1. /\ Len(s) \in Nat /\ DOMAIN s = 1..Len(s)
      /\ DOMAIN Append(s, e) = 1..Len(s) + 1
      /\ \A i \in 1..Len(s) : Append(s, e)[i] = s[i]
      /\ Append(s, e)[Len(s) + 1] = e
  OBVIOUS
<1>2. ASSUME e.type = "GET_STATUS" PROVE StatusLast(Append(s, e))
  <2>1. Len(s) + 1 \in 1..Len(s) + 1 /\ \A k \in 1..Len(s) + 1 : ~(k > Len(s) + 1)
    BY <1>1
  <2> QED BY <1>1, <1>2, <2>1 DEF StatusLast
<1>3. ASSUME StatusLast(s), e.type # "HELLO" PROVE StatusLast(Append(s, e))
  <2>1. PICK j \in 1..Len(s) : /\ s[j].type = "GET_STATUS"
                               /\ \A k \in 1..Len(s) : k > j => s[k].type # "HELLO"
    BY <1>1, <1>3 DEF StatusLast
  <2>2. j \in 1..Len(s) + 1 /\ Append(s, e)[j].type = "GET_STATUS"
    BY <1>1, <2>1
  <2>3. ASSUME NEW k \in 1..Len(s) + 1, k > j PROVE Append(s, e)[k].type # "HELLO"
    <3>1. k \in 1..Len(s) \/ k = Len(s) + 1
      BY <1>1
    <3> QED BY <1>1, <1>3, <2>1, <2>3, <3>1
  <2> QED BY <1>1, <2>2, <2>3 DEF StatusLast
<1> QED BY <1>2, <1>3

\* The NCP takes a frame: what it must still hear stays behind it.
LEMMA TakenFollows ==
    ASSUME TypeOK, NEW type, Received(type)
    PROVE  /\ type # "HELLO" => (On(toNcp', "HELLO") <=> On(toNcp, "HELLO"))
           /\ type = "HELLO" => On(toNcp, "HELLO")
           /\ StatusLast(toNcp) => \/ StatusLast(toNcp')
                                   \/ type = "GET_STATUS" /\ ~On(toNcp', "HELLO")
<1>1. toNcp \in Seq(Frame(Commands)) /\ toNcp # <<>> /\ toNcp' = Tail(toNcp)
      /\ Head(toNcp).type = type
  BY DEF TypeOK, LinkTypeOK, Received
<1> QED BY <1>1, OnHead, StatusLastTail

LEMMA NcpKeepsStart ==
    ASSUME TypeOK, StartInv, HandleHello \/ Ignore \/ HandlePing \/ HandleGetStatus
    PROVE  StartInv'
<1>1. UNCHANGED <<link, phase, request, unnoticed>> /\ OwnRequest'
  BY DEF StartInv, OwnRequest, HandleHello, Ignore, HandlePing, HandleGetStatus, mcuVars
<1> SUFFICES ASSUME ~unnoticed PROVE AnsweredIsHeard' /\ StatusFollows'
  BY <1>1 DEF StartInv, AnsweredIsHeard, StatusFollows
<1>2. StatusAsked => Answered
  BY DEF StatusAsked, Answered
<1> USE DEF StartInv, AnsweredIsHeard, StatusFollows, Answered, StatusAsked
<1>3. CASE HandleHello
  BY <1>1, <1>3, TakenFollows DEF HandleHello
<1>4. CASE Ignore
  <2>1. PICK type \in Commands \ {"HELLO"} : Received(type)
    BY <1>4 DEF Ignore
  <2>2. ncpLink # "ready" /\ UNCHANGED <<ncpLink, syncPending>>
    BY <1>4 DEF Ignore
  <2> QED BY <1>1, <1>2, <2>1, <2>2, TakenFollows
<1>5. CASE HandlePing
  BY <1>1, <1>5, TakenFollows DEF HandlePing
<1>6. CASE HandleGetStatus
  BY <1>1, <1>6, TakenFollows DEF HandleGetStatus
<1> QED BY <1>3, <1>4, <1>5, <1>6

LEMMA McuKeepsStart ==
    ASSUME TypeOK, StartInv, McuReceive \/ McuRequest \/ McuTimeout \/ McuReset
    PROVE  StartInv'
<1> USE DEF StartInv, OwnRequest, AnsweredIsHeard, StatusFollows, Answered, StatusAsked
<1>1. /\ toNcp \in Seq(Frame(Commands)) /\ phase \in {"ping", "status", "idle"}
      /\ link \in {"wait", "ready"} /\ ncpLink \in {"wait", "ready"}
      /\ request # NoRequest => request \in [type : Requests, seq : 0..SeqMod - 1, done : BOOLEAN]
  BY DEF TypeOK, LinkTypeOK
<1>2. ASSUME phase' = "ping", request' = NoRequest PROVE StartInv'
  BY <1>2
<1>3. CASE HandleHelloAck
  BY <1>1, <1>3 DEF HandleHelloAck
<1>4. CASE HandleResponse
  <2>1. UNCHANGED <<link, phase, ncpLink, syncPending, toNcp>>
    BY <1>4 DEF HandleResponse
  <2>2. CASE request' = request /\ (unnoticed => unnoticed')
    BY <2>1, <2>2
  <2>3. CASE /\ request # NoRequest /\ ~request.done
             /\ request' = [request EXCEPT !.done = TRUE]
             /\ unnoticed => unnoticed'
             /\ ~unnoticed' => \/ request.type # "PING"
                               \/ ncpLink = "ready" \/ On(toNcp, "HELLO")
    <3>1. request'.type = request.type
      BY <1>1, <2>3
    <3> QED BY <1>1, <2>1, <2>3, <3>1
  <2>4. \/ request' = request /\ (unnoticed => unnoticed')
        \/ /\ request # NoRequest /\ ~request.done
           /\ request' = [request EXCEPT !.done = TRUE]
           /\ unnoticed => unnoticed'
           /\ ~unnoticed' => \/ request.type # "PING"
                             \/ ncpLink = "ready" \/ On(toNcp, "HELLO")
    BY <1>1, <1>4 DEF HandleResponse
  <2> QED BY <2>2, <2>3, <2>4
<1>5. CASE RegistrationNeeded
  <2>1. UNCHANGED <<link, phase, request, ncpLink, syncPending, unnoticed>>
    BY <1>5 DEF RegistrationNeeded
  <2>2. CASE link = "ready"
    <3>1. PICK e : e.type = "SEND_REGISTRATION" /\ toNcp' = Append(toNcp, e)
      BY <1>5, <2>2 DEF RegistrationNeeded, Send
    <3> QED BY <1>1, <2>1, <3>1, OnAppend, StatusLastAppend
  <2>3. CASE link # "ready"
    BY <1>5, <2>1, <2>3 DEF RegistrationNeeded
  <2> QED BY <2>2, <2>3
<1>6. CASE SendRequest
  <2>1. /\ UNCHANGED <<link, phase, ncpLink, syncPending, unnoticed>>
        /\ link = "ready" /\ phase # "idle"
    BY <1>6 DEF SendRequest
  <2>2. CASE phase = "ping"
    <3>1. request'.type = "PING" /\ request'.done = FALSE
      BY <1>6, <2>2 DEF SendRequest
    <3> QED BY <2>1, <2>2, <3>1
  <2>3. CASE phase = "status"
    <3>1. request'.type = "GET_STATUS"
      BY <1>6, <2>3 DEF SendRequest
    <3>2. PICK e : e.type = "GET_STATUS" /\ toNcp' = Append(toNcp, e)
      BY <1>6, <2>3 DEF SendRequest, Send
    <3>3. StatusLast(toNcp') /\ (On(toNcp, "HELLO") => On(toNcp', "HELLO"))
      BY <1>1, <3>2, OnAppend, StatusLastAppend
    <3> QED BY <2>1, <2>3, <3>1, <3>3
  <2> QED BY <1>1, <2>1, <2>2, <2>3
<1>7. CASE RequestDone
  <2>1. /\ request # NoRequest /\ request.done /\ request' = NoRequest
        /\ UNCHANGED <<link, ncpLink, syncPending, toNcp, unnoticed>>
        /\ phase' = IF request.type = "PING" THEN "status" ELSE "idle"
    BY <1>7 DEF RequestDone
  <2>2. link = "ready"
    BY <1>1, <2>1
  <2>3. CASE request.type = "PING"
    BY <2>1, <2>2, <2>3
  <2>4. CASE request.type # "PING"
    <3>1. phase = "status"
      BY <1>1, <2>1, <2>4
    <3> QED BY <2>1, <2>2, <2>4, <3>1
  <2> QED BY <2>3, <2>4
<1>8. CASE HelloTimeout
  <2>1. phase' = "ping" /\ request' = NoRequest
    BY <1>8 DEF HelloTimeout
  <2> QED BY <1>2, <2>1
<1>9. CASE RequestTimeout
  <2>1. CASE request.type = "PING"
    BY <1>2, <1>9, <2>1 DEF RequestTimeout
  <2>2. CASE request.type # "PING"
    BY <1>9, <2>2 DEF RequestTimeout
  <2> QED BY <2>1, <2>2
<1>10. CASE McuReset
  BY <1>2, <1>10 DEF McuReset
<1> QED BY <1>3, <1>4, <1>5, <1>6, <1>7, <1>8, <1>9, <1>10
    DEF McuReceive, McuRequest, McuTimeout

LEMMA StartStep ==
    ASSUME TypeOK, StartInv, [Next]_vars
    PROVE  StartInv'
<1>1. ASSUME UNCHANGED <<mcuVars, ncpLink, syncPending, toNcp, unnoticed>>
      PROVE  StartInv'
  BY <1>1 DEF StartInv, OwnRequest, AnsweredIsHeard, StatusFollows, Answered, StatusAsked,
              StatusLast, On, mcuVars
<1>2. CASE HandleLinkFrame
  BY <1>2, NcpKeepsStart DEF HandleLinkFrame
<1>3. CASE StatusRequest
  BY <1>3, NcpKeepsStart DEF StatusRequest
<1>4. CASE RegistrationCommand
  <2>1. Received("SEND_REGISTRATION")
        /\ UNCHANGED <<link, phase, request, ncpLink, syncPending, unnoticed>>
    BY <1>4 DEF RegistrationCommand, mcuVars
  <2> QED BY <2>1, TakenFollows
          DEF StartInv, OwnRequest, AnsweredIsHeard, StatusFollows, Answered, StatusAsked
<1>5. CASE DrainEvent
  BY <1>1, <1>5 DEF DrainEvent, SendEvent, linkVars
<1>6. CASE McuStep
  BY <1>6, McuKeepsStart DEF McuStep
<1>7. CASE NcpReset
  <2>1. UNCHANGED <<link, phase, request>>
    BY <1>7 DEF NcpReset, NcpLinkReset, mcuVars
  <2>2. ~unnoticed' => ~Answered' /\ ~StatusAsked'
    BY <1>7, <2>1 DEF NcpReset, NcpLinkReset, Answered, StatusAsked
  <2> QED BY <2>1, <2>2 DEF StartInv, OwnRequest, AnsweredIsHeard, StatusFollows
<1>8. CASE UNCHANGED linkVars
  BY <1>1, <1>8 DEF linkVars
<1> QED BY <1>2, <1>3, <1>4, <1>5, <1>6, <1>7, <1>8
    DEF Next, StackStep, NcpStep, Receive, Connected, Interrupted, RouteChange, OtherEvent,
        PollConnectivity, SessionJoined, QueueRegistration, TxPoll, RequestSync, GoOn, vars

----------------------------------------------------------------------------
LEMMA InitIInv == Init => IInv
<1> SUFFICES ASSUME Init PROVE IInv
  OBVIOUS
<1>1. LinkTypeOK
  <2>1. /\ [type |-> "HELLO", seq |-> 0] \in Frame(Commands)
        /\ 1 % SeqMod \in 0..SeqMod - 1
    BY DEF Frame, Commands
  <2>2. toNcp \in Seq(Frame(Commands))
    <3>1. CASE toNcp = <<>>
      BY <3>1, EmptySeq
    <3>2. CASE toNcp = <<[type |-> "HELLO", seq |-> 0]>>
      BY <2>1, <3>2
    <3> QED BY <3>1, <3>2 DEF Init, LinkInit
  <2>3. toMcu \in Seq(Frame(Answers \cup Events))
    BY EmptySeq DEF Init, LinkInit
  <2>4. 0 \in 0..MaxEarly /\ 0 \in 0..MaxResets
    OBVIOUS
  <2> QED BY <2>1, <2>2, <2>3, <2>4 DEF Init, LinkInit, LinkTypeOK
<1>2. events \in Seq(Event) /\ Len(events) <= Capacity
  BY EmptySeq DEF Init
<1>3. TypeOK
  <2>1. 0 \in 0..MaxChanges /\ 0 \in 0..MaxOther /\ 0 \in 0..MaxRefusals
    OBVIOUS
  <2> QED BY <1>1, <1>2, <2>1 DEF Init, TypeOK, Reasons
<1>4. Trails(toNcp)
  BY DEF Init, LinkInit, Trails
<1> QED BY <1>3, <1>4 DEF Init, LinkInit, IInv, JoinedIsConnected, SyncInSession, HelloFollows,
                          UnheardIsQueued, RequiredIsPursued

LEMMA StepIInv == IInv /\ [Next]_vars => IInv'
BY TypeStep, JoinedStep, SyncStep, HelloStep, UnheardStep, PursuedStep DEF IInv

\* Type correctness of both ends of the link and of the node's registration.
THEOREM RegistrationTypeCorrect == Spec => []TypeOK
<1>1. IInv => TypeOK
  BY DEF IInv
<1> QED BY <1>1, InitIInv, StepIInv, PTL DEF Spec

\* The NCP says JOINED only while the last status reported was a connected one,
\* wherever the stack thread comes between the two critical sections of
\* pyronet_ncp_state_poll_connectivity.
THEOREM RegistrationJoinedIsConnected == Spec => []JoinedIsConnected
<1>1. IInv => JoinedIsConnected
  BY DEF IInv
<1> QED BY <1>1, InitIInv, StepIInv, PTL DEF Spec

\* A node that must register is on its way to it, or its request was refused or
\* dropped by a full queue, in any order of the handshakes of host_link.c on both
\* chips, resets, time-outs and mesh changes.
THEOREM RegistrationIsPursued == Spec => []RequiredIsPursued
<1>1. IInv => RequiredIsPursued
  BY DEF IInv
<1> QED BY <1>1, InitIInv, StepIInv, PTL DEF Spec

\* When the MCU's start-up (app.c) is over, the NCP does not hold its events back
\* for a status request that will never come, whichever old answers the MCU has
\* taken for answers to its requests: the wire keeps HELLO, ping and status
\* request in order.
THEOREM RegistrationStartedIsSynced == Spec => []StartedIsSynced
<1>1. Init => StartInv
  BY DEF Init, LinkInit, StartInv, OwnRequest, AnsweredIsHeard, StatusFollows, Answered,
         StatusAsked
<1>2. TypeOK /\ StartInv /\ [Next]_vars => StartInv'
  BY StartStep
<1>3. StartInv => StartedIsSynced
  BY DEF StartInv, StatusFollows, StatusAsked, StatusLast, StartedIsSynced, On
<1> QED BY <1>1, <1>2, <1>3, RegistrationTypeCorrect, PTL DEF Spec
=============================================================================
