-------------------------- MODULE NcpEventsProofs --------------------------
(***************************************************************************)
(* The ring buffer of the NCP, for every queue length and set of events:   *)
(* its indices stay in range, and it implements the bounded drop-oldest    *)
(* queue of EventFifo.                                                     *)
(***************************************************************************)
EXTENDS NcpEvents, TLAPS, SequenceTheorems

USE EventsAssumption

----------------------------------------------------------------------------
(* Arithmetic of the ring.                                                 *)

LEMMA ModOnce ==
    \A N \in Nat \ {0} : \A a \in Nat :
        a < N + N => a % N = IF a < N THEN a ELSE a - N
OBVIOUS

LEMMA AfterIs ==
    ASSUME NEW i \in Index, NEW n \in 0..QueueLen
    PROVE  /\ After(i, n) = IF i + n < QueueLen THEN i + n ELSE i + n - QueueLen
           /\ After(i, n) \in Index
<1> DEFINE a == i + n
<1>1. /\ i \in Nat /\ n \in Nat /\ QueueLen \in Nat \ {0}
      /\ i < QueueLen /\ n <= QueueLen
  BY DEF Index
<1>2. a \in Nat /\ a < QueueLen + QueueLen
  BY <1>1
<1>3. After(i, n) = a % QueueLen
  BY DEF After
<1> HIDE DEF a
<1>4. a % QueueLen = IF a < QueueLen THEN a ELSE a - QueueLen
  BY <1>1, <1>2, ModOnce
<1>5. After(i, n) \in Index
  BY <1>1, <1>2, <1>3, <1>4 DEF Index
<1>6. After(i, n) = IF a < QueueLen THEN a ELSE a - QueueLen
  BY <1>3, <1>4
<1> QED BY <1>1, <1>5, <1>6 DEF a

\* Offsets name different entries.
LEMMA AfterInjective ==
    ASSUME NEW i \in Index, NEW m \in 0..QueueLen - 1, NEW n \in 0..QueueLen - 1,
           After(i, m) = After(i, n)
    PROVE  m = n
<1> DEFINE p == After(i, m)
           q == After(i, n)
<1>1. m \in 0..QueueLen /\ n \in 0..QueueLen
  OBVIOUS
<1>2. /\ p = IF i + m < QueueLen THEN i + m ELSE i + m - QueueLen
      /\ q = IF i + n < QueueLen THEN i + n ELSE i + n - QueueLen
      /\ p \in Index /\ q \in Index
  BY <1>1, AfterIs
<1>3. p = q
  OBVIOUS
<1>4. i \in Nat /\ m \in Nat /\ n \in Nat /\ m < QueueLen /\ n < QueueLen /\ i < QueueLen
  BY DEF Index
<1> HIDE DEF p, q
<1> QED BY <1>2, <1>3, <1>4 DEF Index

\* Moving the start of the ring shifts the offsets by one.
LEMMA AfterNext ==
    ASSUME NEW i \in Index, NEW n \in 0..QueueLen - 1
    PROVE  /\ After(After(i, 1), n) = After(i, n + 1)
           /\ After(After(i, n), 1) = After(i, n + 1)
<1>1. 1 \in 0..QueueLen /\ n \in 0..QueueLen /\ n + 1 \in 0..QueueLen
  OBVIOUS
<1>2. i \in Nat /\ n \in Nat /\ n < QueueLen /\ i < QueueLen /\ QueueLen \in Nat
  BY DEF Index
<1> DEFINE j == After(i, 1)
           k == After(i, n)
<1>3. /\ j = IF i + 1 < QueueLen THEN i + 1 ELSE i + 1 - QueueLen
      /\ j \in Index
  BY <1>1, AfterIs
<1>4. /\ k = IF i + n < QueueLen THEN i + n ELSE i + n - QueueLen
      /\ k \in Index
  BY <1>1, AfterIs
<1>5. After(i, n + 1) = IF i + (n + 1) < QueueLen THEN i + (n + 1)
                        ELSE i + (n + 1) - QueueLen
  BY <1>1, AfterIs
<1> HIDE DEF j, k
<1>6. After(j, n) = IF j + n < QueueLen THEN j + n ELSE j + n - QueueLen
  BY <1>1, <1>3, AfterIs
<1>7. After(k, 1) = IF k + 1 < QueueLen THEN k + 1 ELSE k + 1 - QueueLen
  BY <1>1, <1>4, AfterIs
<1>8. After(j, n) = After(i, n + 1)
  BY <1>2, <1>3, <1>5, <1>6
<1>9. After(k, 1) = After(i, n + 1)
  BY <1>2, <1>4, <1>5, <1>7
<1> QED BY <1>8, <1>9 DEF j, k

----------------------------------------------------------------------------
(* The indices.                                                            *)

\* The entry written next is the one after the last event held.
IInv == TypeOK /\ tail = After(head, count)

LEMMA TailAfter ==
    ASSUME IInv
    PROVE  /\ count < QueueLen => tail = After(head, count)
           /\ count = QueueLen => tail = head
           /\ After(head, 0) = head
<1>1. head \in Index /\ QueueLen \in 0..QueueLen /\ 0 \in 0..QueueLen
  BY DEF IInv, TypeOK
<1> DEFINE z == After(head, 0)
           l == After(head, QueueLen)
<1>2. /\ z = IF head + 0 < QueueLen THEN head + 0 ELSE head + 0 - QueueLen
      /\ l = IF head + QueueLen < QueueLen THEN head + QueueLen
             ELSE head + QueueLen - QueueLen
  BY <1>1, AfterIs
<1> HIDE DEF z, l
<1>3. z = head /\ l = head
  BY <1>1, <1>2 DEF Index
<1> QED BY <1>3 DEF z, l, IInv

LEMMA PushIInv ==
    ASSUME IInv, NEW e \in Event, PushLocked(e)
    PROVE  /\ queue' \in [Index -> Event \cup {Zero}]
           /\ head' \in Index /\ tail' \in Index /\ count' \in 0..QueueLen
           /\ tail' = After(head', count')
<1>1. 1 \in 0..QueueLen /\ count \in 0..QueueLen /\ head \in Index /\ tail \in Index
  BY DEF IInv, TypeOK
<1>2. After(head, 1) \in Index /\ After(tail, 1) \in Index
  BY <1>1, AfterIs
<1>3. CASE Full
  <2>1. count = QueueLen /\ tail = head
    BY <1>1, <1>3, TailAfter DEF Full
  <2>2. count' = count /\ head' = After(head, 1) /\ tail' = After(head, 1)
    BY <1>3, <2>1 DEF PushLocked
  <2> DEFINE h == After(head, 1)
             l == After(h, QueueLen)
  <2>3. h \in Index /\ QueueLen \in 0..QueueLen
    BY <1>2
  <2> HIDE DEF h
  <2>4. l = IF h + QueueLen < QueueLen THEN h + QueueLen ELSE h + QueueLen - QueueLen
    BY <2>3, AfterIs
  <2> HIDE DEF l
  <2>5. l = h
    BY <2>3, <2>4 DEF Index
  <2>6. tail' = After(head', count')
    BY <2>1, <2>2, <2>5 DEF h, l
  <2>7. queue' \in [Index -> Event \cup {Zero}]
    BY DEF PushLocked, IInv, TypeOK
  <2> QED BY <1>1, <1>2, <2>1, <2>2, <2>6, <2>7
<1>4. CASE ~Full
  <2>1. count \in 0..QueueLen - 1 /\ tail = After(head, count)
    BY <1>1, <1>4, TailAfter DEF Full
  <2>2. count' = count + 1 /\ head' = head /\ tail' = After(tail, 1)
    BY <1>4 DEF PushLocked
  <2>3. tail' = After(head', count')
    BY <1>1, <2>1, <2>2, AfterNext
  <2>4. queue' \in [Index -> Event \cup {Zero}]
    BY DEF PushLocked, IInv, TypeOK
  <2> QED BY <1>1, <1>2, <2>1, <2>2, <2>3, <2>4
<1> QED BY <1>3, <1>4

LEMMA IInvInit == Init => IInv
<1> SUFFICES ASSUME Init PROVE IInv
  OBVIOUS
<1>1. 0 \in Index /\ 0 \in 0..QueueLen
  BY DEF Index
<1> DEFINE z == After(0, 0)
<1>2. z = IF 0 + 0 < QueueLen THEN 0 + 0 ELSE 0 + 0 - QueueLen
  BY <1>1, AfterIs
<1> HIDE DEF z
<1>3. z = 0
  BY <1>2
<1>4. TypeOK
  BY <1>1 DEF Init, TypeOK
<1> QED BY <1>3, <1>4 DEF z, Init, IInv

LEMMA IInvStep == IInv /\ [Next]_vars => IInv'
<1> SUFFICES ASSUME IInv, [Next]_vars PROVE IInv'
  OBVIOUS
<1> USE DEF IInv, TypeOK
<1>1. ASSUME NEW e \in Event \ Registration, Queue(e) PROVE IInv'
  BY <1>1, PushIInv DEF Queue
<1>2. ASSUME NEW e \in Registration, QueueRegistration(e) PROVE IInv'
  <2>1. CASE Found # {} /\ UNCHANGED <<head, tail, count>>
    <3>1. PICK n \in Found : queue' = [queue EXCEPT ![After(head, n)] = e]
      BY <1>2, <2>1 DEF QueueRegistration, PushLocked
    <3>2. tail' = After(head', count')
      BY <2>1
    <3> QED BY <1>2, <2>1, <3>1, <3>2 DEF QueueRegistration
  <2>2. CASE PushLocked(e)
    BY <1>2, <2>2, PushIInv DEF QueueRegistration
  <2> QED BY <1>2, <2>1, <2>2 DEF QueueRegistration
<1>3. CASE NextEvent
  <2>1. /\ count - 1 \in 0..QueueLen - 1 /\ count - 1 \in 0..QueueLen
        /\ 1 \in 0..QueueLen /\ head \in Index
    BY <1>3 DEF NextEvent
  <2>2. After(head, 1) \in Index /\ After(After(head, 1), count - 1) = After(head, count - 1 + 1)
    BY <2>1, AfterIs, AfterNext
  <2>3. count - 1 + 1 = count
    OBVIOUS
  <2>4. queue[head] \in Event \cup {Zero}
    BY <2>1
  <2> QED BY <1>3, <2>1, <2>2, <2>3, <2>4 DEF NextEvent
<1>4. CASE UNCHANGED vars
  BY <1>4 DEF vars
<1> QED BY <1>1, <1>2, <1>3, <1>4 DEF Next

(***************************************************************************)
(* Head, tail and count stay within a ring of any length, whatever is      *)
(* queued and taken.                                                       *)
(***************************************************************************)
THEOREM EventsTypeCorrect == Spec => []TypeOK
<1>1. IInv => TypeOK
  BY DEF IInv
<1> QED BY <1>1, IInvInit, IInvStep, PTL DEF Spec

----------------------------------------------------------------------------
(* What the operations do to the events held.                              *)

LEMMA AppendIs ==
    ASSUME NEW S, NEW s \in Seq(S), NEW e \in S
    PROVE  Append(s, e) = [i \in 1..Len(s) + 1 |-> IF i = Len(s) + 1 THEN e ELSE s[i]]
<1>1. /\ Append(s, e) \in Seq(S) /\ Len(Append(s, e)) = Len(s) + 1 /\ Len(s) \in Nat
      /\ \A i \in 1..Len(s) : Append(s, e)[i] = s[i]
      /\ Append(s, e)[Len(s) + 1] = e
  BY AppendProperties, LenProperties
<1> DEFINE a == Append(s, e)
           l == Len(s)
<1>2. a = [i \in 1..Len(a) |-> a[i]]
  BY <1>1, LenProperties
<1> HIDE DEF a, l
<1>3. \A i \in 1..l + 1 : a[i] = IF i = l + 1 THEN e ELSE s[i]
  BY <1>1 DEF a, l
<1> QED BY <1>1, <1>2, <1>3 DEF a, l

LEMMA ContentsAre ==
    ASSUME IInv
    PROVE  /\ Len(Contents) = count
           /\ DOMAIN Contents = 1..count
           /\ Contents \in Seq(Event \cup {Zero})
           /\ \A i \in 1..count : Contents[i] = queue[After(head, i - 1)]
<1>1. \A i \in 1..count : After(head, i - 1) \in Index
  <2> TAKE i \in 1..count
  <2>1. i - 1 \in 0..QueueLen /\ head \in Index
    BY DEF IInv, TypeOK
  <2> QED BY <2>1, AfterIs
<1>2. \A i \in 1..count : queue[After(head, i - 1)] \in Event \cup {Zero}
  BY <1>1 DEF IInv, TypeOK
<1>3. count \in Nat
  BY DEF IInv, TypeOK
<1> QED BY <1>2, <1>3 DEF Contents

LEMMA PushContents ==
    ASSUME IInv, NEW e \in Event, PushLocked(e)
    PROVE  Contents' = Append(IF Len(Contents) = QueueLen THEN Tail(Contents)
                              ELSE Contents, e)
<1>1. head \in Index /\ tail \in Index /\ count \in 0..QueueLen
  BY DEF IInv, TypeOK
<1>2. queue' = [queue EXCEPT ![tail] = e]
  BY DEF PushLocked
<1>3. ASSUME NEW n \in 0..QueueLen - 1
      PROVE  /\ After(head, n) \in Index
             /\ queue'[After(head, n)] = IF After(head, n) = tail THEN e
                                         ELSE queue[After(head, n)]
  <2>1. n \in 0..QueueLen
    OBVIOUS
  <2>2. After(head, n) \in Index
    BY <1>1, <2>1, AfterIs
  <2> QED BY <1>2, <2>2 DEF IInv, TypeOK
<1>4. CASE Full
  <2>1. count = QueueLen /\ tail = head /\ head = After(head, 0)
    BY <1>1, <1>4, TailAfter DEF Full
  <2>2. count' = QueueLen /\ head' = After(head, 1)
    BY <1>4, <2>1 DEF PushLocked
  <2>3. Contents' = [i \in 1..QueueLen |-> queue'[After(After(head, 1), i - 1)]]
    BY <2>2 DEF Contents
  <2>4. ASSUME NEW i \in 1..QueueLen
        PROVE  queue'[After(After(head, 1), i - 1)] =
                 IF i = QueueLen THEN e ELSE Contents[i + 1]
    <3>1. i - 1 \in 0..QueueLen - 1 /\ i - 1 + 1 = i
      OBVIOUS
    <3>2. After(After(head, 1), i - 1) = After(head, i)
      BY <1>1, <3>1, AfterNext
    <3>3. CASE i = QueueLen
      <4>1. After(head, i) = tail
        BY <2>1, <3>3 DEF IInv
      <4> QED BY <1>1, <1>2, <3>2, <3>3, <4>1 DEF IInv, TypeOK
    <3>4. CASE i # QueueLen
      <4>1. i \in 0..QueueLen - 1 /\ 0 \in 0..QueueLen - 1 /\ i # 0
        BY <3>4
      <4>2. After(head, i) # tail
        BY <1>1, <2>1, <4>1, AfterInjective
      <4>3. i + 1 \in 1..count /\ i + 1 - 1 = i
        BY <2>1, <4>1
      <4>4. Contents[i + 1] = queue[After(head, i)]
        BY <4>3, ContentsAre
      <4> QED BY <1>3, <3>2, <3>4, <4>1, <4>2, <4>4
    <3> QED BY <3>3, <3>4
  <2>5. Contents' = [i \in 1..QueueLen |-> IF i = QueueLen THEN e ELSE Contents[i + 1]]
    BY <2>3, <2>4
  <2>6. /\ Contents \in Seq(Event \cup {Zero}) /\ Len(Contents) = QueueLen
        /\ Contents # <<>>
    BY <2>1, ContentsAre
  <2>7. /\ Tail(Contents) \in Seq(Event \cup {Zero})
        /\ Len(Tail(Contents)) = QueueLen - 1
        /\ \A i \in 1..QueueLen - 1 : Tail(Contents)[i] = Contents[i + 1]
    BY <2>6, HeadTailProperties
  <2> DEFINE t == Tail(Contents)
  <2>8. Append(t, e) = [i \in 1..Len(t) + 1 |-> IF i = Len(t) + 1 THEN e ELSE t[i]]
    <3>1. t \in Seq(Event \cup {Zero}) /\ e \in Event \cup {Zero}
      BY <2>7
    <3> HIDE DEF t
    <3> QED BY <3>1, AppendIs
  <2>9. Append(t, e) = [i \in 1..QueueLen |-> IF i = QueueLen THEN e ELSE Contents[i + 1]]
    <3>1. /\ Len(t) = QueueLen - 1
          /\ \A i \in 1..QueueLen - 1 : t[i] = Contents[i + 1]
      BY <2>7
    <3> HIDE DEF t
    <3>2. Len(t) + 1 = QueueLen
      BY <3>1
    <3>3. ASSUME NEW i \in 1..QueueLen, i # QueueLen PROVE t[i] = Contents[i + 1]
      <4>1. i \in 1..QueueLen - 1
        BY <3>3
      <4> QED BY <3>1, <4>1
    <3> QED BY <2>8, <3>2, <3>3
  <2> QED BY <2>5, <2>6, <2>9
<1>5. CASE ~Full
  <2>1. count \in 0..QueueLen - 1 /\ tail = After(head, count)
    BY <1>1, <1>5, TailAfter DEF Full
  <2>2. count' = count + 1 /\ head' = head
    BY <1>5 DEF PushLocked
  <2>3. Contents' = [i \in 1..count + 1 |-> queue'[After(head, i - 1)]]
    BY <2>2 DEF Contents
  <2>4. ASSUME NEW i \in 1..count + 1
        PROVE  queue'[After(head, i - 1)] = IF i = count + 1 THEN e ELSE Contents[i]
    <3>1. i - 1 \in 0..QueueLen - 1
      BY <2>1
    <3>2. CASE i = count + 1
      <4>1. After(head, i - 1) = tail
        BY <2>1, <3>2
      <4> QED BY <1>3, <3>1, <3>2, <4>1
    <3>3. CASE i # count + 1
      <4>1. i \in 1..count /\ i - 1 # count
        BY <2>1, <3>3
      <4>2. After(head, i - 1) # tail
        BY <1>1, <2>1, <3>1, <4>1, AfterInjective
      <4>3. Contents[i] = queue[After(head, i - 1)]
        BY <4>1, ContentsAre
      <4> QED BY <1>3, <3>1, <3>3, <4>2, <4>3
    <3> QED BY <3>2, <3>3
  <2>5. Contents' = [i \in 1..count + 1 |-> IF i = count + 1 THEN e ELSE Contents[i]]
    BY <2>3, <2>4
  <2>6. Len(Contents) = count /\ count # QueueLen /\ Contents \in Seq(Event \cup {Zero})
    BY <2>1, ContentsAre
  <2>7. Append(Contents, e) =
          [i \in 1..Len(Contents) + 1 |-> IF i = Len(Contents) + 1 THEN e ELSE Contents[i]]
    BY <2>6, AppendIs
  <2> QED BY <2>5, <2>6, <2>7
<1> QED BY <1>4, <1>5

LEMMA TakeContents ==
    ASSUME IInv, NextEvent
    PROVE  /\ Contents # <<>>
           /\ taken' = Head(Contents)
           /\ Contents' = Tail(Contents)
<1>1. /\ count \in 1..QueueLen /\ count' = count - 1 /\ head \in Index
      /\ head' = After(head, 1) /\ queue' = queue /\ taken' = queue[head]
  BY DEF NextEvent, IInv, TypeOK
<1>2. /\ Contents \in Seq(Event \cup {Zero}) /\ Len(Contents) = count
      /\ \A i \in 1..count : Contents[i] = queue[After(head, i - 1)]
  BY ContentsAre
<1>3. Contents # <<>>
  BY <1>1, <1>2
<1>4. taken' = Head(Contents)
  <2>1. After(head, 0) = head
    BY TailAfter
  <2>2. Contents[1] = queue[After(head, 1 - 1)] /\ 1 - 1 = 0
    BY <1>1, <1>2
  <2>3. Head(Contents) = Contents[1]
    BY <1>2, <1>3, HeadTailProperties
  <2> QED BY <1>1, <2>1, <2>2, <2>3
<1>5. Contents' = [i \in 1..count - 1 |-> queue[After(After(head, 1), i - 1)]]
  BY <1>1 DEF Contents
<1>6. ASSUME NEW i \in 1..count - 1
      PROVE  queue[After(After(head, 1), i - 1)] = Contents[i + 1]
  <2>1. i - 1 \in 0..QueueLen - 1 /\ i - 1 + 1 = i /\ i + 1 \in 1..count /\ i + 1 - 1 = i
    BY <1>1
  <2>2. After(After(head, 1), i - 1) = After(head, i)
    BY <1>1, <2>1, AfterNext
  <2>3. Contents[i + 1] = queue[After(head, i)]
    BY <1>2, <2>1
  <2> QED BY <2>2, <2>3
<1>7. Tail(Contents) = [i \in 1..count - 1 |-> Contents[i + 1]]
  <2>1. /\ Tail(Contents) \in Seq(Event \cup {Zero})
        /\ Len(Tail(Contents)) = count - 1
        /\ \A i \in 1..count - 1 : Tail(Contents)[i] = Contents[i + 1]
    BY <1>2, <1>3, HeadTailProperties
  <2> DEFINE t == Tail(Contents)
  <2>2. t = [i \in 1..Len(t) |-> t[i]]
    BY <2>1, LenProperties
  <2> HIDE DEF t
  <2> QED BY <2>1, <2>2 DEF t
<1> QED BY <1>3, <1>4, <1>5, <1>6, <1>7

LEMMA ReplaceContents ==
    ASSUME IInv, NEW e \in Event, NEW n \in 0..count - 1,
           queue' = [queue EXCEPT ![After(head, n)] = e], UNCHANGED <<head, count>>
    PROVE  /\ n + 1 \in 1..Len(Contents)
           /\ Contents' = [Contents EXCEPT ![n + 1] = e]
<1>1. count \in 0..QueueLen /\ head \in Index /\ n \in 0..QueueLen - 1
  BY DEF IInv, TypeOK
<1>2. /\ Len(Contents) = count
      /\ Contents = [i \in 1..count |-> queue[After(head, i - 1)]]
  BY ContentsAre DEF Contents
<1>3. Contents' = [i \in 1..count |-> queue'[After(head, i - 1)]]
  BY DEF Contents
<1>4. ASSUME NEW i \in 1..count
      PROVE  queue'[After(head, i - 1)] =
               IF i = n + 1 THEN e ELSE queue[After(head, i - 1)]
  <2>1. i - 1 \in 0..QueueLen - 1 /\ i - 1 \in 0..QueueLen /\ (i = n + 1 <=> i - 1 = n)
    BY <1>1
  <2>2. After(head, i - 1) \in Index
    BY <1>1, <2>1, AfterIs
  <2>3. i - 1 # n => After(head, i - 1) # After(head, n)
    BY <1>1, <2>1, AfterInjective
  <2> QED BY <2>1, <2>2, <2>3 DEF IInv, TypeOK
<1>5. n + 1 \in 1..count
  BY <1>1
<1> HIDE DEF Contents
<1> QED BY <1>2, <1>3, <1>4, <1>5

(***************************************************************************)
(* The ring buffer, of any length and for any set of events, is the        *)
(* bounded queue of EventFifo that drops its oldest event.                 *)
(***************************************************************************)
THEOREM EventsImplementFifo == Spec => ImplementsFifo
<1>1. Init => Fifo!Init
  <2> SUFFICES ASSUME Init PROVE Fifo!Init
    OBVIOUS
  <2>1. Contents = <<>>
    BY DEF Init, Contents
  <2>2. taken \notin Event
    BY DEF Init
  <2> QED BY <2>1, <2>2 DEF Fifo!Init
<1>2. IInv /\ [Next]_vars => [Fifo!Next]_(<<Contents, taken>>)
  <2> SUFFICES ASSUME IInv, [Next]_vars
               PROVE  Fifo!Next \/ UNCHANGED <<Contents, taken>>
    OBVIOUS
  <2>1. ASSUME NEW e \in Event \ Registration, Queue(e)
        PROVE  Fifo!Next
    <3>1. Fifo!Push(e)
      BY <2>1, PushContents DEF Queue, Fifo!Push, Fifo!Put
    <3> QED BY <3>1 DEF Fifo!Next
  <2>2. ASSUME NEW e \in Registration, QueueRegistration(e)
        PROVE  Fifo!Next
    <3>1. Fifo!Register(e)
      <4>1. e \in Event /\ UNCHANGED taken
        BY <2>2 DEF QueueRegistration
      <4>2. Len(Contents) = count /\ count \in Nat
            /\ \A i \in 1..count : Contents[i] = queue[After(head, i - 1)]
        BY ContentsAre DEF IInv, TypeOK
      <4>3. CASE Found # {} /\ UNCHANGED <<head, tail, count>>
        <5>1. PICK n \in Found : queue' = [queue EXCEPT ![After(head, n)] = e]
          BY <2>2, <4>3 DEF QueueRegistration, PushLocked
        <5>2. n \in 0..count - 1 /\ queue[After(head, n)] \in Registration
          BY <5>1 DEF Found
        <5>3. n + 1 \in 1..count /\ n + 1 - 1 = n
          BY <4>2, <5>2
        <5>4. n + 1 \in Fifo!Pos
          BY <4>2, <5>2, <5>3 DEF Fifo!Pos
        <5>5. Contents' = [Contents EXCEPT ![n + 1] = e]
          BY <4>1, <4>3, <5>1, <5>2, ReplaceContents
        <5> QED BY <4>1, <5>4, <5>5 DEF Fifo!Register
      <4>4. CASE Found = {} /\ PushLocked(e)
        <5>1. ASSUME NEW i \in Fifo!Pos PROVE FALSE
          <6>1. i \in 1..count /\ Contents[i] \in Registration
            BY <4>2, <5>1 DEF Fifo!Pos
          <6>2. i - 1 \in 0..count - 1
            BY <4>2, <6>1
          <6>3. i - 1 \in Found
            BY <4>2, <6>1, <6>2 DEF Found
          <6> QED BY <4>4, <6>3
        <5> QED BY <4>1, <4>4, <5>1, PushContents DEF Fifo!Register, Fifo!Put
      <4> QED BY <2>2, <4>3, <4>4 DEF QueueRegistration
    <3> QED BY <3>1 DEF Fifo!Next
  <2>3. CASE NextEvent
    BY <2>3, TakeContents DEF Fifo!Next, Fifo!Take
  <2>4. CASE UNCHANGED vars
    BY <2>4 DEF vars, Contents
  <2> QED BY <2>1, <2>2, <2>3, <2>4 DEF Next
<1> QED
  BY <1>1, <1>2, IInvInit, IInvStep, PTL DEF Spec, ImplementsFifo, Fifo!Spec

----------------------------------------------------------------------------
(* The one registration request among the events held.                     *)

\* At most one event of s is a registration request, and it is x.
OnlyRequest(s, x) ==
    \A i, j \in 1..Len(s) :
        s[i] \in Registration /\ s[j] \in Registration => i = j /\ s[i] = x

LEMMA TailKeepsOnly ==
    ASSUME NEW S, NEW s \in Seq(S), s # <<>>, NEW x, OnlyRequest(s, x)
    PROVE  OnlyRequest(Tail(s), x)
<1>1. /\ Len(Tail(s)) = Len(s) - 1 /\ Len(s) \in Nat
      /\ \A i \in 1..Len(Tail(s)) : Tail(s)[i] = s[i + 1] /\ i + 1 \in 1..Len(s)
  BY HeadTailProperties, LenProperties
<1>2. ASSUME NEW i \in 1..Len(Tail(s)), NEW j \in 1..Len(Tail(s)),
             Tail(s)[i] \in Registration, Tail(s)[j] \in Registration
      PROVE  i = j /\ Tail(s)[i] = x
  <2>1. i + 1 = j + 1 /\ s[i + 1] = x
    BY <1>1, <1>2 DEF OnlyRequest
  <2> QED BY <1>1, <2>1
<1> QED BY <1>2 DEF OnlyRequest

LEMMA AppendKeepsOnly ==
    ASSUME NEW S, NEW s \in Seq(S), NEW x, OnlyRequest(s, x),
           NEW e \in S, e \notin Registration
    PROVE  OnlyRequest(Append(s, e), x)
<1>1. /\ Len(Append(s, e)) = Len(s) + 1 /\ Len(s) \in Nat
      /\ \A i \in 1..Len(s) : Append(s, e)[i] = s[i]
      /\ Append(s, e)[Len(s) + 1] = e
  BY AppendProperties, LenProperties
<1>2. \A i \in 1..Len(Append(s, e)) :
         Append(s, e)[i] \in Registration => i \in 1..Len(s) /\ Append(s, e)[i] = s[i]
  BY <1>1
<1> QED BY <1>2 DEF OnlyRequest

LEMMA AppendFirst ==
    ASSUME NEW S, NEW s \in Seq(S), NEW e \in S,
           \A i \in 1..Len(s) : s[i] \notin Registration
    PROVE  OnlyRequest(Append(s, e), e)
<1>1. /\ Len(Append(s, e)) = Len(s) + 1 /\ Len(s) \in Nat
      /\ \A i \in 1..Len(s) : Append(s, e)[i] = s[i]
      /\ Append(s, e)[Len(s) + 1] = e
  BY AppendProperties, LenProperties
<1>2. \A i \in 1..Len(Append(s, e)) :
         Append(s, e)[i] \in Registration => i = Len(s) + 1 /\ Append(s, e)[i] = e
  BY <1>1
<1> QED BY <1>2 DEF OnlyRequest

\* The events held, in terms of which the property is inductive.
OnlyLatest == OnlyRequest(Contents, reason)

LEMMA OnlyLatestInit == Init => OnlyLatest
<1> SUFFICES ASSUME Init PROVE OnlyLatest
  OBVIOUS
<1>1. Contents = <<>>
  BY DEF Init, Contents
<1> QED BY <1>1 DEF OnlyLatest, OnlyRequest

LEMMA OnlyLatestStep == IInv /\ OnlyLatest /\ [Next]_vars => OnlyLatest'
<1> SUFFICES ASSUME IInv, OnlyLatest, [Next]_vars PROVE OnlyLatest'
  OBVIOUS
<1> DEFINE c == Contents
           S == Event \cup {Zero}
<1>1. /\ c \in Seq(S) /\ Len(c) = count /\ count \in Nat /\ QueueLen \in Nat \ {0}
      /\ \A i \in 1..count : c[i] = queue[After(head, i - 1)]
      /\ OnlyRequest(c, reason)
  BY ContentsAre DEF IInv, TypeOK, OnlyLatest
<1>2. OnlyLatest' = OnlyRequest(c', reason')
  BY DEF OnlyLatest, OnlyRequest
<1>3. ASSUME NEW e \in Event \ Registration, Queue(e) PROVE OnlyRequest(c', reason')
  <2>1. c' = Append(IF Len(c) = QueueLen THEN Tail(c) ELSE c, e) /\ reason' = reason
    BY <1>3, PushContents DEF Queue
  <2> HIDE DEF c, S
  <2>2. CASE Len(c) = QueueLen
    <3>1. c # <<>>
      BY <1>1, <2>2
    <3>2. Tail(c) \in Seq(S) /\ e \in S
      BY <1>1, <3>1, HeadTailProperties DEF S
    <3> QED BY <1>1, <1>3, <2>1, <2>2, <3>1, <3>2, TailKeepsOnly, AppendKeepsOnly
  <2>3. CASE Len(c) # QueueLen
    <3>1. e \in S
      BY DEF S
    <3> QED BY <1>1, <1>3, <2>1, <2>3, <3>1, AppendKeepsOnly
  <2> QED BY <2>2, <2>3
<1>4. ASSUME NEW e \in Registration, QueueRegistration(e) PROVE OnlyRequest(c', reason')
  <2>1. e \in Event /\ e \in S /\ reason' = e
    BY <1>4 DEF QueueRegistration
  <2>2. CASE Found # {} /\ UNCHANGED <<head, tail, count>>
    <3>1. PICK n \in Found : queue' = [queue EXCEPT ![After(head, n)] = e]
      BY <1>4, <2>2 DEF QueueRegistration, PushLocked
    <3>2. n \in 0..count - 1 /\ queue[After(head, n)] \in Registration
      BY <3>1 DEF Found
    <3>3. n + 1 \in 1..count /\ n + 1 - 1 = n
      BY <1>1, <3>2
    <3>4. c[n + 1] \in Registration
      BY <1>1, <3>2, <3>3
    <3>5. c' = [c EXCEPT ![n + 1] = e]
      BY <2>1, <2>2, <3>1, <3>2, ReplaceContents
    <3> HIDE DEF c, S
    <3>6. /\ Len(c') = Len(c)
          /\ \A i \in 1..Len(c) : c'[i] = IF i = n + 1 THEN e ELSE c[i]
      BY <1>1, <3>3, <3>5
    <3>7. \A i \in 1..Len(c') : c'[i] \in Registration => i = n + 1 /\ c'[i] = e
      BY <1>1, <3>3, <3>4, <3>6 DEF OnlyRequest
    <3> QED BY <2>1, <3>7 DEF OnlyRequest
  <2>3. CASE Found = {} /\ PushLocked(e)
    <3>1. c' = Append(IF Len(c) = QueueLen THEN Tail(c) ELSE c, e)
      BY <2>1, <2>3, PushContents
    <3>2. ASSUME NEW i \in 1..Len(c) PROVE c[i] \notin Registration
      <4>1. i - 1 \in 0..count - 1 /\ i - 1 \notin Found
        BY <1>1, <2>3
      <4> QED BY <1>1, <4>1 DEF Found
    <3> HIDE DEF c, S
    <3>3. CASE Len(c) = QueueLen
      <4>1. c # <<>>
        BY <1>1, <3>3
      <4>2. /\ Tail(c) \in Seq(S) /\ Len(Tail(c)) = Len(c) - 1
            /\ \A i \in 1..Len(Tail(c)) : Tail(c)[i] = c[i + 1] /\ i + 1 \in 1..Len(c)
        BY <1>1, <4>1, HeadTailProperties, LenProperties
      <4>3. \A i \in 1..Len(Tail(c)) : Tail(c)[i] \notin Registration
        BY <3>2, <4>2
      <4> QED BY <2>1, <3>1, <3>3, <4>2, <4>3, AppendFirst
    <3>4. CASE Len(c) # QueueLen
      BY <1>1, <2>1, <3>1, <3>2, <3>4, AppendFirst
    <3> QED BY <3>3, <3>4
  <2> QED BY <1>4, <2>2, <2>3 DEF QueueRegistration
<1>5. ASSUME NextEvent PROVE OnlyRequest(c', reason')
  <2>1. c # <<>> /\ c' = Tail(c) /\ reason' = reason
    BY <1>5, TakeContents DEF NextEvent
  <2> HIDE DEF c, S
  <2> QED BY <1>1, <2>1, TailKeepsOnly
<1>6. ASSUME UNCHANGED vars PROVE OnlyRequest(c', reason')
  <2>1. c' = c /\ reason' = reason
    BY <1>6 DEF vars, Contents
  <2> QED BY <1>1, <2>1
<1> QED BY <1>2, <1>3, <1>4, <1>5, <1>6 DEF Next

(***************************************************************************)
(* In a ring of any length there is never more than one request to         *)
(* register, and it carries the last reason queued.                        *)
(***************************************************************************)
THEOREM EventsOneRegistration == Spec => []OneLatestRegistration
<1>1. IInv /\ OnlyLatest => OneLatestRegistration
  <2> SUFFICES ASSUME IInv, OnlyLatest, NEW m \in Found, NEW n \in Found
               PROVE  m = n /\ queue[After(head, n)] = reason
    BY DEF OneLatestRegistration
  <2>1. /\ m \in 0..count - 1 /\ queue[After(head, m)] \in Registration
        /\ n \in 0..count - 1 /\ queue[After(head, n)] \in Registration
    BY DEF Found
  <2>2. /\ Len(Contents) = count /\ count \in Nat
        /\ \A i \in 1..count : Contents[i] = queue[After(head, i - 1)]
    BY ContentsAre DEF IInv, TypeOK
  <2>3. /\ m + 1 \in 1..count /\ m + 1 - 1 = m
        /\ n + 1 \in 1..count /\ n + 1 - 1 = n
    BY <2>1, <2>2
  <2>4. ASSUME NEW k \in Found PROVE Contents[k + 1] = queue[After(head, k)]
    <3>1. PICK i \in 1..count : i = k + 1 /\ i - 1 = k
      BY <2>2 DEF Found
    <3>2. Contents[i] = queue[After(head, i - 1)]
      BY <2>2
    <3>3. After(head, i - 1) = After(head, k)
      BY <3>1, Zenon
    <3> QED BY <3>1, <3>2, <3>3
  <2>5. m + 1 = n + 1 /\ Contents[m + 1] = reason
    BY <2>1, <2>2, <2>3, <2>4 DEF OnlyLatest, OnlyRequest
  <2>6. m = n
    BY <2>1, <2>2, <2>5
  <2> QED BY <2>1, <2>4, <2>5, <2>6
<1> QED BY <1>1, IInvInit, IInvStep, OnlyLatestInit, OnlyLatestStep, PTL DEF Spec
=============================================================================
