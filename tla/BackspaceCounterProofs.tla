----------------------- MODULE BackspaceCounterProofs -----------------------
(***************************************************************************)
(* Proofs about BackspaceCounter, for ints of any width and any number of  *)
(* events and of calls.                                                    *)
(***************************************************************************)
EXTENDS BackspaceCounter, Induction, FiniteSetTheorems, SequenceTheorems

Ints == (-IntHalf)..(IntHalf - 1)

\* Wrapping gives an int, leaves ints alone and may be done at every addition
\* instead of once.
LEMMA WrapInt ==
    ASSUME NEW n \in Int
    PROVE  /\ Wrap(n) \in Ints
           /\ n \in Ints => Wrap(n) = n
           /\ Wrap(Wrap(n - 1) + 1) = Wrap(n)
<1> DEFINE w == 2 * IntHalf
<1> USE BkdAssumption
<1>1. w \in Nat \ {0}
  OBVIOUS
<1> HIDE DEF w
<1>2. \A m \in Int : m % w \in 0..(w - 1)
  BY <1>1, Remainder
<1>3. \A m \in 0..(w - 1) : m % w = m
  <2> SUFFICES ASSUME NEW m \in 0..(w - 1) PROVE m % w = m
    OBVIOUS
  <2>1. m = w * 0 + m
    BY <1>1
  <2> QED
    BY <1>1, <2>1, Remainder
<1>4. \A m \in Int : (((m - 1) % w) + 1) % w = m % w
  <2> SUFFICES ASSUME NEW m \in Int PROVE (((m - 1) % w) + 1) % w = m % w
    OBVIOUS
  <2> DEFINE l == m - 1
  <2>0. l \in Int
    OBVIOUS
  <2> HIDE DEF l
  <2>1. PICK q \in Int : l = w * q + (l % w)
    BY <1>1, <2>0, Remainder
  <2> DEFINE k == (l % w) + 1
  <2>2. k \in Int /\ m = w * q + k
    <3>1. l % w \in Int /\ w * q \in Int /\ m = l + 1
      BY <1>1, <1>2, <2>0 DEF l
    <3> QED
      BY <2>1, <3>1
  <2> HIDE DEF k
  <2>3. PICK p \in Int : k = w * p + (k % w)
    BY <1>1, <2>2, Remainder
  <2>4. w * q + w * p = w * (q + p) /\ q + p \in Int /\ k % w \in 0..(w - 1)
    BY <1>1, <1>2, <2>2
  <2>5. m = w * (q + p) + (k % w)
    BY <1>1, <2>2, <2>3, <2>4
  <2>6. m % w = k % w
    BY <1>1, <2>4, <2>5, Remainder
  <2> QED
    BY <2>6 DEF k, l
<1>5. Wrap(n) = ((n + IntHalf) % w) - IntHalf /\ Wrap(n) \in Ints
  BY <1>2 DEF Wrap, Ints, w
<1>6. n \in Ints => Wrap(n) = n
  BY <1>3, <1>5 DEF Ints, w
<1>7. Wrap(Wrap(n - 1) + 1) = Wrap(n)
  <2> DEFINE m == n + IntHalf
  <2>1. m \in Int /\ (m - 1) % w \in 0..(w - 1)
    BY <1>2
  <2>2. Wrap(n - 1) = ((m - 1) % w) - IntHalf
    <3>1. n - 1 + IntHalf = m - 1
      OBVIOUS
    <3> QED
      BY <3>1 DEF Wrap, w
  <2>3. (Wrap(n - 1) + 1) + IntHalf = ((m - 1) % w) + 1
    BY <2>1, <2>2
  <2>4. Wrap(Wrap(n - 1) + 1) = (m % w) - IntHalf
    BY <1>4, <2>1, <2>3 DEF Wrap, w
  <2> QED
    BY <1>5, <2>4
<1> QED
  BY <1>5, <1>6, <1>7

\* The number of counted events, when a sequence grows and in a part of it.
LEMMA NrCountedAppend ==
    ASSUME NEW s \in Seq(Events), NEW e \in Events
    PROVE  /\ NrCounted(s) \in Nat
           /\ NrCounted(Append(s, e)) = NrCounted(s) + (IF Counted(e) THEN 1 ELSE 0)
<1> DEFINE S == {i \in DOMAIN s : Counted(s[i])}
           T == {i \in DOMAIN Append(s, e) : Counted(Append(s, e)[i])}
<1>1. DOMAIN s = 1..Len(s) /\ Len(s) \in Nat
  OBVIOUS
<1>2. IsFiniteSet(S)
  <2>1. IsFiniteSet(1..Len(s)) /\ S \subseteq 1..Len(s)
    BY <1>1, FS_Interval
  <2> QED
    BY <2>1, FS_Subset
<1>3. /\ DOMAIN Append(s, e) = 1..(Len(s) + 1)
      /\ \A i \in 1..Len(s) : Append(s, e)[i] = s[i]
      /\ Append(s, e)[Len(s) + 1] = e
  OBVIOUS
<1>4. T = IF Counted(e) THEN S \cup {Len(s) + 1} ELSE S
  BY <1>1, <1>3
<1>5. Len(s) + 1 \notin S
  BY <1>1
<1>6. Cardinality(S) \in Nat
  BY <1>2, FS_CardinalityType
<1>7. Cardinality(S \cup {Len(s) + 1}) = Cardinality(S) + 1
  BY <1>2, <1>5, FS_AddElement
<1> HIDE DEF S, T
<1>8. Cardinality(T) = Cardinality(S) + (IF Counted(e) THEN 1 ELSE 0)
  BY <1>4, <1>6, <1>7
<1> QED
  BY <1>6, <1>8 DEF NrCounted, S, T

LEMMA NrCountedPart ==
    ASSUME NEW s \in Seq(Events), NEW n \in 0..Len(s)
    PROVE  NrCounted(SubSeq(s, 1, n)) <= NrCounted(s)
<1> DEFINE S == {i \in DOMAIN s : Counted(s[i])}
           T == {i \in DOMAIN SubSeq(s, 1, n) : Counted(SubSeq(s, 1, n)[i])}
<1>1. DOMAIN s = 1..Len(s) /\ Len(s) \in Nat
  OBVIOUS
<1>2. IsFiniteSet(S)
  <2>1. IsFiniteSet(1..Len(s)) /\ S \subseteq 1..Len(s)
    BY <1>1, FS_Interval
  <2> QED
    BY <2>1, FS_Subset
<1>3. DOMAIN SubSeq(s, 1, n) = 1..n /\ \A i \in 1..n : SubSeq(s, 1, n)[i] = s[i]
  BY <1>1, SubSeqProperties
<1>4. T \subseteq S
  BY <1>1, <1>3
<1> QED
  BY <1>2, <1>4, FS_Subset DEF NrCounted
---------------------------------------------------------------------------
\* The replies that callers can get.
CountReply == [to : {"GetBackspaceCount"}, count : Ints, read : Seq(Events)]
OtherReply == [to : {"Introspect", "OtherMember"}]

Shapes ==
    /\ device \in Seq(Events) /\ happened \in Seq(Events)
    /\ calls \in Seq(Messages)
    /\ replies \in Seq(CountReply \cup OtherReply)
    /\ main = "exited" => detector \in {"none", "ended"}
    /\ main = "start" => detector = "none"
    /\ main = "bus" => detector # "none"

Consumed == Len(happened) - Len(device)

\* What read() has not returned is what came to the device last.
DeviceIsTheRest ==
    \A i \in 1..Len(device) : device[i] = happened[Consumed + i]

\* The counter is the number of events counted, but for the one in hand.
CounterCounts ==
    main # "exited" =>
        IF detector = "count"
        THEN NrCounted(ReadEvents) > 0 /\ counter = Wrap(NrCounted(ReadEvents) - 1)
        ELSE counter = Wrap(NrCounted(ReadEvents))

\* While the counter has not wrapped it is above every reply.
RepliesBelow ==
    NrCounted(happened) < IntHalf =>
        \A i \in DOMAIN replies : IsCount(replies[i]) => replies[i].count <= counter

IInv == TypeOK /\ Shapes /\ DeviceIsTheRest /\ CounterCounts
           /\ RepliesCount /\ RepliesBelow /\ RepliesGrow

LEMMA InitInv == Init => IInv
<1> SUFFICES ASSUME Init PROVE IInv
  OBVIOUS
<1>1. ReadEvents = <<>> /\ NrCounted(<<>>) = 0
  <2>1. ReadEvents = <<>>
    BY DEF Init, ReadEvents
  <2>2. {i \in DOMAIN <<>> : Counted(<<>>[i])} = {}
    OBVIOUS
  <2> QED
    BY <2>1, <2>2, FS_EmptySet DEF NrCounted
<1>2. TypeOK /\ Shapes
  BY BkdAssumption DEF Init, TypeOK, Shapes, Events, OtherKey
<1>3. Wrap(0) = 0
  BY WrapInt, BkdAssumption DEF Ints
<1> QED
  BY <1>1, <1>2, <1>3 DEF Init, IInv, DeviceIsTheRest, CounterCounts,
     RepliesCount, RepliesBelow, RepliesGrow

\* Steps that leave the replies and the events alone.
LEMMA SameReplies ==
    ASSUME IInv, replies' = replies, happened' = happened,
           NrCounted(happened) < IntHalf => counter' >= counter,
           counter' \in Ints
    PROVE  RepliesCount' /\ RepliesBelow' /\ RepliesGrow'
<1>1. \A i \in DOMAIN replies : IsCount(replies[i]) => replies[i].count \in Int
  BY DEF IInv, Shapes, CountReply, OtherReply, IsCount, Ints
<1>2. counter \in Int /\ counter' \in Int
  BY BkdAssumption DEF IInv, TypeOK, Ints
<1>3. RepliesCount'
  BY DEF IInv, RepliesCount
<1>4. RepliesBelow'
  BY <1>1, <1>2 DEF IInv, RepliesBelow
<1>5. RepliesGrow'
  BY DEF IInv, RepliesGrow
<1> QED
  BY <1>3, <1>4, <1>5

\* The events read are a part of the events.
LEMMA ReadEventsPart ==
    ASSUME IInv
    PROVE  /\ Consumed \in 0..Len(happened)
           /\ ReadEvents \in Seq(Events) /\ Len(ReadEvents) = Consumed
           /\ \A i \in 1..Consumed : ReadEvents[i] = happened[i]
           /\ NrCounted(ReadEvents) \in Nat /\ NrCounted(happened) \in Nat
           /\ NrCounted(ReadEvents) <= NrCounted(happened)
<1>1. /\ device \in Seq(Events) /\ happened \in Seq(Events)
      /\ Consumed \in 0..Len(happened)
  BY DEF IInv, Shapes, TypeOK, Consumed
<1>2. /\ ReadEvents \in Seq(Events) /\ Len(ReadEvents) = Consumed
      /\ \A i \in 1..Consumed : ReadEvents[i] = happened[i]
  <2>1. \A i \in 1..Consumed : happened[i] \in Events
    BY <1>1
  <2> QED
    BY <1>1, <2>1, SubSeqProperties DEF ReadEvents, Consumed
<1>3. NrCounted(ReadEvents) <= NrCounted(happened)
  BY <1>1, NrCountedPart DEF ReadEvents, Consumed
<1>4. OtherKey \in Events
  BY DEF Events
<1> QED
  BY <1>1, <1>2, <1>3, <1>4, NrCountedAppend

LEMMA KeyEventKeepsInv == IInv /\ KeyEvent => IInv'
<1> SUFFICES ASSUME IInv, KeyEvent PROVE IInv'
  OBVIOUS
<1>1. PICK e \in Events : device' = Append(device, e) /\ happened' = Append(happened, e)
  BY DEF KeyEvent
<1>2. device \in Seq(Events) /\ happened \in Seq(Events)
      /\ Consumed \in 0..Len(happened) /\ Consumed + Len(device) = Len(happened)
  BY DEF IInv, Shapes, TypeOK, Consumed
<1>3. /\ device' \in Seq(Events) /\ Len(device') = Len(device) + 1
      /\ \A i \in 1..Len(device) : device'[i] = device[i]
      /\ device'[Len(device) + 1] = e
      /\ happened' \in Seq(Events) /\ Len(happened') = Len(happened) + 1
      /\ \A i \in 1..Len(happened) : happened'[i] = happened[i]
      /\ happened'[Len(happened) + 1] = e
  BY <1>1, <1>2
<1>4. Consumed' = Consumed
  BY <1>2, <1>3 DEF Consumed
<1>5. ReadEvents' = ReadEvents
  <2>1. /\ ReadEvents = [i \in 1..Consumed |-> happened[i]]
        /\ ReadEvents' = [i \in 1..Consumed |-> happened'[i]]
    BY <1>2, <1>3, <1>4 DEF ReadEvents, Consumed
  <2> QED
    BY <1>2, <1>3, <2>1
<1>6. TypeOK' /\ Shapes'
  BY <1>2, <1>3, BkdAssumption DEF KeyEvent, IInv, TypeOK, Shapes
<1>7. DeviceIsTheRest'
  <2> SUFFICES ASSUME NEW i \in 1..Len(device') PROVE device'[i] = happened'[Consumed + i]
    BY <1>4 DEF DeviceIsTheRest
  <2>1. CASE i \in 1..Len(device)
    <3>1. Consumed + i \in 1..Len(happened)
      BY <1>2, <2>1
    <3> QED
      BY <1>3, <2>1, <3>1 DEF IInv, DeviceIsTheRest
  <2>2. CASE i = Len(device) + 1
    <3>1. Consumed + i = Len(happened) + 1
      BY <1>2, <2>2
    <3> QED
      BY <1>3, <2>2, <3>1
  <2> QED
    BY <1>2, <1>3, <2>1, <2>2
<1>8. CounterCounts'
  BY <1>5 DEF KeyEvent, IInv, CounterCounts
<1>9. NrCounted(happened) \in Nat /\ NrCounted(happened') \in Nat
      /\ NrCounted(happened) <= NrCounted(happened')
  BY <1>1, <1>2, <1>3, NrCountedAppend
<1>10. NrCounted(happened)' < IntHalf => NrCounted(happened) < IntHalf
  BY <1>9, BkdAssumption
<1>11. RepliesCount' /\ RepliesBelow' /\ RepliesGrow'
  BY <1>10 DEF KeyEvent, IInv, RepliesCount, RepliesBelow, RepliesGrow
<1> QED
  BY <1>6, <1>7, <1>8, <1>11 DEF IInv

LEMMA CallKeepsInv == IInv /\ CallArrives => IInv'
<1> SUFFICES ASSUME IInv, CallArrives PROVE IInv'
  OBVIOUS
<1>1. TypeOK' /\ Shapes'
  <2>1. PICK msg \in Messages : calls' = Append(calls, msg)
    BY DEF CallArrives
  <2>2. calls \in Seq(Messages) /\ Len(replies) \in Nat
    BY DEF IInv, Shapes
  <2>3. calls' \in Seq(Messages) /\ Len(calls') = Len(calls) + 1
    BY <2>1, <2>2
  <2> QED
    BY <2>2, <2>3, BkdAssumption DEF CallArrives, IInv, TypeOK, Shapes
<1>2. Consumed' = Consumed /\ ReadEvents' = ReadEvents
  BY DEF CallArrives, Consumed, ReadEvents
<1> QED
  BY <1>1, <1>2 DEF CallArrives, IInv, DeviceIsTheRest, CounterCounts,
     RepliesCount, RepliesBelow, RepliesGrow

\* read() takes the next event over; the number counted is one higher if it
\* is one to count, which the detector then has in hand.
LEMMA DetectorKeepsInv == IInv /\ backspace_detector => IInv'
<1> SUFFICES ASSUME IInv, backspace_detector PROVE IInv'
  OBVIOUS
<1>1. CASE detector' = "ended" /\ UNCHANGED <<ev, device>>
  <2>1. TypeOK' /\ Shapes'
    BY <1>1 DEF backspace_detector, IInv, TypeOK, Shapes
  <2>2. Consumed' = Consumed /\ ReadEvents' = ReadEvents
    BY <1>1 DEF backspace_detector, Consumed, ReadEvents
  <2> QED
    BY <1>1, <2>1, <2>2 DEF backspace_detector, IInv, DeviceIsTheRest, CounterCounts,
       RepliesCount, RepliesBelow, RepliesGrow
<1>2. CASE /\ device # <<>> /\ ev' = Head(device) /\ device' = Tail(device)
           /\ detector' = IF Counted(ev') THEN "count" ELSE "read"
  <2>1. /\ device \in Seq(Events) /\ happened \in Seq(Events) /\ Len(device) > 0
        /\ Consumed \in 0..Len(happened) /\ Consumed + Len(device) = Len(happened)
    BY <1>2 DEF IInv, Shapes, TypeOK, Consumed
  <2>2. /\ ev' \in Events /\ ev' = device[1]
        /\ device' \in Seq(Events) /\ Len(device') = Len(device) - 1
        /\ \A i \in 1..Len(device') : device'[i] = device[i + 1]
        /\ happened' = happened
    BY <1>2, <2>1, HeadTailProperties DEF backspace_detector
  <2>3. Consumed' = Consumed + 1
    BY <2>1, <2>2 DEF Consumed
  <2>4. TypeOK' /\ Shapes'
    BY <1>2, <2>1, <2>2 DEF backspace_detector, IInv, TypeOK, Shapes
  <2>5. DeviceIsTheRest'
    <3> SUFFICES ASSUME NEW i \in 1..Len(device') PROVE device'[i] = happened[Consumed + 1 + i]
      BY <2>2, <2>3 DEF DeviceIsTheRest
    <3>1. i + 1 \in 1..Len(device) /\ Consumed + (i + 1) = Consumed + 1 + i
      BY <2>1, <2>2
    <3> QED
      BY <2>2, <3>1 DEF IInv, DeviceIsTheRest
  <2>6. ReadEvents' = Append(ReadEvents, ev')
    <3>1. happened[Consumed + 1] = ev'
      BY <2>1, <2>2 DEF IInv, DeviceIsTheRest
    <3>2. /\ ReadEvents = [i \in 1..Consumed |-> happened[i]]
          /\ ReadEvents' = [i \in 1..(Consumed + 1) |-> happened[i]]
      BY <2>1, <2>2, <2>3 DEF ReadEvents, Consumed
    <3>3. Append(ReadEvents, ev') = [i \in 1..(Consumed + 1) |-> IF i <= Consumed THEN happened[i] ELSE ev']
      BY <2>1, <3>2
    <3> QED
      BY <2>1, <3>1, <3>2, <3>3
  <2>7. CounterCounts'
    <3>1. /\ NrCounted(ReadEvents) \in Nat
          /\ NrCounted(ReadEvents)' = NrCounted(ReadEvents) + (IF Counted(ev') THEN 1 ELSE 0)
      BY <2>2, <2>6, ReadEventsPart, NrCountedAppend
    <3>2. main # "exited" => counter = Wrap(NrCounted(ReadEvents))
      BY DEF backspace_detector, IInv, CounterCounts
    <3>3. (NrCounted(ReadEvents) + 1) - 1 = NrCounted(ReadEvents)
      BY <3>1
    <3>4. counter' = counter /\ main' = main
      BY DEF backspace_detector
    <3>5. CASE Counted(ev')
      BY <1>2, <3>1, <3>2, <3>3, <3>4, <3>5 DEF CounterCounts
    <3>6. CASE ~ Counted(ev')
      BY <1>2, <3>1, <3>2, <3>4, <3>6 DEF CounterCounts
    <3> QED
      BY <3>5, <3>6
  <2> QED
    BY <2>2, <2>4, <2>5, <2>7 DEF backspace_detector, IInv, RepliesCount, RepliesBelow, RepliesGrow
<1> QED
  BY <1>1, <1>2 DEF backspace_detector

\* The counter takes over the event in hand; it does not go back unless it
\* wraps, which it does not before it reaches the half.
LEMMA CountKeepsInv == IInv /\ count => IInv'
<1> SUFFICES ASSUME IInv, count PROVE IInv'
  OBVIOUS
<1> DEFINE n == NrCounted(ReadEvents)
<1>1. n \in Nat /\ n > 0 /\ counter = Wrap(n - 1) /\ n <= NrCounted(happened)
      /\ NrCounted(happened) \in Nat
  BY ReadEventsPart DEF count, IInv, CounterCounts, Shapes
<1>2. counter' = Wrap(n) /\ counter' \in Ints /\ counter \in Ints
  BY <1>1, WrapInt DEF count
<1>3. ReadEvents' = ReadEvents /\ Consumed' = Consumed
  BY DEF count, ReadEvents, Consumed
<1>4. TypeOK' /\ Shapes' /\ DeviceIsTheRest'
  BY <1>2, <1>3 DEF count, IInv, TypeOK, Shapes, DeviceIsTheRest, Ints
<1>5. CounterCounts'
  BY <1>2, <1>3 DEF count, CounterCounts
<1>6. NrCounted(happened) < IntHalf => counter' >= counter
  <2> HAVE NrCounted(happened) < IntHalf
  <2>1. n \in Ints /\ n - 1 \in Ints
    BY <1>1, BkdAssumption DEF Ints
  <2>2. Wrap(n) = n /\ Wrap(n - 1) = n - 1
    BY <2>1, WrapInt DEF Ints
  <2> QED
    BY <1>1, <1>2, <2>2
<1>7. replies' = replies /\ happened' = happened
  BY DEF count
<1>8. RepliesCount' /\ RepliesBelow' /\ RepliesGrow'
  BY <1>2, <1>6, <1>7, SameReplies
<1> QED
  BY <1>4, <1>5, <1>8 DEF IInv

LEMMA StartKeepsInv == IInv /\ (bkd_start_daemon \/ register) => IInv'
<1> SUFFICES ASSUME IInv, bkd_start_daemon \/ register PROVE IInv'
  OBVIOUS
<1>1. UNCHANGED <<device, ev, counter, calls, replies, happened>>
  BY DEF bkd_start_daemon, register
<1>2. TypeOK' /\ Shapes'
  BY <1>1 DEF bkd_start_daemon, register, IInv, TypeOK, Shapes
<1>3. ReadEvents' = ReadEvents /\ Consumed' = Consumed
  BY <1>1 DEF ReadEvents, Consumed
<1>4. CounterCounts'
  BY <1>1, <1>3 DEF bkd_start_daemon, register, IInv, CounterCounts, TypeOK, Shapes
<1> QED
  BY <1>1, <1>2, <1>3, <1>4 DEF IInv, DeviceIsTheRest, RepliesCount, RepliesBelow, RepliesGrow

\* A call that names no interface ends the process; nothing else changes.
LEMMA CrashKeepsInv ==
    ASSUME IInv, tutorial_messages, Head(calls) = "NoInterface"
    PROVE  IInv'
<1>1. /\ main' = "exited" /\ detector' = "ended"
      /\ UNCHANGED <<device, ev, counter, calls, replies, happened>>
  BY DEF tutorial_messages
<1>2. TypeOK' /\ Shapes'
  BY <1>1 DEF IInv, TypeOK, Shapes
<1>3. ReadEvents' = ReadEvents /\ Consumed' = Consumed
  BY <1>1 DEF ReadEvents, Consumed
<1> QED
  BY <1>1, <1>2, <1>3 DEF IInv, DeviceIsTheRest, CounterCounts, RepliesCount, RepliesBelow, RepliesGrow

\* A reply is added; one that counts has the counter of now.
LEMMA AnswerKeepsInv ==
    ASSUME IInv, tutorial_messages, Head(calls) # "NoInterface"
    PROVE  IInv'
<1> DEFINE n == NrCounted(ReadEvents)
           CountingReply == [to |-> Head(calls), count |-> counter, read |-> ReadEvents]
<1>1. PICK r \in CountReply \cup OtherReply :
         /\ replies' = Append(replies, r)
         /\ IsCount(r) => r = CountingReply
         /\ counter' = counter
  <2>1. calls \in Seq(Messages) /\ calls # <<>> /\ Head(calls) \in Messages
    BY DEF IInv, Shapes, tutorial_messages
  <2>2. CASE /\ Head(calls) = "GetBackspaceCount"
             /\ replies' = Append(replies, CountingReply)
             /\ bkd_get_current_count
    <3>1. counter \in Ints /\ ReadEvents \in Seq(Events)
      BY ReadEventsPart DEF IInv, TypeOK, Ints
    <3>2. CountingReply \in CountReply
      BY <2>2, <3>1 DEF CountReply
    <3> QED
      BY <2>2, <3>2 DEF bkd_get_current_count
  <2>3. CASE /\ Head(calls) \notin {"GetBackspaceCount", "NoInterface"}
             /\ replies' = Append(replies, [to |-> Head(calls)])
             /\ UNCHANGED counter
    <3>1. [to |-> Head(calls)] \in OtherReply
      BY <2>1, <2>3, BkdAssumption DEF OtherReply
    <3>2. ~ IsCount([to |-> Head(calls)])
      BY <2>3 DEF IsCount
    <3> QED
      BY <2>3, <3>1, <3>2
  <2> QED
    BY <2>2, <2>3 DEF tutorial_messages
<1>2. /\ UNCHANGED <<main, detector, device, ev, happened>>
      /\ main = "serve" /\ calls # <<>> /\ calls' = Tail(calls)
  BY DEF tutorial_messages, Serving
<1> DEFINE k == Len(replies)
<1>3. /\ replies \in Seq(CountReply \cup OtherReply) /\ calls \in Seq(Messages)
      /\ k \in Nat /\ DOMAIN replies = 1..k /\ counter \in Ints
  BY DEF IInv, Shapes, TypeOK, Ints
<1>4. /\ replies' \in Seq(CountReply \cup OtherReply) /\ Len(replies') = k + 1
      /\ DOMAIN replies' = 1..(k + 1)
      /\ \A i \in 1..k : replies'[i] = replies[i]
      /\ replies'[k + 1] = r
  BY <1>1, <1>3
<1>5. calls' \in Seq(Messages) /\ Len(calls') = Len(calls) - 1 /\ Len(calls) > 0
  BY <1>2, <1>3, HeadTailProperties
<1>6. TypeOK' /\ Shapes'
  BY <1>1, <1>2, <1>3, <1>4, <1>5 DEF IInv, TypeOK, Shapes
<1>7. ReadEvents' = ReadEvents /\ Consumed' = Consumed
  BY <1>2 DEF ReadEvents, Consumed
<1>8. DeviceIsTheRest' /\ CounterCounts'
  BY <1>1, <1>2, <1>7 DEF IInv, DeviceIsTheRest, CounterCounts
<1>9. IsCount(r) => r.count = counter /\ r.read = ReadEvents
  BY <1>1
<1>10. RepliesCount'
  <2>1. IsCount(r) => counter = Wrap(n) \/ (n > 0 /\ counter = Wrap(n - 1))
    BY <1>2 DEF IInv, CounterCounts
  <2> SUFFICES ASSUME NEW i \in 1..(k + 1), IsCount(replies'[i])
               PROVE  LET m == NrCounted(replies'[i].read)
                      IN  \/ replies'[i].count = Wrap(m)
                          \/ m > 0 /\ replies'[i].count = Wrap(m - 1)
    BY <1>4 DEF RepliesCount
  <2>2. CASE i \in 1..k
    BY <1>3, <1>4, <2>2 DEF IInv, RepliesCount
  <2>3. CASE i = k + 1
    BY <1>4, <1>9, <2>1, <2>3
  <2> QED
    BY <1>3, <2>2, <2>3
<1>11. RepliesBelow'
  <2> SUFFICES ASSUME NrCounted(happened) < IntHalf, NEW i \in 1..(k + 1), IsCount(replies'[i])
               PROVE  replies'[i].count <= counter
    BY <1>1, <1>2, <1>4 DEF RepliesBelow
  <2>1. CASE i \in 1..k
    BY <1>3, <1>4, <2>1 DEF IInv, RepliesBelow
  <2>2. CASE i = k + 1
    BY <1>3, <1>4, <1>9, <2>2, BkdAssumption DEF Ints
  <2> QED
    BY <1>3, <2>1, <2>2
<1>12. RepliesGrow'
  <2> SUFFICES ASSUME NrCounted(happened) < IntHalf,
                      NEW i \in 1..(k + 1), NEW j \in 1..(k + 1),
                      i < j, IsCount(replies'[i]), IsCount(replies'[j])
               PROVE  replies'[i].count <= replies'[j].count
    BY <1>2, <1>4 DEF RepliesGrow
  <2>1. i \in 1..k
    BY <1>3
  <2>2. CASE j \in 1..k
    BY <1>3, <1>4, <2>1, <2>2 DEF IInv, RepliesGrow
  <2>3. CASE j = k + 1
    <3>1. replies[i].count <= counter
      BY <1>3, <1>4, <2>1 DEF IInv, RepliesBelow
    <3> QED
      BY <1>4, <1>9, <2>1, <2>3, <3>1
  <2> QED
    BY <1>3, <2>2, <2>3
<1> QED
  BY <1>6, <1>8, <1>10, <1>11, <1>12 DEF IInv

LEMMA InvInductive == IInv /\ [Next]_vars => IInv'
<1> SUFFICES ASSUME IInv, [Next]_vars PROVE IInv'
  OBVIOUS
<1>1. ASSUME UNCHANGED vars PROVE IInv'
  <2>1. Consumed' = Consumed /\ ReadEvents' = ReadEvents
    BY <1>1 DEF vars, Consumed, ReadEvents
  <2> QED
    BY <1>1, <2>1 DEF vars, IInv, TypeOK, Shapes, DeviceIsTheRest, CounterCounts,
       RepliesCount, RepliesBelow, RepliesGrow
<1>2. CASE Interrupted
  BY <1>1, <1>2 DEF Interrupted
<1>3. CASE backspace_detector
  BY <1>3, DetectorKeepsInv
<1>4. CASE count
  BY <1>4, CountKeepsInv
<1>5. CASE bkd_start_daemon \/ register
  BY <1>5, StartKeepsInv
<1>6. CASE tutorial_messages
  BY <1>6, AnswerKeepsInv, CrashKeepsInv
<1>7. CASE KeyEvent
  BY <1>7, KeyEventKeepsInv
<1>8. CASE CallArrives
  BY <1>8, CallKeepsInv
<1> QED
  BY <1>1, <1>2, <1>3, <1>4, <1>5, <1>6, <1>7, <1>8 DEF Next, Detector, Service

LEMMA Invariance == Spec => []IInv
<1>1. Init => IInv
  BY InitInv
<1>2. IInv /\ [Next]_vars => IInv'
  BY InvInductive
<1> QED
  BY <1>1, <1>2, PTL DEF Spec

\* The service's variables keep their types: the counter stays an int, and
\* calls are answered only while the thread has been started.
THEOREM Typing == Spec => []TypeOK
<1>1. IInv => TypeOK
  BY DEF IInv
<1> QED
  BY <1>1, Invariance, PTL

\* However the two threads interleave, GetBackspaceCount answers with the
\* number of presses and repetitions read so far, or with one less while the
\* detector has one in hand, modulo the width of the int.
THEOREM EveryReplyCounts == Spec => []RepliesCount
<1>1. IInv => RepliesCount
  BY DEF IInv
<1> QED
  BY <1>1, Invariance, PTL

\* GetBackspaceCount never answers with less than before as long as fewer
\* events were counted than the int can hold.
THEOREM RepliesNeverShrink == Spec => []RepliesGrow
<1>1. IInv => RepliesGrow
  BY DEF IInv
<1> QED
  BY <1>1, Invariance, PTL
=============================================================================
