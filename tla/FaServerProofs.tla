---------------------------- MODULE FaServerProofs ----------------------------
(***************************************************************************)
(* Proofs about FaServer, for any hosts, transaction ids and number of     *)
(* datagrams.                                                              *)
(***************************************************************************)
EXTENDS FaServer, Induction, SequenceTheorems

Datagram == [from : Hosts, hdr : Header, n : 0..3]

Announcement == [to : Hosts \cup {Self}, tid : 0..255]

LEMMA OverlayHeader ==
    ASSUME NEW b \in Header, NEW h \in Header, NEW n \in 0..3
    PROVE  Overlay(b, h, n) \in Header
BY DEF Overlay, Header

LEMMA ZeroedHeader == Zeroed \in Header
BY DEF Zeroed, Header, MsgTypes

LEMMA AnnouncedType ==
    ASSUME NEW q \in Seq(Announcement), NEW d \in Datagram
    PROVE  Announced(q, d) \in Seq(Announcement)
<1>1. Meaning(d) \in Header
  BY OverlayHeader, ZeroedHeader DEF Meaning, Datagram
<1>2. [to |-> Self, tid |-> Meaning(d).tid] \in Announcement
  BY <1>1 DEF Header, Announcement
<1> QED
  BY <1>2 DEF Announced

\* Announcements takes one datagram after the other.
LEMMA AnnouncementsSteps ==
    ASSUME NEW ds \in Seq(Datagram)
    PROVE  \E f \in [0..Len(ds) -> Seq(Announcement)] :
              /\ f[0] = <<>>
              /\ \A i \in 1..Len(ds) : f[i] = Announced(f[i - 1], ds[i])
              /\ Announcements(ds) = f[Len(ds)]
<1> DEFINE n == Len(ds)
           X == Seq(Announcement)
           upTo == CHOOSE g : g = [i \in 0..n |-> IF i = 0 THEN <<>> ELSE Announced(g[i - 1], ds[i])]
           step == [i \in 1..n |-> [x \in X |-> Announced(x, ds[i])]]
<1>1. Announcements(ds) = upTo[n]
  BY DEF Announcements
<1>2. n \in Nat /\ <<>> \in X /\ \A i \in 1..n : ds[i] \in Datagram
  OBVIOUS
<1>3. \A i \in 1..n, x \in X : step[i][x] = Announced(x, ds[i]) /\ Announced(x, ds[i]) \in X
  BY <1>2, AnnouncedType
<1> HIDE DEF n, step, X
<1>4. PICK f : Steps(f, n, X, <<>>, step)
  <2>1. \A i \in 1..n : \A x \in X : step[i][x] \in X
    BY <1>3
  <2> QED
    BY <1>2, <2>1, StepsExist
<1>5. /\ f \in [0..n -> X] /\ f[0] = <<>>
      /\ \A i \in 1..n : f[i] = Announced(f[i - 1], ds[i])
  <2>1. /\ f \in [0..n -> X] /\ f[0] = <<>>
        /\ \A i \in 1..n : f[i] = step[i][f[i - 1]]
    BY <1>4 DEF Steps
  <2>2. \A i \in 1..n : f[i - 1] \in X
    BY <1>2, <2>1
  <2> QED
    BY <1>3, <2>1, <2>2
<1>6. f = [i \in 0..n |-> IF i = 0 THEN <<>> ELSE Announced(f[i - 1], ds[i])]
  <2>1. \A i \in 0..n : f[i] = IF i = 0 THEN <<>> ELSE Announced(f[i - 1], ds[i])
    BY <1>2, <1>5
  <2> QED
    BY <1>5, <2>1
<1>7. upTo = [i \in 0..n |-> IF i = 0 THEN <<>> ELSE Announced(upTo[i - 1], ds[i])]
  BY <1>6
<1> HIDE DEF upTo
<1>8. upTo[0] = <<>> /\ \A i \in 1..n : upTo[i] = Announced(upTo[i - 1], ds[i])
  BY <1>2, <1>7
<1>9. \A i \in 0..n : f[i] = upTo[i]
  <2>1. \A i \in 1..n : f[i - 1] = upTo[i - 1] => f[i] = upTo[i]
    BY <1>5, <1>8
  <2>2. f[0] = upTo[0]
    BY <1>5, <1>8
  <2> QED
    BY <1>2, <2>1, <2>2, StepsAgree, SMTT(30)
<1> QED
  BY <1>1, <1>2, <1>5, <1>9 DEF X, n

LEMMA AnnouncementsAppend ==
    ASSUME NEW ds \in Seq(Datagram), NEW d \in Datagram
    PROVE  /\ Announcements(<<>>) = <<>>
           /\ Announcements(ds) \in Seq(Announcement)
           /\ Announcements(Append(ds, d)) = Announced(Announcements(ds), d)
<1> DEFINE n == Len(ds)
           es == Append(ds, d)
<1>1. n \in Nat /\ es \in Seq(Datagram) /\ Len(es) = n + 1
      /\ (\A i \in 1..n : es[i] = ds[i]) /\ es[n + 1] = d
  OBVIOUS
<1>2. Announcements(<<>>) = <<>>
  <2>1. <<>> \in Seq(Datagram) /\ Len(<<>>) = 0
    OBVIOUS
  <2>2. PICK f : f[0] = <<>> /\ Announcements(<<>>) = f[Len(<<>>)]
    BY <2>1, AnnouncementsSteps
  <2> QED
    BY <2>1, <2>2
<1>3. PICK f \in [0..n -> Seq(Announcement)] :
         /\ f[0] = <<>>
         /\ \A i \in 1..n : f[i] = Announced(f[i - 1], ds[i])
         /\ Announcements(ds) = f[n]
  BY AnnouncementsSteps
<1> HIDE DEF es, n
<1>4. PICK g :
         /\ g[0] = <<>>
         /\ \A i \in 1..Len(es) : g[i] = Announced(g[i - 1], es[i])
         /\ Announcements(es) = g[Len(es)]
  BY <1>1, AnnouncementsSteps
<1>5. \A i \in 0..n : f[i] = g[i]
  <2>1. \A i \in 1..n : f[i - 1] = g[i - 1] => f[i] = g[i]
    BY <1>1, <1>3, <1>4
  <2>2. n \in Nat /\ f[0] = g[0]
    BY <1>1, <1>3, <1>4
  <2> QED
    BY <2>1, <2>2, StepsAgree, ZenonT(30)
<1>6. g[n + 1] = Announced(g[n], d)
  <2>1. n + 1 \in 1..Len(es) /\ (n + 1) - 1 = n
    BY <1>1
  <2> QED
    BY <1>1, <1>4, <2>1
<1> QED
  BY <1>1, <1>2, <1>3, <1>4, <1>5, <1>6 DEF es, n
---------------------------------------------------------------------------
Shapes ==
    /\ inbox \in Seq(Datagram)
    /\ received \in Seq(Datagram)

\* Between recvfrom and the switch the buffer is that of the last datagram,
\* which is the only one not announced to yet.
InHand ==
    pc = "switch" =>
        \E ds \in Seq(Datagram), d \in Datagram :
            /\ received = Append(ds, d)
            /\ buf = Meaning(d)
            /\ sent = Announcements(ds)

IInv == TypeOK /\ Shapes /\ InHand /\ AnnouncementsInOrder

LEMMA InitInv == Init => IInv
<1>1. Init => TypeOK /\ Shapes
  <2>1. <<>> \in Seq([to : Hosts \cup {Self}, tid : 0..255])
    OBVIOUS
  <2>2. <<>> \in Seq(Datagram) /\ Len(<<>>) = 0
    OBVIOUS
  <2> HIDE DEF Datagram
  <2> QED
    BY ZeroedHeader, FaAssumption, <2>1, <2>2 DEF Init, TypeOK, Shapes
<1>2. Init => InHand
  BY DEF Init, InHand
<1>3. Announcements(<<>>) = <<>>
  <2>1. <<>> \in Seq(Datagram) /\ Len(<<>>) = 0
    OBVIOUS
  <2>2. PICK f : f[0] = <<>> /\ Announcements(<<>>) = f[Len(<<>>)]
    BY <2>1, AnnouncementsSteps
  <2> QED
    BY <2>1, <2>2
<1>4. Init => AnnouncementsInOrder
  BY <1>3 DEF Init, AnnouncementsInOrder
<1> QED
  BY <1>1, <1>2, <1>4 DEF IInv

LEMMA ArriveKeepsInv ==
    ASSUME IInv, NEW h \in Hosts, Arrive(h)
    PROVE  IInv'
<1>1. PICK hdr \in [magic : {PROTO_MAGIC, "other"}, msg_type : MsgTypes, tid : Tids], n \in 0..3 :
         inbox' = Append(inbox, [from |-> h, hdr |-> Overlay(Zeroed, hdr, n), n |-> n])
  BY DEF Arrive
<1>2. hdr \in Header
  BY FaAssumption DEF Header
<1>3. [from |-> h, hdr |-> Overlay(Zeroed, hdr, n), n |-> n] \in Datagram
  BY <1>2, OverlayHeader, ZeroedHeader DEF Datagram
<1>4. inbox \in Seq(Datagram) /\ Len(received) \in Nat
  BY DEF IInv, Shapes
<1>5. inbox' \in Seq(Datagram) /\ Len(inbox') = Len(inbox) + 1
  BY <1>1, <1>3, <1>4
<1>6. TypeOK' /\ Shapes'
  <2>1. Len(received) + Len(inbox') <= MaxDatagrams
    BY <1>4, <1>5, FaAssumption DEF Arrive
  <2> QED
    BY <1>5, <2>1 DEF Arrive, IInv, TypeOK, Shapes
<1> QED
  BY <1>6 DEF Arrive, IInv, InHand, AnnouncementsInOrder

LEMMA ReceiveKeepsInv == IInv /\ recvfrom => IInv'
<1> SUFFICES ASSUME IInv, recvfrom PROVE IInv'
  OBVIOUS
<1> DEFINE d == Head(inbox)
<1>1. /\ inbox \in Seq(Datagram) /\ inbox # <<>> /\ received \in Seq(Datagram)
      /\ pc = "recv" /\ pc' = "switch" /\ sent' = sent /\ glb_tid' = glb_tid
      /\ inbox' = Tail(inbox) /\ received' = Append(received, d)
      /\ buf' = Meaning(d) /\ ntoa' = d.from
  BY DEF IInv, Shapes, recvfrom, Cleared, Meaning
<1>2. /\ d \in Datagram /\ inbox' \in Seq(Datagram) /\ Len(inbox') = Len(inbox) - 1
      /\ received' \in Seq(Datagram) /\ Len(received') = Len(received) + 1
  BY <1>1, HeadTailProperties
<1>3. Meaning(d) \in Header /\ d.from \in Hosts
  BY <1>2, OverlayHeader, ZeroedHeader DEF Meaning, Datagram
<1>4. TypeOK' /\ Shapes'
  BY <1>1, <1>2, <1>3 DEF IInv, TypeOK, Shapes
<1>5. InHand'
  BY <1>1, <1>2 DEF IInv, AnnouncementsInOrder, InHand
<1> QED
  BY <1>1, <1>4, <1>5 DEF IInv, AnnouncementsInOrder

LEMMA ReceiveFailsKeepsInv == IInv /\ recvfrom_Fails => IInv'
BY ZeroedHeader DEF IInv, recvfrom_Fails, Cleared, TypeOK, Shapes, InHand, AnnouncementsInOrder

\* The announcement is the one that the datagram in hand leads to.
LEMMA SwitchKeepsInv == IInv /\ process_pkt => IInv'
<1> SUFFICES ASSUME IInv, process_pkt PROVE IInv'
  OBVIOUS
<1>1. PICK ds \in Seq(Datagram), d \in Datagram :
         /\ received = Append(ds, d)
         /\ buf = Meaning(d)
         /\ sent = Announcements(ds)
  BY DEF IInv, InHand, process_pkt
<1>2. Announcements(received) = Announced(Announcements(ds), d)
  BY <1>1, AnnouncementsAppend
<1>3. UNCHANGED <<inbox, buf, received>>
  BY DEF process_pkt
<1>4. CASE /\ buf.magic = PROTO_MAGIC /\ buf.msg_type = "DISCOVERY"
           /\ make_announcement(buf.tid)
  <2>1. buf.tid \in 0..255 /\ sent \in Seq(Announcement)
    BY DEF IInv, TypeOK, Header, Announcement
  <2>2. glb_tid' \in 0..255 /\ ntoa' \in Hosts \cup {Self, "none"}
    <3>1. \A t \in 0..255 : (t + 1) % 256 \in 0..255
      OBVIOUS
    <3> QED
      BY <1>4, <2>1, <3>1 DEF make_announcement, NextTid, IInv, TypeOK
  <2>3. CASE sent' = Append(sent, [to |-> Self, tid |-> buf.tid]) /\ pc' = "recv"
    <3>1. sent' = Announcements(received)
      BY <1>1, <1>2, <1>4, <2>3 DEF Announced, IsDiscovery
    <3>2. sent' \in Seq([to : Hosts \cup {Self}, tid : 0..255])
      BY <2>1, <2>3 DEF Announcement
    <3> QED
      BY <1>3, <2>2, <2>3, <3>1, <3>2 DEF IInv, TypeOK, Shapes, InHand, AnnouncementsInOrder
  <2>4. CASE pc' = "exited" /\ sent' = sent
    BY <1>3, <2>2, <2>4 DEF IInv, TypeOK, Shapes, InHand, AnnouncementsInOrder
  <2> QED
    BY <1>4, <2>3, <2>4 DEF make_announcement
<1>5. CASE /\ ~ (buf.magic = PROTO_MAGIC /\ buf.msg_type = "DISCOVERY")
           /\ pc' \in {"recv", "ret"}
           /\ UNCHANGED <<ntoa, glb_tid, sent>>
  <2>1. sent' = Announcements(received)
    BY <1>1, <1>2, <1>5 DEF Announced, IsDiscovery
  <2> QED
    BY <1>3, <1>5, <2>1 DEF IInv, TypeOK, Shapes, InHand, AnnouncementsInOrder
<1> QED
  BY <1>4, <1>5 DEF process_pkt

LEMMA MainKeepsInv == IInv /\ main => IInv'
BY DEF IInv, main, TypeOK, Shapes, InHand, AnnouncementsInOrder

LEMMA InvInductive == IInv /\ [Next]_vars => IInv'
<1> SUFFICES ASSUME IInv, [Next]_vars PROVE IInv'
  OBVIOUS
<1>1. CASE UNCHANGED vars
  BY <1>1 DEF vars, IInv, TypeOK, Shapes, InHand, AnnouncementsInOrder
<1>2. CASE recvfrom
  BY <1>2, ReceiveKeepsInv
<1>3. CASE process_pkt
  BY <1>3, SwitchKeepsInv
<1>4. CASE main
  BY <1>4, MainKeepsInv
<1>5. CASE \E h \in Hosts : Arrive(h)
  BY <1>5, ArriveKeepsInv
<1>6. CASE recvfrom_Fails
  BY <1>6, ReceiveFailsKeepsInv
<1> QED
  BY <1>1, <1>2, <1>3, <1>4, <1>5, <1>6 DEF Next, Server

LEMMA Invariance == Spec => []IInv
<1>1. Init => IInv
  BY InitInv
<1>2. IInv /\ [Next]_vars => IInv'
  BY InvInductive
<1> QED
  BY <1>1, <1>2, PTL DEF Spec

\* The server's variables keep their types: the transaction id stays a byte.
THEOREM Typing == Spec => []TypeOK
<1>1. IInv => TypeOK
  BY DEF IInv
<1> QED
  BY <1>1, Invariance, PTL

\* Whatever the hosts send, cut short or invalid, process_pkt announces the
\* server once for every discovery request, in the order they came, under the
\* transaction id of each, and always to the server's own address, whichever
\* host asked: get_local_ip has overwritten the target by then.
THEOREM EveryDiscoveryAnnounced == Spec => []AnnouncementsInOrder
<1>1. IInv => AnnouncementsInOrder
  BY DEF IInv
<1> QED
  BY <1>1, Invariance, PTL
=============================================================================
