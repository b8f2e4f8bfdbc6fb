----------------------- MODULE BroadcastFileTxProofs -----------------------
(***************************************************************************)
(* Proofs about BroadcastFileTx, for every set of clients and files, every *)
(* file size, payload and number of lost datagrams.                        *)
(***************************************************************************)
EXTENDS BroadcastFileTx, SequenceTheorems, FunctionTheorems, TLAPS

---------------------------------------------------------------------------
(* Lemmas about the operators of the network and of files.                 *)

\* recvfrom takes a datagram that is in the queue.
LEMMA HeadsInQueue ==
    ASSUME NEW S, NEW q \in Seq(S), NEW k \in Heads(q)
    PROVE  k \in 1..Len(q)
BY DEF Heads

\* Taking the k-th datagram out of a queue shifts down the ones behind it.
LEMMA RemoveAtProps ==
    ASSUME NEW S, NEW q \in Seq(S), NEW k \in 1..Len(q)
    PROVE  /\ RemoveAt(q, k) \in Seq(S)
           /\ Len(RemoveAt(q, k)) = Len(q) - 1
           /\ \A j \in 1..(Len(q) - 1) :
                 RemoveAt(q, k)[j] = IF j < k THEN q[j] ELSE q[j + 1]
<1> DEFINE before == SubSeq(q, 1, k - 1)
           after  == SubSeq(q, k + 1, Len(q))
<1>1. /\ before \in Seq(S) /\ Len(before) = k - 1
      /\ \A j \in 1..(k - 1) : before[j] = q[j]
  BY SubSeqProperties
<1>2. /\ after \in Seq(S) /\ Len(after) = Len(q) - k
      /\ \A j \in 1..(Len(q) - k) : after[j] = q[k + j]
  BY SubSeqProperties
<1>3. RemoveAt(q, k) = before \o after
  BY DEF RemoveAt
<1> HIDE DEF before, after
<1>4. /\ before \o after \in Seq(S)
      /\ Len(before \o after) = Len(q) - 1
  BY <1>1, <1>2
<1>5. ASSUME NEW j \in 1..(Len(q) - 1)
      PROVE  (before \o after)[j] = IF j < k THEN q[j] ELSE q[j + 1]
  <2>1. CASE j < k
    BY <2>1, <1>1, <1>2
  <2>2. CASE ~(j < k)
    <3>1. (before \o after)[j] = after[j - (k - 1)]
      BY <2>2, <1>1, <1>2
    <3>2. after[j - (k - 1)] = q[j + 1]
      BY <2>2, <1>2
    <3>3. QED
      BY <2>2, <3>1, <3>2
  <2>3. QED
    BY <2>1, <2>2
<1>6. QED
  BY <1>3, <1>4, <1>5

\* Any number of copies of a datagram leaves a queue of datagrams.
LEMMA DeliverType ==
    ASSUME NEW S, NEW q \in Seq(S), NEW p \in S, NEW n \in Nat
    PROVE  Deliver(q, p, n) \in Seq(S)
<1>1. [j \in 1..n |-> p] \in Seq(S)
  OBVIOUS
<1>2. QED
  BY <1>1 DEF Deliver

\* At most one copy: the queue is unchanged or has one datagram more.
LEMMA DeliverAtMostOnce ==
    ASSUME NEW S, NEW q \in Seq(S), NEW p \in S, NEW n \in {0, 1}
    PROVE  Deliver(q, p, n) \in {q, Append(q, p)}
<1>1. CASE n = 0
  BY <1>1 DEF Deliver
<1>2. CASE n = 1
  <2>1. [j \in 1..1 |-> p] = <<p>>
    OBVIOUS
  <2>2. q \o <<p>> = Append(q, p)
    OBVIOUS
  <2>3. QED
    BY <1>2, <2>1, <2>2 DEF Deliver
<1>3. QED
  BY <1>1, <1>2

\* The server's arithmetic on st_size stays within the naturals.
LEMMA ChunkNumbers ==
    ASSUME NEW f \in Present
    PROVE  /\ NrChunks(f) \in Nat
           /\ \A b \in Nat : BlockLen(f, b) \in Nat
           /\ LastLens(f) \subseteq Int
<1>1. Size[f] \in Nat /\ Payload \in Nat /\ Payload > 0
  BY ConstantsAssumption
<1>2. Size[f] \div Payload \in Nat /\ Size[f] % Payload \in Nat
  BY <1>1
<1>3. NrChunks(f) \in Nat
  <2>1. (IF Size[f] % Payload = 0 THEN 0 ELSE 1) \in Nat
    OBVIOUS
  <2>2. QED
    BY <1>2, <2>1 DEF NrChunks
<1>4. ASSUME NEW b \in Nat PROVE BlockLen(f, b) \in Nat
  BY <1>1, <1>2 DEF BlockLen
<1>5. LastLens(f) \subseteq Int
  <2>1. Garbage \subseteq Int
    BY ConstantsAssumption
  <2>2. CASE Size[f] % Payload = 0
    BY <2>1, <2>2 DEF LastLens
  <2>3. CASE Size[f] % Payload # 0
    BY <1>2, <2>3 DEF LastLens
  <2>4. QED
    BY <2>2, <2>3
<1>6. QED
  BY <1>3, <1>4, <1>5
\* Division with remainder, for any divisor.
LEMMA DivMod ==
    ASSUME NEW a \in Nat, NEW b \in Nat \ {0}
    PROVE  /\ a \div b \in Nat /\ a % b \in 0..(b - 1)
           /\ a = b * (a \div b) + (a % b)
OBVIOUS

\* nr_chunks as process_fileinfo computes it is the number of blocks it takes
\* to hold the file, also at an exact multiple and for an empty file.
LEMMA NrChunksIsFileBlocks ==
    ASSUME NEW f \in Present
    PROVE  NrChunks(f) = FileBlocks(f)
<1> DEFINE s == Size[f]
           holds(n) == (n - 1) * Payload < s /\ s <= n * Payload
           d == s \div Payload
           r == s % Payload
<1>1. s \in Nat /\ Payload \in Nat \ {0}
  BY ConstantsAssumption
<1>2. d \in Nat /\ r \in 0..(Payload - 1) /\ s = Payload * d + r
  BY <1>1, DivMod
<1>3. NrChunks(f) = IF r = 0 THEN d ELSE d + 1
  BY <1>2 DEF NrChunks
<1> HIDE DEF s, d, r
<1>4. holds(NrChunks(f)) /\ NrChunks(f) \in 0..s
  <2>1. (d - 1) * Payload = Payload * d - Payload /\ (d + 1) * Payload = Payload * d + Payload
    BY <1>1, <1>2
  <2>2. d <= Payload * d
    BY <1>1, <1>2
  <2>3. QED
    BY <1>1, <1>2, <1>3, <2>1, <2>2
<1>5. ASSUME NEW n \in Nat, NEW m \in Nat, n < m, holds(n), holds(m)
      PROVE  FALSE
  <2>1. n * Payload <= (m - 1) * Payload
    BY <1>1, <1>5
  <2>2. QED
    BY <1>1, <1>5, <2>1
<1>6. ASSUME NEW n \in 0..s, holds(n) PROVE n = NrChunks(f)
  <2>1. n \in Nat /\ NrChunks(f) \in Nat
    BY <1>1, <1>4
  <2>2. ~(n < NrChunks(f)) /\ ~(NrChunks(f) < n)
    BY <1>4, <1>5, <1>6, <2>1
  <2>3. QED
    BY <2>1, <2>2
<1>7. FileBlocks(f) = CHOOSE n \in 0..s : holds(n)
  BY DEF FileBlocks, s
<1> HIDE DEF holds
<1>8. QED
  BY <1>4, <1>6, <1>7

---------------------------------------------------------------------------
(* Type correctness.                                                       *)

\* The packets the programs build are packets.
LEMMA PacketTypes ==
    /\ DiscoverReq \in Packet
    /\ DiscoverAck \in Packet
    /\ \A f \in Files : FileInfoReq(f) \in Packet
    /\ \A n, l \in Int : FileInfoRep(n, l) \in Packet
    /\ \A i \in Int : ChunkReq(i) \in Packet
BY DEF DiscoverReq, DiscoverAck, FileInfoReq, FileInfoRep, ChunkReq, Pkt,
       Packet, Ops, Body, NoBody, HdrLen

LEMMA ChunkRepType ==
    ASSUME FdOK, ~AtEnd, NEW label \in Int
    PROVE  ChunkRep(label) \in Packet
<1>1. /\ fd \in [file : Present, next : Nat, gen : Nat]
      /\ BlockLen(fd.file, fd.next) \in Nat
  BY ChunkNumbers DEF FdOK, AtEnd
<1>2. [file |-> fd.file, block |-> fd.next, gen |-> fd.gen] \in Body
  BY <1>1, ConstantsAssumption DEF Body
<1>3. QED
  BY <1>1, <1>2 DEF ChunkRep, Pkt, Packet, Ops

\* A broadcast leaves every queue a queue of packets.
LEMMA BroadcastType ==
    ASSUME TypeOK, NEW p \in Packet, Broadcast(p)
    PROVE  cliq' \in [Clients -> Seq(Packet)]
<1>1. PICK n \in [Clients -> Copies] :
        cliq' = [c \in Clients |->
                    IF Bound(c) THEN Deliver(cliq[c], p, n[c]) ELSE cliq[c]]
  BY DEF Broadcast
<1>2. ASSUME NEW c \in Clients
      PROVE  Deliver(cliq[c], p, n[c]) \in Seq(Packet)
  <2>1. n[c] \in Nat /\ cliq[c] \in Seq(Packet)
    BY ConstantsAssumption DEF TypeOK
  <2>2. QED
    BY <2>1, DeliverType
<1>3. QED
  BY <1>1, <1>2 DEF TypeOK

LEMMA SendToServerType ==
    ASSUME TypeOK, NEW p \in Packet, SendToServer(p)
    PROVE  srvq' \in Seq(Packet)
BY DeliverType, ConstantsAssumption DEF SendToServer, TypeOK

\* Reading one block keeps the position within the file.
LEMMA ReadAndReplyType ==
    ASSUME TypeOK, NEW label \in Int, ReadAndReply(label)
    PROVE  /\ srvPc' \in {"main", "chunkrd"}
           /\ FdOK'
           /\ cliq' \in [Clients -> Seq(Packet)]
<1>1. CASE LeaveLoop
  BY <1>1 DEF LeaveLoop, TypeOK, FdOK
<1>2. CASE ~LeaveLoop
  <2>1. /\ ~AtEnd
        /\ Broadcast(ChunkRep(label))
        /\ srvPc' = "chunkrd"
        /\ fd' = [fd EXCEPT !.next = @ + 1]
    BY <1>2 DEF ReadAndReply
  <2>2. cliq' \in [Clients -> Seq(Packet)]
    BY <2>1, ChunkRepType, BroadcastType DEF TypeOK
  <2>3. FdOK'
    <3>1. /\ fd \in [file : Present, next : Nat, gen : Nat]
          /\ fd.next < NrChunks(fd.file)
          /\ NrChunks(fd.file) \in Nat
      BY <2>1, ChunkNumbers DEF TypeOK, FdOK, AtEnd
    <3>2. /\ fd' \in [file : Present, next : Nat, gen : Nat]
          /\ fd'.file = fd.file
          /\ fd'.next = fd.next + 1
      BY <2>1, <3>1
    <3>3. fd'.next <= NrChunks(fd'.file)
      BY <3>1, <3>2
    <3>4. QED
      BY <3>2, <3>3 DEF FdOK
  <2>4. QED
    BY <2>1, <2>2, <2>3
<1>3. QED
  BY <1>1, <1>2

\* A datagram taken from a queue of packets leaves a queue of packets.
LEMMA TakePacket ==
    ASSUME NEW q \in Seq(Packet), NEW k \in Heads(q)
    PROVE  /\ k \in 1..Len(q)
           /\ q[k] \in Packet
           /\ RemoveAt(q, k) \in Seq(Packet)
BY HeadsInQueue, RemoveAtProps

LEMMA ServerStepType ==
    ASSUME TypeOK, ServerStep
    PROVE  TypeOK'
<1>1. PICK k \in Heads(srvq) :
        \/ process_discover(k) \/ process_fileinfo(k) \/ process_chunkrd(k)
        \/ InvalidOpcode(k) \/ NextChunk(k) \/ TransferDone(k)
  BY DEF ServerStep
<1>2. srvq \in Seq(Packet) /\ srvq[k] \in Packet /\ RemoveAt(srvq, k) \in Seq(Packet)
  BY TakePacket DEF TypeOK
<1>3. CASE process_discover(k)
  <2>1. cliq' \in [Clients -> Seq(Packet)]
    BY <1>3, PacketTypes, BroadcastType DEF process_discover
  <2>2. QED
    BY <1>2, <1>3, <2>1 DEF process_discover, TypeOK, FdOK, serverVars, clientVars
<1>4. CASE process_fileinfo(k)
  <2> DEFINE f == srvq[k].body.file
  <2>1. /\ FdOK' /\ gen' \in Nat /\ nfds' \in 0..MaxFds
        /\ cliq' \in [Clients -> Seq(Packet)]
    <3>1. CASE f \in Present /\ nfds < MaxFds
      <4>1. /\ fd' = [file |-> f, next |-> 0, gen |-> gen + 1]
            /\ gen' = gen + 1 /\ nfds' = nfds + 1
            /\ \/ \E l \in LastLens(f) : Broadcast(FileInfoRep(NrChunks(f), l))
               \/ UNCHANGED cliq
        BY <1>4, <3>1 DEF process_fileinfo, OpenFile
      <4>2. NrChunks(f) \in Nat /\ LastLens(f) \subseteq Int
        BY <3>1, ChunkNumbers
      <4>3. cliq' \in [Clients -> Seq(Packet)]
        BY <4>1, <4>2, PacketTypes, BroadcastType DEF TypeOK
      <4>4. FdOK'
        BY <3>1, <4>1, <4>2 DEF FdOK, TypeOK
      <4>5. QED
        BY <3>1, <4>1, <4>3, <4>4, ConstantsAssumption DEF TypeOK
    <3>2. CASE ~(f \in Present /\ nfds < MaxFds)
      <4>1. /\ fd' = NoFd /\ UNCHANGED <<gen, nfds>>
            /\ \E l \in Garbage : Broadcast(FileInfoRep(-1, l))
        BY <1>4, <3>2 DEF process_fileinfo, OpenFile
      <4>2. cliq' \in [Clients -> Seq(Packet)]
        BY <4>1, PacketTypes, BroadcastType, ConstantsAssumption
      <4>3. QED
        BY <4>1, <4>2 DEF FdOK, TypeOK
    <3>3. QED
      BY <3>1, <3>2
  <2>2. QED
    BY <1>2, <1>4, <2>1 DEF process_fileinfo, TypeOK, clientVars
<1>5. CASE process_chunkrd(k) \/ NextChunk(k)
  <2>1. ReadAndReply(srvq[k].chunk) /\ srvq[k].chunk \in Int
    BY <1>2, <1>5 DEF process_chunkrd, NextChunk, Packet
  <2>2. QED
    BY <1>2, <1>5, <2>1, ReadAndReplyType
       DEF process_chunkrd, NextChunk, TypeOK, clientVars
<1>6. CASE InvalidOpcode(k) \/ TransferDone(k)
  BY <1>2, <1>6 DEF InvalidOpcode, TransferDone, TypeOK, FdOK, serverVars, clientVars
<1>7. QED
  BY <1>1, <1>3, <1>4, <1>5, <1>6

LEMMA ClientStepType ==
    ASSUME TypeOK, NEW c \in Clients, ClientStep(c)
    PROVE  TypeOK'
<1> USE DEF serverVars, Status
<1>1. CASE setup_client_socket(c)
  BY <1>1 DEF setup_client_socket, TypeOK, FdOK
<1>2. CASE send_discover(c)
  <2>1. srvq' \in Seq(Packet)
    BY <1>2, PacketTypes, SendToServerType DEF send_discover
  <2>2. QED
    BY <1>2, <2>1 DEF send_discover, TypeOK, FdOK
<1>3. CASE send_file_info(c)
  <2>1. srvq' \in Seq(Packet)
    BY <1>3, PacketTypes, SendToServerType, ConstantsAssumption DEF send_file_info
  <2>2. QED
    BY <1>3, <2>1 DEF send_file_info, TypeOK, FdOK
<1>4. CASE send_chunk_read(c)
  <2>1. srvq' \in Seq(Packet)
    BY <1>4, PacketTypes, SendToServerType DEF send_chunk_read, TypeOK
  <2>2. QED
    BY <1>4, <2>1 DEF send_chunk_read, TypeOK, FdOK
<1>5. ASSUME NEW k \in Heads(cliq[c]),
             recv_discover(c, k) \/ recv_file_info(c, k) \/ recv_chunk(c, k)
      PROVE  TypeOK'
  <2> DEFINE p == cliq[c][k]
             r == RemoveAt(cliq[c], k)
  <2>1. /\ p \in Packet /\ p.chunk \in Int /\ p.len \in Int /\ p.body \in Body
        /\ r \in Seq(Packet)
        /\ <<>> \in Seq(Packet)
    <3>1. cliq[c] \in Seq(Packet)
      BY DEF TypeOK
    <3>2. p \in Packet /\ r \in Seq(Packet)
      BY <3>1, TakePacket
    <3>3. p.chunk \in Int /\ p.len \in Int /\ p.body \in Body
      BY <3>2 DEF Packet
    <3>4. QED
      BY <3>2, <3>3
  <2> HIDE DEF p, r
  <2>2. CASE recv_discover(c, k)
    BY <2>1, <2>2 DEF recv_discover, TypeOK, FdOK, p, r
  <2>3. CASE recv_file_info(c, k)
    BY <2>1, <2>3 DEF recv_file_info, TypeOK, FdOK, p, r
  <2>4. CASE recv_chunk(c, k)
    <3>1. srvq' \in Seq(Packet)
      <4>1. [p EXCEPT !.op = "TRANSFER_DONE"] \in Packet
        BY <2>1 DEF Packet, Ops
      <4>2. QED
        BY <2>4, <4>1, SendToServerType DEF recv_chunk, TypeOK, p
    <3>2. idx' = [idx EXCEPT ![c] = @ + 1] /\ idx' \in [Clients -> Nat]
      BY <2>4 DEF recv_chunk, TypeOK
    <3>3. /\ out' \in [Clients -> Seq(Body)]
          /\ failed' \in [Clients -> SUBSET Nat]
          /\ \A d \in Clients : failed'[d] \subseteq DOMAIN out'[d] /\ Len(out'[d]) <= idx'[d]
      <4>1. UNCHANGED <<out, failed>> \/ WriteBlock(c, p.body)
        BY <2>4 DEF recv_chunk, p
      <4>2. ASSUME NEW d \in Clients
            PROVE  /\ out[d] \in Seq(Body) /\ Len(out[d]) <= idx[d] /\ idx[d] \in Nat
                   /\ Append(out[d], p.body) \in Seq(Body)
                   /\ Len(Append(out[d], p.body)) = Len(out[d]) + 1
        BY <2>1 DEF TypeOK
      <4>3. CASE UNCHANGED <<out, failed>>
        BY <3>2, <4>2, <4>3 DEF TypeOK
      <4>4. CASE WriteBlock(c, p.body)
        <5>1. out' \in [Clients -> Seq(Body)]
          BY <4>2, <4>4 DEF TypeOK, WriteBlock
        <5>2. failed' \in [Clients -> SUBSET Nat]
          <6>1. Len(out[c]) + 1 \in Nat
            BY <4>2
          <6>2. failed' = failed \/ failed' = [failed EXCEPT ![c] = @ \cup {Len(out[c]) + 1}]
            BY <4>4 DEF WriteBlock
          <6>3. failed \in [Clients -> SUBSET Nat]
            BY DEF TypeOK
          <6> HIDE DEF TypeOK
          <6>4. QED
            BY <6>1, <6>2, <6>3
        <5>3. ASSUME NEW d \in Clients
              PROVE  failed'[d] \subseteq DOMAIN out'[d] /\ Len(out'[d]) <= idx'[d]
          <6>1. out'[d] = IF d = c THEN Append(out[d], p.body) ELSE out[d]
            BY <4>4 DEF TypeOK, WriteBlock
          <6>2. idx'[d] = IF d = c THEN idx[d] + 1 ELSE idx[d]
            BY <3>2 DEF TypeOK
          <6>3. failed'[d] \subseteq failed[d] \cup (IF d = c THEN {Len(out[d]) + 1} ELSE {})
            BY <4>4 DEF TypeOK, WriteBlock
          <6>4. DOMAIN out[d] = 1..Len(out[d]) /\ DOMAIN out'[d] = 1..Len(out'[d])
            BY <4>2, <6>1
          <6>5. failed[d] \subseteq 1..Len(out[d])
            BY <6>4 DEF TypeOK
          <6>6. Len(out'[d]) <= idx'[d]
            BY <4>2, <6>1, <6>2
          <6>7. QED
            BY <4>2, <6>1, <6>3, <6>4, <6>5, <6>6
        <5>4. QED
          BY <5>1, <5>2, <5>3
      <4>5. QED
        BY <4>1, <4>3, <4>4
    <3>4. cpc' \in [Clients -> Status] /\ cliq' \in [Clients -> Seq(Packet)]
      BY <2>1, <2>4 DEF recv_chunk, TypeOK, p, r
    <3>5. QED
      BY <2>4, <3>1, <3>2, <3>3, <3>4 DEF recv_chunk, TypeOK, FdOK
  <2>5. QED
    BY <1>5, <2>2, <2>3, <2>4
<1>6. QED
  BY <1>1, <1>2, <1>3, <1>4, <1>5 DEF ClientStep

LEMMA FaultType ==
    ASSUME TypeOK, RecvError \/ Restart \/ \E c \in Clients : Abort(c)
    PROVE  TypeOK'
<1>1. CASE RecvError
  BY <1>1, ReadAndReplyType DEF RecvError, TypeOK, clientVars
<1>2. CASE Restart
  BY <1>2, ConstantsAssumption DEF Restart, TypeOK, FdOK, clientVars
<1>3. ASSUME NEW c \in Clients, Abort(c) PROVE TypeOK'
  BY <1>3 DEF Abort, TypeOK, FdOK, serverVars, Status
<1>4. QED
  BY <1>1, <1>2, <1>3

LEMMA NextType == TypeOK /\ [Next]_vars => TypeOK'
<1> SUFFICES ASSUME TypeOK, [Next]_vars PROVE TypeOK'
  OBVIOUS
<1>1. CASE Next
  BY <1>1, ServerStepType, ClientStepType, FaultType DEF Next
<1>2. CASE UNCHANGED vars
  BY <1>2 DEF vars, serverVars, clientVars, TypeOK, FdOK
<1>3. QED
  BY <1>1, <1>2

LEMMA InitType == Init => TypeOK
BY ConstantsAssumption DEF Init, TypeOK, FdOK, Status

\* The whole state of server, clients and queues keeps its type; no read
\* passes the end of the open file and no client writes more than one block
\* per iteration of fetch_file.
THEOREM TypeCorrect == Spec => []TypeOK
BY InitType, NextType, PTL DEF Spec

---------------------------------------------------------------------------
(* The inductive invariant behind ExactCopy.  One client at a time is in    *)
(* lock-step with the server: for each point c of its program, what its    *)
(* queue, the server's queue and the server's descriptor can hold.         *)

NoChunkReq(q) == \A j \in 1..Len(q) : q[j].op = "TRANSFER_DONE"

\* At most one packet that is not TRANSFER_DONE, and that one asks for i.
OneChunkReq(q, i) ==
    /\ \A j \in 1..Len(q) :
          q[j].op = "TRANSFER_DONE" \/ (q[j].op = "CHUNK_READ" /\ q[j].chunk = i)
    /\ \A j, k \in 1..Len(q) :
          q[j].op = "CHUNK_READ" /\ q[k].op = "CHUNK_READ" => j = k

\* The server is about to read block i of f, unless it has lost its file.
FdAt(f, i) == fd = NoFd \/ (fd.file = f /\ fd.next = i)

AsInfo(f, p) == f \in Present /\ p.chunk = NrChunks(f) /\ FdAt(f, 0)

AsChunk(f, i, p) == /\ p.op = "CHUNK_READ" /\ p.ack = 1 /\ p.chunk = i
                    /\ p.body.file = f
                    /\ p.body.block = i

Started(c) ==
    /\ Wants[c] \in Present
    /\ nr[c] = NrChunks(Wants[c])
    /\ idx[c] < nr[c]
    /\ Len(out[c]) = idx[c]

\* What holds of a client at each point of its program.
Idle(c) ==
    cpc[c] \in {"bound", "found"} => srvq = <<>> /\ cliq[c] = <<>>

Discovering(c) ==
    cpc[c] = "disc" => \/ Len(srvq) <= 1 /\ cliq[c] = <<>>
                       \/ srvq = <<>> /\ Len(cliq[c]) <= 1

Answered(c) ==
    \/ cliq[c] = <<>>
    \/ /\ Len(cliq[c]) = 1
       /\ cliq[c][1].chunk > 0 => AsInfo(Wants[c], cliq[c][1])

Asking(c) ==
    cpc[c] = "info" =>
        \/ /\ Len(srvq) <= 1
           /\ cliq[c] = <<>>
           /\ \A j \in 1..Len(srvq) : srvq[j] = FileInfoReq(Wants[c])
        \/ srvq = <<>> /\ Answered(c)

Fetching(c) ==
    cpc[c] = "fetch" => /\ Started(c)
                        /\ NoChunkReq(srvq)
                        /\ cliq[c] = <<>>
                        /\ FdAt(Wants[c], idx[c])

\* The request is on its way, or the reply is, or one of them is lost.
Requested(c) ==
    OneChunkReq(srvq, idx[c]) /\ cliq[c] = <<>> /\ FdAt(Wants[c], idx[c])

Replied(c) ==
    /\ NoChunkReq(srvq)
    /\ Len(cliq[c]) = 1
    /\ AsChunk(Wants[c], idx[c], cliq[c][1])
    /\ FdAt(Wants[c], idx[c] + 1)

Stuck(c) == NoChunkReq(srvq) /\ cliq[c] = <<>>

Waiting(c) ==
    cpc[c] = "wait" => Started(c) /\ (Requested(c) \/ Replied(c) \/ Stuck(c))

NotStarted(c) ==
    cpc[c] \in {"off", "bound", "disc", "found", "info"} =>
        out[c] = <<>> /\ idx[c] = 0

LockStep(c) == /\ Idle(c) /\ Discovering(c) /\ Asking(c)
               /\ Fetching(c) /\ Waiting(c) /\ NotStarted(c)

AtMostOne == \A c, d \in Clients : Bound(c) /\ Bound(d) => c = d

Quiet == \A c \in Clients : ~Bound(c) => cliq[c] = <<>>

IInv ==
    /\ TypeOK
    /\ ExactCopy
    /\ AtMostOne
    /\ Quiet
    /\ \A c \in Clients : LockStep(c)

\* The network and the users ExactCopy is about: clients one at a time,
\* no datagram twice, and no failing recvfrom inside a transfer.
OneAtATime == Exclusive /\ Copies \subseteq {0, 1} /\ "recv" \notin Faults

---------------------------------------------------------------------------
(* How the queue predicates follow the queues.                             *)

LEMMA NoChunkReqRemove ==
    ASSUME NEW q \in Seq(Packet), NEW k \in 1..Len(q), NoChunkReq(q)
    PROVE  NoChunkReq(RemoveAt(q, k))
<1>1. /\ RemoveAt(q, k) \in Seq(Packet) /\ Len(RemoveAt(q, k)) = Len(q) - 1
      /\ \A j \in 1..(Len(q) - 1) :
            RemoveAt(q, k)[j] = IF j < k THEN q[j] ELSE q[j + 1]
  BY RemoveAtProps
<1>2. QED
  BY <1>1 DEF NoChunkReq

LEMMA OneChunkReqRemove ==
    ASSUME NEW q \in Seq(Packet), NEW k \in 1..Len(q), NEW i \in Int,
           OneChunkReq(q, i)
    PROVE  /\ OneChunkReq(RemoveAt(q, k), i)
           /\ q[k].op = "CHUNK_READ" => NoChunkReq(RemoveAt(q, k))
<1> DEFINE r == RemoveAt(q, k)
           old(j) == IF j < k THEN j ELSE j + 1
<1>1. /\ r \in Seq(Packet) /\ Len(r) = Len(q) - 1
      /\ \A j \in 1..(Len(q) - 1) : r[j] = q[old(j)]
  BY RemoveAtProps
<1> HIDE DEF r
<1>2. \A j \in 1..Len(r) : old(j) \in 1..Len(q) /\ old(j) # k /\ r[j] = q[old(j)]
  BY <1>1
<1>3. \A j, l \in 1..Len(r) : old(j) = old(l) => j = l
  BY <1>1
<1> HIDE DEF old
<1>4. OneChunkReq(r, i)
  BY <1>2, <1>3, SMTT(30) DEF OneChunkReq
<1>5. ASSUME q[k].op = "CHUNK_READ" PROVE NoChunkReq(r)
  BY <1>2, <1>5 DEF OneChunkReq, NoChunkReq
<1>6. QED
  BY <1>4, <1>5 DEF r

LEMMA NoChunkReqAppend ==
    ASSUME NEW q \in Seq(Packet), NEW p \in Packet, NoChunkReq(q)
    PROVE  /\ p.op = "TRANSFER_DONE" => NoChunkReq(Append(q, p))
           /\ \A i \in Int :
                 p.op = "CHUNK_READ" /\ p.chunk = i => OneChunkReq(Append(q, p), i)
BY DEF NoChunkReq, OneChunkReq

LEMMA NoneIsOne ==
    ASSUME NEW q, NEW i, NoChunkReq(q)
    PROVE  OneChunkReq(q, i)
BY DEF NoChunkReq, OneChunkReq

LEMMA RemoveOnly ==
    ASSUME NEW S, NEW q \in Seq(S), NEW k \in 1..Len(q), Len(q) <= 1
    PROVE  Len(q) = 1 /\ k = 1 /\ RemoveAt(q, k) = <<>>
<1>1. Len(q) = 1 /\ k = 1
  <2> DEFINE m == Len(q)
  <2>1. m \in Nat /\ k \in Int /\ 1 <= k /\ k <= m /\ m <= 1
    BY LenProperties
  <2> HIDE DEF m
  <2>2. m = 1 /\ k = 1
    BY <2>1
  <2>3. QED
    BY <2>2 DEF m
<1>2. RemoveAt(q, k) \in Seq(S) /\ Len(RemoveAt(q, k)) = 0
  <2>1. RemoveAt(q, k) \in Seq(S) /\ Len(RemoveAt(q, k)) = Len(q) - 1
    BY RemoveAtProps
  <2>2. QED
    BY <1>1, <2>1
<1>3. QED
  BY <1>1, <1>2, EmptySeq

LEMMA AppendToEmpty ==
    \A p : Len(Append(<<>>, p)) = 1 /\ Append(<<>>, p)[1] = p
OBVIOUS

\* A broadcast gives each bound client at most one datagram more.
LEMMA BroadcastAtMostOnce ==
    ASSUME NEW p \in Packet, NEW c \in Clients, TypeOK, OneAtATime,
           Broadcast(p)
    PROVE  IF Bound(c) THEN cliq'[c] \in {cliq[c], Append(cliq[c], p)}
                       ELSE cliq'[c] = cliq[c]
<1>1. PICK n \in [Clients -> Copies] :
        cliq' = [d \in Clients |->
                    IF Bound(d) THEN Deliver(cliq[d], p, n[d]) ELSE cliq[d]]
  BY DEF Broadcast
<1>2. n[c] \in {0, 1} /\ cliq[c] \in Seq(Packet)
  BY DEF OneAtATime, TypeOK
<1>3. Deliver(cliq[c], p, n[c]) \in {cliq[c], Append(cliq[c], p)}
  BY <1>2, DeliverAtMostOnce
<1>4. QED
  BY <1>1, <1>3

LEMMA SendAtMostOnce ==
    ASSUME NEW p \in Packet, TypeOK, OneAtATime, SendToServer(p)
    PROVE  srvq' \in {srvq, Append(srvq, p)}
<1>1. PICK n \in Copies : srvq' = Deliver(srvq, p, n)
  BY DEF SendToServer
<1>2. n \in {0, 1} /\ srvq \in Seq(Packet)
  BY DEF OneAtATime, TypeOK
<1>3. QED
  BY <1>1, <1>2, DeliverAtMostOnce

---------------------------------------------------------------------------
(* The server's steps preserve the invariant.                              *)

\* One read: the queue of a bound client may get the block, and an open file
\* moves one block on.
LEMMA ReadAndReplyStep ==
    ASSUME NEW label \in Int, NEW c \in Clients, TypeOK, OneAtATime,
           ReadAndReply(label), Bound(c)
    PROVE  \/ cliq'[c] = cliq[c] /\ fd' = fd
           \/ /\ ~AtEnd
              /\ fd'.file = fd.file /\ fd'.next = fd.next + 1
              /\ cliq'[c] \in {cliq[c], Append(cliq[c], ChunkRep(label))}
<1>1. CASE LeaveLoop
  BY <1>1 DEF LeaveLoop
<1>2. CASE ~LeaveLoop
  <2>1. ~AtEnd /\ Broadcast(ChunkRep(label)) /\ fd' = [fd EXCEPT !.next = @ + 1]
    BY <1>2 DEF ReadAndReply
  <2>2. ChunkRep(label) \in Packet
    BY <2>1, ChunkRepType DEF TypeOK
  <2>3. cliq'[c] \in {cliq[c], Append(cliq[c], ChunkRep(label))}
    BY <2>1, <2>2, BroadcastAtMostOnce
  <2>4. fd \in [file : Present, next : Nat, gen : Nat]
    BY <2>1 DEF TypeOK, FdOK, AtEnd
  <2>5. QED
    BY <2>1, <2>3, <2>4
<1>3. QED
  BY <1>1, <1>2

\* A server step takes one datagram and gives a bound client at most one.
LEMMA ServerStepQueues ==
    ASSUME NEW c \in Clients, TypeOK, OneAtATime, ServerStep
    PROVE  /\ \E k \in 1..Len(srvq) : srvq' = RemoveAt(srvq, k)
           /\ UNCHANGED clientVars
           /\ IF Bound(c) THEN \E p \in Packet : cliq'[c] \in {cliq[c], Append(cliq[c], p)}
                          ELSE cliq'[c] = cliq[c]
<1>1. PICK k \in Heads(srvq) :
        \/ process_discover(k) \/ process_fileinfo(k) \/ process_chunkrd(k)
        \/ InvalidOpcode(k) \/ NextChunk(k) \/ TransferDone(k)
  BY DEF ServerStep
<1>2. k \in 1..Len(srvq) /\ srvq[k] \in Packet
  BY TakePacket DEF TypeOK
<1>3. srvq' = RemoveAt(srvq, k) /\ UNCHANGED clientVars
  BY <1>1 DEF process_discover, process_fileinfo, process_chunkrd,
              InvalidOpcode, NextChunk, TransferDone
<1>4. (\E p \in Packet : Broadcast(p)) \/ UNCHANGED cliq
  <2>1. CASE process_discover(k)
    BY <2>1, PacketTypes DEF process_discover
  <2>2. CASE process_fileinfo(k)
    <3>1. OpenFile(srvq[k].body.file)
      BY <2>2 DEF process_fileinfo
    <3>2. CASE srvq[k].body.file \in Present /\ nfds < MaxFds
      BY <3>1, <3>2, ChunkNumbers, PacketTypes DEF OpenFile
    <3>3. CASE ~(srvq[k].body.file \in Present /\ nfds < MaxFds)
      BY <3>1, <3>3, PacketTypes, ConstantsAssumption DEF OpenFile
    <3>4. QED
      BY <3>2, <3>3
  <2>3. CASE process_chunkrd(k) \/ NextChunk(k)
    <3>1. ReadAndReply(srvq[k].chunk) /\ srvq[k].chunk \in Int
      BY <1>2, <2>3 DEF process_chunkrd, NextChunk, Packet
    <3>2. QED
      BY <3>1, ChunkRepType DEF ReadAndReply, LeaveLoop, TypeOK
  <2>4. CASE InvalidOpcode(k) \/ TransferDone(k)
    BY <2>4 DEF InvalidOpcode, TransferDone
  <2>5. QED
    BY <1>1, <2>1, <2>2, <2>3, <2>4
<1>5. IF Bound(c) THEN \E p \in Packet : cliq'[c] \in {cliq[c], Append(cliq[c], p)}
                  ELSE cliq'[c] = cliq[c]
  <2>1. CASE UNCHANGED cliq
    <3>1. DiscoverReq \in Packet
      BY PacketTypes
    <3>2. QED
      BY <2>1, <3>1
  <2>2. CASE \E p \in Packet : Broadcast(p)
    BY <2>2, BroadcastAtMostOnce
  <2>3. QED
    BY <1>4, <2>1, <2>2
<1>6. QED
  BY <1>2, <1>3, <1>5

\* In a transfer or out of it, a chunk request is answered the same way.
LEMMA ServerStepCases ==
    ASSUME TypeOK, ServerStep
    PROVE  \E k \in 1..Len(srvq) :
              /\ srvq[k] \in Packet
              /\ srvq' = RemoveAt(srvq, k)
              /\ srvq[k].op = "CHUNK_READ" => ReadAndReply(srvq[k].chunk)
              /\ srvq[k].op = "TRANSFER_DONE" => UNCHANGED <<fd, cliq>>
              /\ srvq[k].op = "FILE_INFO" =>
                    ReadAndReply(srvq[k].chunk) \/ OpenFile(srvq[k].body.file)
<1>1. PICK k \in Heads(srvq) :
        \/ process_discover(k) \/ process_fileinfo(k) \/ process_chunkrd(k)
        \/ InvalidOpcode(k) \/ NextChunk(k) \/ TransferDone(k)
  BY DEF ServerStep
<1>2. k \in 1..Len(srvq) /\ srvq[k] \in Packet
  BY TakePacket DEF TypeOK
<1>3. QED
  BY <1>1, <1>2 DEF process_discover, process_fileinfo, process_chunkrd,
                    InvalidOpcode, NextChunk, TransferDone, serverVars

\* A request for the file's description is answered with it, or with
\* something the client takes for a missing or empty file.
LEMMA InfoReply ==
    ASSUME NEW c \in Clients, NEW k \in 1..Len(srvq), TypeOK,
           OneAtATime, Bound(c), cliq[c] = <<>>,
           srvq[k] = FileInfoReq(Wants[c]),
           ReadAndReply(srvq[k].chunk) \/ OpenFile(srvq[k].body.file)
    PROVE  Answered(c)'
<1>1. srvq[k].chunk = 0 /\ srvq[k].body.file = Wants[c]
  BY DEF FileInfoReq, Pkt, NoBody
<1>2. CASE ReadAndReply(srvq[k].chunk)
  <2>1. \/ cliq'[c] = <<>>
        \/ Len(cliq'[c]) = 1 /\ cliq'[c][1] = ChunkRep(0)
    <3>1. srvq[k].chunk \in Int
      BY <1>1
    <3>2. cliq'[c] \in {cliq[c], Append(cliq[c], ChunkRep(srvq[k].chunk))}
      BY <1>2, <3>1, ReadAndReplyStep
    <3>3. QED
      BY <1>1, <3>2, AppendToEmpty
  <2>2. ChunkRep(0).chunk = 0
    BY DEF ChunkRep, Pkt
  <2>3. QED
    BY <2>1, <2>2 DEF Answered
<1>3. CASE OpenFile(srvq[k].body.file)
  <2> DEFINE f == Wants[c]
  <2>1. CASE f \in Present /\ nfds < MaxFds
    <3>1. \/ \E l \in LastLens(f) : Broadcast(FileInfoRep(NrChunks(f), l))
          \/ UNCHANGED cliq
      BY <1>1, <1>3, <2>1 DEF OpenFile
    <3>2. fd'.file = f /\ fd'.next = 0
      BY <1>1, <1>3, <2>1 DEF OpenFile
    <3>3. ASSUME NEW l \in LastLens(f), Broadcast(FileInfoRep(NrChunks(f), l))
          PROVE  Answered(c)'
      <4>1. /\ FileInfoRep(NrChunks(f), l) \in Packet
            /\ FileInfoRep(NrChunks(f), l).chunk = NrChunks(f)
        BY <2>1, ChunkNumbers, PacketTypes DEF FileInfoRep, Pkt
      <4>2. \/ cliq'[c] = <<>>
            \/ Len(cliq'[c]) = 1 /\ cliq'[c][1] = FileInfoRep(NrChunks(f), l)
        BY <3>3, <4>1, BroadcastAtMostOnce, AppendToEmpty
      <4>3. QED
        BY <2>1, <3>2, <4>1, <4>2 DEF Answered, AsInfo, FdAt
    <3>4. CASE UNCHANGED cliq
      BY <3>4 DEF Answered
    <3>5. QED
      BY <3>1, <3>3, <3>4
  <2>2. CASE ~(f \in Present /\ nfds < MaxFds)
    <3>1. PICK l \in Garbage : Broadcast(FileInfoRep(-1, l))
      BY <1>1, <1>3, <2>2 DEF OpenFile
    <3>2. FileInfoRep(-1, l) \in Packet /\ FileInfoRep(-1, l).chunk = -1
      BY PacketTypes, ConstantsAssumption DEF FileInfoRep, Pkt
    <3>3. \/ cliq'[c] = <<>>
          \/ Len(cliq'[c]) = 1 /\ cliq'[c][1] = FileInfoRep(-1, l)
      BY <3>1, <3>2, BroadcastAtMostOnce, AppendToEmpty
    <3>4. QED
      BY <3>2, <3>3 DEF Answered
  <2>3. QED
    BY <2>1, <2>2
<1>4. QED
  BY <1>2, <1>3

\* A chunk request finds the descriptor at the block it asks for, and the
\* reply is that block under the label the client expects.
LEMMA ChunkReply ==
    ASSUME NEW c \in Clients, NEW k \in 1..Len(srvq), TypeOK,
           OneAtATime, Bound(c), Started(c), Requested(c),
           srvq[k].op = "CHUNK_READ", srvq' = RemoveAt(srvq, k),
           ReadAndReply(srvq[k].chunk), UNCHANGED clientVars
    PROVE  Replied(c)' \/ Stuck(c)'
<1> DEFINE f == Wants[c]
           p == ChunkRep(idx[c])
<1>1. srvq[k].chunk = idx[c] /\ idx[c] \in Nat
  BY DEF Requested, OneChunkReq, TypeOK
<1>2. NoChunkReq(srvq)'
  <2>1. srvq \in Seq(Packet)
    BY DEF TypeOK
  <2>2. NoChunkReq(RemoveAt(srvq, k))
    BY <1>1, <2>1, OneChunkReqRemove DEF Requested
  <2>3. QED
    BY <2>2 DEF NoChunkReq
<1>3. CASE cliq'[c] = cliq[c] /\ fd' = fd
  BY <1>2, <1>3 DEF Requested, Stuck
<1>4. CASE ~(cliq'[c] = cliq[c] /\ fd' = fd)
  <2>1. fd.file = f /\ fd.next = idx[c]
    <3>1. ~AtEnd
      BY <1>1, <1>4, ReadAndReplyStep
    <3>2. QED
      BY <3>1 DEF Requested, FdAt, AtEnd
  <2>2. /\ fd'.file = f /\ fd'.next = idx[c] + 1
        /\ cliq'[c] = <<>> \/ (Len(cliq'[c]) = 1 /\ cliq'[c][1] = p)
    <3>1. srvq[k].chunk \in Int /\ cliq[c] = <<>>
      BY <1>1 DEF Requested
    <3>2. /\ fd'.file = fd.file /\ fd'.next = fd.next + 1
          /\ cliq'[c] \in {cliq[c], Append(cliq[c], ChunkRep(srvq[k].chunk))}
      BY <1>4, <3>1, ReadAndReplyStep
    <3>3. QED
      BY <1>1, <2>1, <3>1, <3>2, AppendToEmpty
  <2>3. /\ p.op = "CHUNK_READ" /\ p.ack = 1 /\ p.chunk = idx[c]
        /\ p.body.file = f /\ p.body.block = idx[c]
    BY <2>1 DEF ChunkRep, Pkt
  <2>4. CASE cliq'[c] = <<>>
    BY <1>2, <2>4 DEF Stuck
  <2>5. CASE Len(cliq'[c]) = 1 /\ cliq'[c][1] = p
    <3> HIDE DEF p
    <3>1. idx' = idx
      BY DEF clientVars
    <3>2. cliq'[c][1] = p
      BY <2>5
    <3>3. AsChunk(f, idx[c], cliq[c][1])'
      BY <2>3, <3>1, <3>2 DEF AsChunk
    <3>4. FdAt(f, idx[c] + 1)'
      BY <2>2, <3>1 DEF FdAt
    <3>5. QED
      BY <1>2, <2>5, <3>3, <3>4 DEF Replied
  <2>6. QED
    BY <2>2, <2>4, <2>5
<1>5. QED
  BY <1>3, <1>4

LEMMA ServerStepInv ==
    ASSUME IInv, OneAtATime, ServerStep
    PROVE  IInv'
<1> USE DEF IInv
<1>1. TypeOK' /\ UNCHANGED clientVars
  <2>1. TypeOK'
    BY ServerStepType
  <2>2. UNCHANGED clientVars
    BY DEF ServerStep, process_discover, process_fileinfo, process_chunkrd,
           InvalidOpcode, NextChunk, TransferDone
  <2>3. QED
    BY <2>1, <2>2
<1>2. UNCHANGED <<cpc, nr, last, idx, out, failed>>
  BY <1>1 DEF clientVars
<1>3. ExactCopy' /\ AtMostOne'
  BY <1>2 DEF ExactCopy, IsPrefixOfFile, Copied, AtMostOne, Bound
<1>4. Quiet'
  BY <1>2, ServerStepQueues DEF Quiet, Bound
<1>5. PICK k \in 1..Len(srvq) :
        /\ srvq[k] \in Packet
        /\ srvq' = RemoveAt(srvq, k)
        /\ srvq[k].op = "CHUNK_READ" => ReadAndReply(srvq[k].chunk)
        /\ srvq[k].op = "TRANSFER_DONE" => UNCHANGED <<fd, cliq>>
        /\ srvq[k].op = "FILE_INFO" =>
              ReadAndReply(srvq[k].chunk) \/ OpenFile(srvq[k].body.file)
  BY ServerStepCases
<1>6. srvq \in Seq(Packet) /\ srvq # <<>>
  BY <1>5 DEF TypeOK
<1>7. ASSUME NEW c \in Clients PROVE LockStep(c)'
  <2>1. LockStep(c) /\ cliq[c] \in Seq(Packet) /\ idx[c] \in Nat
    BY DEF TypeOK
  <2>2. Idle(c)' /\ NotStarted(c)'
    BY <1>2, <1>6, <2>1 DEF LockStep, Idle, NotStarted
  <2>3. Discovering(c)'
    <3>1. SUFFICES ASSUME cpc[c] = "disc" PROVE Discovering(c)'
      BY <1>2 DEF Discovering
    <3>2. Len(srvq) <= 1 /\ cliq[c] = <<>>
      BY <1>6, <2>1, <3>1 DEF LockStep, Discovering
    <3>3. srvq' = <<>>
      BY <1>5, <1>6, <3>2, RemoveOnly
    <3>4. PICK p \in Packet : cliq'[c] \in {cliq[c], Append(cliq[c], p)}
      BY <3>1, ServerStepQueues DEF Bound
    <3>5. Len(<<>>) <= 1 /\ Len(Append(<<>>, p)) <= 1
      BY AppendToEmpty, EmptySeq
    <3>6. Len(cliq'[c]) <= 1
      BY <3>2, <3>4, <3>5
    <3>7. QED
      BY <3>3, <3>6 DEF Discovering
  <2>4. Asking(c)'
    <3>1. SUFFICES ASSUME cpc[c] = "info" PROVE Asking(c)'
      BY <1>2 DEF Asking
    <3>2. /\ Len(srvq) <= 1 /\ cliq[c] = <<>> /\ Bound(c)
          /\ srvq[k] = FileInfoReq(Wants[c])
      BY <1>5, <1>6, <2>1, <3>1 DEF LockStep, Asking, Bound
    <3>3. srvq' = <<>>
      BY <1>5, <1>6, <3>2, RemoveOnly
    <3>4. ReadAndReply(srvq[k].chunk) \/ OpenFile(srvq[k].body.file)
      BY <1>5, <3>2 DEF FileInfoReq, Pkt
    <3>5. Answered(c)'
      BY <3>2, <3>4, InfoReply
    <3>6. QED
      BY <3>3, <3>5 DEF Asking
  <2>5. Fetching(c)'
    <3>1. SUFFICES ASSUME cpc[c] = "fetch" PROVE Fetching(c)'
      BY <1>2 DEF Fetching
    <3>2. /\ Started(c) /\ NoChunkReq(srvq)
          /\ cliq[c] = <<>> /\ FdAt(Wants[c], idx[c])
      BY <2>1, <3>1 DEF LockStep, Fetching
    <3>3. UNCHANGED <<fd, cliq>> /\ NoChunkReq(srvq)'
      BY <1>5, <1>6, <3>2, NoChunkReqRemove DEF NoChunkReq
    <3>4. QED
      BY <1>2, <3>2, <3>3 DEF Fetching, Started, FdAt
  <2>6. Waiting(c)'
    <3>1. SUFFICES ASSUME cpc[c] = "wait" PROVE Waiting(c)'
      BY <1>2 DEF Waiting
    <3>2. Started(c) /\ (Requested(c) \/ Replied(c) \/ Stuck(c)) /\ Bound(c)
      BY <2>1, <3>1 DEF LockStep, Waiting, Bound
    <3>3. Started(c)'
      BY <1>2, <3>2 DEF Started
    <3>4. CASE srvq[k].op = "CHUNK_READ" /\ Requested(c)
      BY <1>1, <1>5, <3>2, <3>3, <3>4, ChunkReply DEF Waiting
    <3>5. CASE srvq[k].op # "CHUNK_READ" /\ Requested(c)
      <4>1. UNCHANGED <<fd, cliq>>
        BY <1>5, <3>5 DEF Requested, OneChunkReq
      <4>2. OneChunkReq(srvq, idx[c])'
        BY <1>2, <1>5, <1>6, <2>1, <3>5, OneChunkReqRemove DEF Requested
      <4>3. QED
        BY <1>2, <3>3, <3>5, <4>1, <4>2 DEF Waiting, Requested, FdAt
    <3>6. CASE Replied(c) \/ Stuck(c)
      <4>1. NoChunkReq(srvq)
        BY <3>6 DEF Replied, Stuck
      <4>2. UNCHANGED <<fd, cliq>> /\ NoChunkReq(srvq)'
        BY <1>5, <1>6, <4>1, NoChunkReqRemove DEF NoChunkReq
      <4>3. QED
        BY <1>2, <3>3, <3>6, <4>2 DEF Waiting, Replied, Stuck, AsChunk, FdAt
    <3>7. QED
      BY <3>2, <3>4, <3>5, <3>6
  <2>7. QED
    BY <2>2, <2>3, <2>4, <2>5, <2>6 DEF LockStep
<1>8. QED
  BY <1>1, <1>3, <1>4, <1>7

---------------------------------------------------------------------------
(* The clients' steps and the faults preserve the invariant.               *)

\* When one client moves, no other client has a socket.
LEMMA OthersAreUnbound ==
    ASSUME NEW c \in Clients, NEW d \in Clients, d # c, IInv, OneAtATime,
           ClientStep(c) \/ Abort(c)
    PROVE  ~Bound(d)
<1>1. CASE setup_client_socket(c)
  BY <1>1 DEF setup_client_socket, OneAtATime
<1>2. CASE ~setup_client_socket(c)
  <2>1. Bound(c)
    BY <1>2 DEF ClientStep, Abort, Bound, send_discover, send_file_info,
                send_chunk_read, recv_discover, recv_file_info, recv_chunk
  <2>2. QED
    BY <2>1 DEF IInv, AtMostOne
<1>3. QED
  BY <1>1, <1>2

\* A client step leaves the other clients' variables alone.
LEMMA OthersUntouched ==
    ASSUME NEW c \in Clients, NEW d \in Clients, d # c, TypeOK,
           ClientStep(c) \/ Abort(c)
    PROVE  /\ cpc'[d] = cpc[d] /\ nr'[d] = nr[d] /\ idx'[d] = idx[d]
           /\ out'[d] = out[d] /\ failed'[d] = failed[d] /\ cliq'[d] = cliq[d]
<1> USE DEF TypeOK
<1>1. CASE \/ setup_client_socket(c) \/ send_discover(c) \/ send_file_info(c)
           \/ send_chunk_read(c) \/ Abort(c)
  BY <1>1 DEF setup_client_socket, send_discover, send_file_info,
              send_chunk_read, Abort
<1>2. ASSUME NEW k \in Heads(cliq[c]),
             recv_discover(c, k) \/ recv_file_info(c, k) \/ recv_chunk(c, k)
      PROVE  /\ cpc'[d] = cpc[d] /\ nr'[d] = nr[d] /\ idx'[d] = idx[d]
             /\ out'[d] = out[d] /\ failed'[d] = failed[d] /\ cliq'[d] = cliq[d]
  <2>1. CASE recv_discover(c, k)
    BY <2>1 DEF recv_discover
  <2>2. CASE recv_file_info(c, k)
    BY <2>2 DEF recv_file_info
  <2>3. CASE recv_chunk(c, k)
    BY <2>3 DEF recv_chunk, WriteBlock
  <2>4. QED
    BY <1>2, <2>1, <2>2, <2>3
<1>3. QED
  BY <1>1, <1>2 DEF ClientStep

\* The blocks 0, 1, ... handed to write() one after another are in the copy,
\* but those whose write() failed.
LEMMA WrittenInOrder ==
    ASSUME NEW q \in Seq(Body), NEW m, m \subseteq DOMAIN q,
           \A j \in 1..Len(q) : q[j].block = j - 1
    PROVE  {q[j].block : j \in DOMAIN q \ m} = (0..(Len(q) - 1)) \ {j - 1 : j \in m}
<1> DEFINE n == Len(q)
<1>1. n \in Nat /\ DOMAIN q = 1..n
  OBVIOUS
<1>2. \A j \in 1..n : q[j].block = j - 1
  OBVIOUS
<1> HIDE DEF n
<1>3. m \subseteq 1..n
  BY <1>1
<1>4. ASSUME NEW b \in {q[j].block : j \in (1..n) \ m}
      PROVE  b \in (0..(n - 1)) \ {j - 1 : j \in m}
  BY <1>1, <1>2, <1>3
<1>5. ASSUME NEW b \in (0..(n - 1)) \ {j - 1 : j \in m}
      PROVE  b \in {q[j].block : j \in (1..n) \ m}
  <2>1. b + 1 \in (1..n) \ m /\ (b + 1) - 1 = b
    BY <1>1, <1>5
  <2>2. q[b + 1].block = b
    BY <1>2, <2>1
  <2>3. QED
    BY <2>1, <2>2
<1>6. {q[j].block : j \in (1..n) \ m} = (0..(n - 1)) \ {j - 1 : j \in m}
  BY <1>4, <1>5
<1>7. QED
  BY <1>1, <1>6 DEF n

\* What is left to show of a client's step is about that client.
LEMMA OwnPartSuffices ==
    ASSUME NEW c \in Clients, IInv, OneAtATime, ClientStep(c) \/ Abort(c),
           TypeOK', IsPrefixOfFile(c)', LockStep(c)',
           cpc'[c] = "done" => Len(out'[c]) = FileBlocks(Wants[c]),
           ~Bound(c)' => cliq'[c] = <<>>
    PROVE  IInv'
<1>1. ASSUME NEW d \in Clients, d # c
      PROVE  /\ ~Bound(d) /\ cpc'[d] = cpc[d] /\ nr'[d] = nr[d]
             /\ idx'[d] = idx[d] /\ out'[d] = out[d] /\ failed'[d] = failed[d]
             /\ cliq'[d] = cliq[d]
  BY <1>1, OthersAreUnbound, OthersUntouched DEF IInv
<1>2. ExactCopy'
  <2> DEFINE whole(d) == (0..(FileBlocks(Wants[d]) - 1)) \ {j - 1 : j \in failed'[d]}
  <2>1. ASSUME NEW d \in Clients, d # c
        PROVE  IsPrefixOfFile(d)' /\ (cpc'[d] = "done" => Copied(d)' = whole(d))
    <3>1. cpc'[d] = cpc[d] /\ out'[d] = out[d] /\ failed'[d] = failed[d]
      BY <1>1, <2>1
    <3>2. Copied(d)' = Copied(d) /\ (IsPrefixOfFile(d)' <=> IsPrefixOfFile(d))
      BY <3>1 DEF Copied, IsPrefixOfFile
    <3>3. /\ IsPrefixOfFile(d)
          /\ cpc[d] = "done" => Copied(d) = (0..(FileBlocks(Wants[d]) - 1)) \ {j - 1 : j \in failed[d]}
      BY DEF IInv, ExactCopy
    <3>4. QED
      BY <3>1, <3>2, <3>3
  <2>2. cpc'[c] = "done" => Copied(c)' = whole(c)
    <3>1. out'[c] \in Seq(Body) /\ failed'[c] \subseteq DOMAIN out'[c]
      BY DEF TypeOK
    <3>2. \A j \in 1..Len(out'[c]) : out'[c][j].block = j - 1
      BY DEF IsPrefixOfFile
    <3>3. Copied(c)' = (0..(Len(out'[c]) - 1)) \ {j - 1 : j \in failed'[c]}
      BY <3>1, <3>2, WrittenInOrder DEF Copied
    <3>4. QED
      BY <3>3
  <2>3. QED
    BY <2>1, <2>2 DEF ExactCopy
<1>3. AtMostOne' /\ Quiet'
  BY <1>1 DEF IInv, AtMostOne, Quiet, Bound
<1>4. \A d \in Clients : LockStep(d)'
  <2>1. ASSUME NEW d \in Clients, d # c PROVE LockStep(d)'
    BY <1>1, <2>1 DEF IInv, LockStep, Idle, Discovering, Asking, Fetching,
                      Waiting, NotStarted, Bound
  <2>2. QED
    BY <2>1
<1>5. QED
  BY <1>2, <1>3, <1>4 DEF IInv

LEMMA SetupInv ==
    ASSUME NEW c \in Clients, IInv, OneAtATime, TypeOK', setup_client_socket(c)
    PROVE  IInv'
<1>1. /\ cpc[c] = "off" /\ srvq' = <<>> /\ cliq'[c] = <<>> /\ cpc'[c] = "bound"
      /\ out'[c] = <<>> /\ idx'[c] = 0
  BY DEF IInv, TypeOK, Quiet, Bound, OneAtATime, setup_client_socket,
         LockStep, NotStarted
<1>2. LockStep(c)'
  BY <1>1 DEF LockStep, Idle, Discovering, Asking, Fetching, Waiting, NotStarted
<1>3. IsPrefixOfFile(c)'
  BY <1>1 DEF IsPrefixOfFile
<1>4. QED
  BY <1>1, <1>2, <1>3, OwnPartSuffices DEF ClientStep, Bound

LEMMA AbortInv ==
    ASSUME NEW c \in Clients, IInv, OneAtATime, TypeOK', Abort(c)
    PROVE  IInv'
<1>1. cpc'[c] = "gone" /\ cliq'[c] = <<>> /\ out' = out
  BY DEF IInv, TypeOK, Abort
<1>2. LockStep(c)' /\ IsPrefixOfFile(c)'
  BY <1>1 DEF IInv, ExactCopy, IsPrefixOfFile, LockStep, Idle, Discovering,
              Asking, Fetching, Waiting, NotStarted
<1>3. QED
  BY <1>1, <1>2, OwnPartSuffices DEF Bound

LEMMA SendInv ==
    ASSUME NEW c \in Clients, IInv, OneAtATime, TypeOK',
           send_discover(c) \/ send_file_info(c) \/ send_chunk_read(c)
    PROVE  IInv'
<1> USE DEF IInv
<1>1. UNCHANGED <<fd, nr, idx, out, cliq>> /\ cpc'[c] # "done" /\ Bound(c)'
  BY DEF send_discover, send_file_info, send_chunk_read, serverVars, TypeOK, Bound
<1>2. IsPrefixOfFile(c)'
  BY <1>1 DEF ExactCopy, IsPrefixOfFile
<1>3. CASE send_discover(c)
  <2>1. /\ cpc'[c] = "disc" /\ srvq = <<>> /\ cliq[c] = <<>>
        /\ out[c] = <<>> /\ idx[c] = 0
    BY <1>3 DEF send_discover, LockStep, Idle, NotStarted, TypeOK
  <2>2. srvq' \in {<<>>, Append(<<>>, DiscoverReq)}
    BY <1>3, <2>1, PacketTypes, SendAtMostOnce DEF send_discover
  <2>3. LockStep(c)'
    BY <1>1, <2>1, <2>2, AppendToEmpty DEF LockStep, Idle, Discovering, Asking,
       Fetching, Waiting, NotStarted
  <2>4. QED
    BY <1>1, <1>2, <1>3, <2>3, OwnPartSuffices DEF ClientStep
<1>4. CASE send_file_info(c)
  <2>1. /\ cpc'[c] = "info" /\ srvq = <<>> /\ cliq[c] = <<>>
        /\ out[c] = <<>> /\ idx[c] = 0
    BY <1>4 DEF send_file_info, LockStep, Idle, NotStarted, TypeOK
  <2>2. srvq' \in {<<>>, Append(<<>>, FileInfoReq(Wants[c]))}
    BY <1>4, <2>1, PacketTypes, SendAtMostOnce, ConstantsAssumption DEF send_file_info
  <2>3. /\ Len(srvq') <= 1
        /\ \A j \in 1..Len(srvq') : srvq'[j] = FileInfoReq(Wants[c])
    <3>1. CASE srvq' = <<>>
      BY <3>1, EmptySeq
    <3>2. CASE srvq' = Append(<<>>, FileInfoReq(Wants[c]))
      <4>1. Len(srvq') = 1 /\ srvq'[1] = FileInfoReq(Wants[c])
        BY <3>2, AppendToEmpty
      <4>2. QED
        BY <4>1
    <3>3. QED
      BY <2>2, <3>1, <3>2
  <2>4. LockStep(c)'
    BY <1>1, <2>1, <2>3 DEF LockStep, Idle, Discovering, Asking,
       Fetching, Waiting, NotStarted
  <2>5. QED
    BY <1>1, <1>2, <1>4, <2>4, OwnPartSuffices DEF ClientStep
<1>5. CASE send_chunk_read(c)
  <2>1. /\ cpc'[c] = "wait" /\ Started(c) /\ NoChunkReq(srvq)
        /\ cliq[c] = <<>> /\ FdAt(Wants[c], idx[c])
    BY <1>5 DEF send_chunk_read, LockStep, Fetching, TypeOK
  <2>2. /\ ChunkReq(idx[c]) \in Packet /\ idx[c] \in Int
        /\ ChunkReq(idx[c]).op = "CHUNK_READ" /\ ChunkReq(idx[c]).chunk = idx[c]
    BY PacketTypes DEF TypeOK, ChunkReq, Pkt
  <2>3. srvq' \in {srvq, Append(srvq, ChunkReq(idx[c]))}
    BY <1>5, <2>2, SendAtMostOnce DEF send_chunk_read
  <2>4. OneChunkReq(srvq', idx[c])
    BY <2>1, <2>2, <2>3, NoneIsOne, NoChunkReqAppend DEF TypeOK
  <2>5. Started(c)' /\ Requested(c)'
    BY <1>1, <2>1, <2>4 DEF Started, Requested, FdAt
  <2>6. LockStep(c)'
    BY <2>1, <2>5 DEF LockStep, Idle, Discovering, Asking,
       Fetching, Waiting, NotStarted
  <2>7. QED
    BY <1>1, <1>2, <1>5, <2>6, OwnPartSuffices DEF ClientStep
<1>6. QED
  BY <1>3, <1>4, <1>5

LEMMA RecvDiscoverInv ==
    ASSUME NEW c \in Clients, NEW k \in Heads(cliq[c]),
           IInv, OneAtATime, TypeOK', recv_discover(c, k)
    PROVE  IInv'
<1> USE DEF IInv
<1>1. /\ cliq[c] \in Seq(Packet) /\ k \in 1..Len(cliq[c]) /\ cliq[c] # <<>>
  BY TakePacket DEF TypeOK
<1>2. srvq = <<>> /\ Len(cliq[c]) <= 1 /\ out[c] = <<>> /\ idx[c] = 0
  BY <1>1 DEF recv_discover, LockStep, Discovering, NotStarted
<1>3. RemoveAt(cliq[c], k) = <<>>
  BY <1>1, <1>2, RemoveOnly
<1>4. /\ cpc'[c] \in {"found", "gone"} /\ cliq'[c] = <<>>
      /\ UNCHANGED <<srvq, out, idx>>
  BY <1>3 DEF recv_discover, TypeOK
<1>5. LockStep(c)' /\ IsPrefixOfFile(c)'
  BY <1>2, <1>4 DEF LockStep, Idle, Discovering, Asking, Fetching, Waiting,
     NotStarted, ExactCopy, IsPrefixOfFile
<1>6. ClientStep(c)
  BY DEF ClientStep
<1>7. QED
  BY <1>4, <1>5, <1>6, OwnPartSuffices

LEMMA RecvFileInfoInv ==
    ASSUME NEW c \in Clients, NEW k \in Heads(cliq[c]),
           IInv, OneAtATime, TypeOK', recv_file_info(c, k)
    PROVE  IInv'
<1> USE DEF IInv
<1> DEFINE p == cliq[c][k]
<1>1. /\ cliq[c] \in Seq(Packet) /\ k \in 1..Len(cliq[c]) /\ cliq[c] # <<>>
      /\ p.chunk \in Int
  <2>1. cliq[c] \in Seq(Packet)
    BY DEF TypeOK
  <2>2. k \in 1..Len(cliq[c]) /\ p \in Packet
    BY <2>1, TakePacket
  <2>3. QED
    BY <2>1, <2>2 DEF Packet
<1>2. srvq = <<>> /\ Answered(c) /\ out[c] = <<>> /\ idx[c] = 0
  BY <1>1 DEF recv_file_info, LockStep, Asking, NotStarted
<1>3. Len(cliq[c]) = 1 /\ k = 1 /\ (p.chunk > 0 => AsInfo(Wants[c], p))
  BY <1>1, <1>2 DEF Answered
<1>4. RemoveAt(cliq[c], k) = <<>>
  <2>1. Len(cliq[c]) <= 1
    BY <1>3
  <2>2. QED
    BY <1>1, <2>1, RemoveOnly
<1>5. /\ cpc'[c] = IF p.chunk > 0 THEN "fetch" ELSE "gone"
      /\ cliq'[c] = <<>> /\ nr'[c] = p.chunk
      /\ UNCHANGED <<srvq, out, idx, fd>>
  BY <1>4 DEF recv_file_info, TypeOK, serverVars
<1>6. NoChunkReq(<<>>)
  BY EmptySeq DEF NoChunkReq
<1>7. cpc'[c] = "fetch" => Started(c)' /\ FdAt(Wants[c], idx[c])'
  BY <1>1, <1>2, <1>3, <1>5 DEF Started, AsInfo, FdAt
<1>8. LockStep(c)'
  BY <1>2, <1>5, <1>6, <1>7 DEF LockStep, Idle, Discovering, Asking, Fetching,
     Waiting, NotStarted
<1>9. IsPrefixOfFile(c)'
  BY <1>5 DEF ExactCopy, IsPrefixOfFile
<1>10. ClientStep(c)
  BY DEF ClientStep
<1>11. QED
  BY <1>5, <1>8, <1>9, <1>10, OwnPartSuffices

\* The datagram a client waits for is the next block of its file, under the
\* label it expects.
LEMMA ChunkIsNext ==
    ASSUME NEW c \in Clients, NEW k \in Heads(cliq[c]), IInv, recv_chunk(c, k)
    PROVE  LET p == cliq[c][k]
           IN  /\ cliq[c] \in Seq(Packet) /\ Len(cliq[c]) = 1 /\ k = 1
               /\ Started(c) /\ NoChunkReq(srvq) /\ FdAt(Wants[c], idx[c] + 1)
               /\ p \in Packet /\ p.body \in Body
               /\ AsChunk(Wants[c], idx[c], p) /\ Expected(c, p)
               /\ p.body.file = Wants[c] /\ p.body.block = idx[c]
               /\ idx[c] \in Nat /\ nr[c] \in Int
<1> USE DEF IInv
<1> DEFINE p == cliq[c][k]
<1>1. /\ cliq[c] \in Seq(Packet) /\ k \in 1..Len(cliq[c]) /\ cliq[c] # <<>>
      /\ p \in Packet /\ idx[c] \in Nat /\ nr[c] \in Int
  BY TakePacket DEF TypeOK
<1>2. cpc[c] = "wait" /\ Started(c) /\ Replied(c)
  BY <1>1 DEF recv_chunk, LockStep, Waiting, Requested, Stuck
<1>3. /\ Len(cliq[c]) = 1 /\ k = 1 /\ AsChunk(Wants[c], idx[c], p)
      /\ NoChunkReq(srvq) /\ FdAt(Wants[c], idx[c] + 1)
  BY <1>1, <1>2 DEF Replied
<1>4. p.body \in Body
  BY <1>1 DEF Packet
<1>5. QED
  BY <1>1, <1>2, <1>3, <1>4 DEF AsChunk, Expected

\* The heart of the matter: the accepted block is the next one of the file,
\* and the last iteration leaves the file whole.
LEMMA RecvChunkInv ==
    ASSUME NEW c \in Clients, NEW k \in Heads(cliq[c]),
           IInv, OneAtATime, TypeOK', recv_chunk(c, k)
    PROVE  IInv'
<1> USE DEF IInv
<1> DEFINE p == cliq[c][k]
           f == Wants[c]
<1>1. /\ cliq[c] \in Seq(Packet) /\ k \in 1..Len(cliq[c]) /\ cliq[c] # <<>>
      /\ p \in Packet /\ idx[c] \in Nat /\ nr[c] \in Int
  BY TakePacket DEF TypeOK
<1>2. Started(c)
  BY ChunkIsNext
<1>3. /\ Len(cliq[c]) = 1 /\ k = 1 /\ AsChunk(f, idx[c], p)
      /\ NoChunkReq(srvq) /\ FdAt(f, idx[c] + 1)
  BY ChunkIsNext
<1>4. RemoveAt(cliq[c], k) = <<>>
  <2>1. Len(cliq[c]) <= 1
    BY <1>3
  <2>2. QED
    BY <1>1, <2>1, RemoveOnly
<1>5. Expected(c, p)
  BY <1>3 DEF AsChunk, Expected
<1>6. /\ out'[c] = Append(out[c], p.body) /\ idx'[c] = idx[c] + 1
      /\ cpc'[c] = IF idx[c] + 1 < nr[c] THEN "fetch" ELSE "done"
      /\ cliq'[c] = <<>>
      /\ UNCHANGED <<nr, fd>>
  BY <1>4, <1>5 DEF recv_chunk, WriteBlock, TypeOK, serverVars
<1>7. NoChunkReq(srvq')
  <2> DEFINE t == [p EXCEPT !.op = "TRANSFER_DONE"]
  <2>1. t \in Packet /\ t.op = "TRANSFER_DONE"
    BY <1>1 DEF Packet, Ops
  <2>2. srvq' = srvq \/ SendToServer(t)
    BY DEF recv_chunk
  <2> HIDE DEF t
  <2>3. srvq' \in {srvq, Append(srvq, t)}
    BY <2>1, <2>2, SendAtMostOnce
  <2>4. QED
    BY <1>3, <2>1, <2>3, NoChunkReqAppend DEF TypeOK
<1>8. /\ Wants[c] \in Present /\ nr[c] = NrChunks(f) /\ idx[c] < nr[c]
      /\ out[c] \in Seq(Body) /\ p.body \in Body /\ Len(out[c]) = idx[c]
  BY <1>1, <1>2 DEF Started, TypeOK, Packet
<1>9. Len(out'[c]) = idx[c] + 1
  BY <1>6, <1>8
<1>10. IsPrefixOfFile(c)'
  <2>1. ASSUME NEW j \in 1..(idx[c] + 1)
        PROVE  out'[c][j].file = f /\ out'[c][j].block = j - 1
    <3>1. CASE j = idx[c] + 1
      BY <1>3, <1>6, <1>8, <3>1 DEF AsChunk
    <3>2. CASE j # idx[c] + 1
      <4>1. j \in 1..Len(out[c]) /\ out'[c][j] = out[c][j]
        BY <1>1, <1>6, <1>8, <3>2
      <4>2. QED
        BY <4>1 DEF ExactCopy, IsPrefixOfFile
    <3>3. QED
      BY <3>1, <3>2
  <2>2. QED
    BY <1>9, <2>1 DEF IsPrefixOfFile
<1>11. cpc'[c] = "done" => Len(out'[c]) = FileBlocks(f)
  BY <1>1, <1>6, <1>8, <1>9, NrChunksIsFileBlocks
<1>12. cpc'[c] = "fetch" => Started(c)' /\ FdAt(f, idx[c])'
  BY <1>1, <1>3, <1>6, <1>8, <1>9 DEF Started, FdAt
<1>13. LockStep(c)'
  BY <1>6, <1>7, <1>12 DEF LockStep, Idle, Discovering, Asking, Fetching,
     Waiting, NotStarted
<1>14. ClientStep(c)
  BY DEF ClientStep
<1>15. QED
  BY <1>6, <1>10, <1>11, <1>13, <1>14, OwnPartSuffices

\* A restarted server has no file and an empty queue: the client it was
\* serving can only wait.
LEMMA RestartInv ==
    ASSUME IInv, OneAtATime, TypeOK', Restart
    PROVE  IInv'
<1> USE DEF IInv
<1>1. /\ fd' = NoFd /\ srvq' = <<>>
      /\ UNCHANGED <<cpc, nr, last, idx, out, failed, cliq>>
  BY DEF Restart, clientVars
<1>2. ExactCopy' /\ AtMostOne' /\ Quiet'
  BY <1>1 DEF ExactCopy, IsPrefixOfFile, Copied, AtMostOne, Quiet, Bound
<1>3. /\ Len(<<>>) = 0 /\ NoChunkReq(<<>>) /\ \A i : OneChunkReq(<<>>, i)
  BY EmptySeq DEF NoChunkReq, OneChunkReq
<1>4. ASSUME NEW c \in Clients PROVE LockStep(c)'
  <2>1. LockStep(c)
    OBVIOUS
  <2>2. /\ Started(c)' <=> Started(c)
        /\ Answered(c) => Answered(c)'
    BY <1>1 DEF Started, Answered, AsInfo, FdAt
  <2>3. Idle(c)' /\ Discovering(c)' /\ NotStarted(c)'
    BY <1>1, <1>3, <2>1 DEF LockStep, Idle, Discovering, NotStarted
  <2>4. Asking(c)'
    BY <1>1, <1>3, <2>1, <2>2 DEF LockStep, Asking, Answered
  <2>5. Fetching(c)'
    BY <1>1, <1>3, <2>1, <2>2 DEF LockStep, Fetching, FdAt
  <2>6. Waiting(c)'
    BY <1>1, <1>3, <2>1, <2>2 DEF LockStep, Waiting, Requested, Replied,
       Stuck, AsChunk, FdAt
  <2>7. QED
    BY <2>3, <2>4, <2>5, <2>6 DEF LockStep
<1>5. QED
  BY <1>2, <1>4

LEMMA InitInv == Init => IInv
<1> SUFFICES ASSUME Init PROVE IInv
  OBVIOUS
<1>1. TypeOK
  BY InitType
<1>2. ASSUME NEW c \in Clients
      PROVE  cpc[c] = "off" /\ out[c] = <<>> /\ idx[c] = 0 /\ cliq[c] = <<>>
  BY DEF Init
<1>3. QED
  BY <1>1, <1>2 DEF IInv, ExactCopy, IsPrefixOfFile, AtMostOne,
     Quiet, Bound, LockStep, Idle, Discovering, Asking, Fetching, Waiting, NotStarted

LEMMA NextInv ==
    ASSUME OneAtATime
    PROVE  IInv /\ [Next]_vars => IInv'
<1> SUFFICES ASSUME IInv, [Next]_vars PROVE IInv'
  OBVIOUS
<1>1. TypeOK'
  BY NextType DEF IInv
<1>2. CASE ServerStep
  BY <1>2, ServerStepInv
<1>3. CASE RecvError
  BY <1>3 DEF RecvError, OneAtATime
<1>4. CASE Restart
  BY <1>1, <1>4, RestartInv
<1>5. ASSUME NEW c \in Clients, ClientStep(c) PROVE IInv'
  BY <1>1, <1>5, SetupInv, SendInv, RecvDiscoverInv, RecvFileInfoInv,
     RecvChunkInv DEF ClientStep
<1>6. ASSUME NEW c \in Clients, Abort(c) PROVE IInv'
  BY <1>1, <1>6, AbortInv
<1>7. CASE UNCHANGED vars
  <2>1. UNCHANGED <<fd, srvq, cpc, nr, idx, out, failed, cliq>>
    BY <1>7 DEF vars, serverVars, clientVars
  <2>2. ExactCopy' /\ AtMostOne' /\ Quiet'
    BY <2>1 DEF IInv, ExactCopy, IsPrefixOfFile, Copied, AtMostOne, Quiet, Bound
  <2>3. \A c \in Clients : LockStep(c)'
    BY <2>1 DEF IInv, LockStep, Idle, Discovering, Asking, Answered, AsInfo,
       Fetching, Waiting, Started, Requested, Replied, Stuck, AsChunk, FdAt,
       NotStarted, NoChunkReq, OneChunkReq
  <2>4. QED
    BY <1>1, <2>2, <2>3 DEF IInv
<1>8. QED
  BY <1>2, <1>3, <1>4, <1>5, <1>6, <1>7 DEF Next

\* With clients one at a time, on a network that may lose and reorder but not
\* duplicate, with any server restarts, clients given up, and failing fstat,
\* read and write calls: what a client hands to write() is the beginning of its
\* file, and when fetch_file returns, its copy has every block of the file but
\* those whose write() failed.
THEOREM CopiesAreExact ==
    ASSUME OneAtATime
    PROVE  Spec => []ExactCopy
<1>1. Init => IInv
  BY InitInv
<1>2. IInv /\ [Next]_vars => IInv'
  BY NextInv
<1>3. IInv => ExactCopy
  BY DEF IInv
<1>4. QED
  BY <1>1, <1>2, <1>3, PTL DEF Spec

---------------------------------------------------------------------------
(* The transfer implements the abstract copy of FileCopy: an accepted      *)
(* block is CopyBlock, leaving before the end is GiveUp, and every other   *)
(* step stutters.                                                          *)

LEMMA StatusOfOne ==
    ASSUME NEW c \in Clients
    PROVE  AbstractStatus[c] = IF cpc[c] = "done"
                               THEN IF failed[c] = {} THEN "complete" ELSE "damaged"
                               ELSE IF cpc[c] = "gone" THEN "abandoned"
                               ELSE "copying"
BY DEF AbstractStatus

\* What a step of one client that has not left does to the abstract statuses.
LEMMA OneGoesOn ==
    ASSUME NEW c \in Clients, NEW pc, TypeOK,
           cpc[c] \notin {"done", "gone"}, cpc' = [cpc EXCEPT ![c] = pc],
           \A d \in Clients \ {c} : failed'[d] = failed[d]
    PROVE  /\ AbstractStatus[c] = "copying"
           /\ AbstractStatus' = [AbstractStatus EXCEPT ![c] =
                                    IF pc = "done"
                                    THEN IF failed'[c] = {} THEN "complete" ELSE "damaged"
                                    ELSE IF pc = "gone" THEN "abandoned"
                                    ELSE @]
<1>1. AbstractStatus[c] = "copying"
  BY StatusOfOne
<1>2. ASSUME NEW d \in Clients
      PROVE  cpc'[d] = IF d = c THEN pc ELSE cpc[d]
  BY DEF TypeOK
<1>3. AbstractStatus' = [d \in Clients |->
                            IF cpc'[d] = "done"
                            THEN IF failed'[d] = {} THEN "complete" ELSE "damaged"
                            ELSE IF cpc'[d] = "gone" THEN "abandoned"
                            ELSE "copying"]
  BY DEF AbstractStatus
<1>4. ASSUME NEW d \in Clients
      PROVE  AbstractStatus'[d] = IF d = c
                                  THEN IF pc = "done"
                                       THEN IF failed'[c] = {} THEN "complete" ELSE "damaged"
                                       ELSE IF pc = "gone" THEN "abandoned"
                                       ELSE AbstractStatus[c]
                                  ELSE AbstractStatus[d]
  BY <1>1, <1>2, <1>3, StatusOfOne
<1>5. /\ AbstractStatus \in [Clients -> {AbstractStatus[d] : d \in Clients}]
      /\ DOMAIN AbstractStatus = Clients /\ DOMAIN AbstractStatus' = Clients
      /\ AbstractStatus' = [d \in Clients |-> AbstractStatus'[d]]
  BY DEF AbstractStatus
<1>6. QED
  BY <1>1, <1>4, <1>5

LEMMA NothingWritten ==
    ASSUME UNCHANGED out
    PROVE  UNCHANGED AbstractCopy
BY DEF AbstractCopy

LEMMA NobodyMoves ==
    ASSUME UNCHANGED <<cpc, out, failed>>
    PROVE  UNCHANGED <<AbstractStatus, AbstractCopy, failed>>
BY DEF AbstractStatus, AbstractCopy

\* A client step that writes nothing stutters, or gives up.
LEMMA NoWriteImplements ==
    ASSUME NEW c \in Clients, NEW pc, TypeOK, UNCHANGED <<out, failed>>, pc # "done",
           cpc[c] \notin {"done", "gone"}, cpc' = [cpc EXCEPT ![c] = pc]
    PROVE  [Copy!Next]_<<AbstractStatus, AbstractCopy, failed>>
<1>1. UNCHANGED <<AbstractCopy, failed>>
  BY NothingWritten
<1>2. /\ AbstractStatus[c] = "copying"
      /\ AbstractStatus' = [AbstractStatus EXCEPT ![c] =
                               IF pc = "gone" THEN "abandoned" ELSE @]
  BY OneGoesOn
<1>3. CASE pc = "gone"
  <2>1. Copy!GiveUp(c)
    BY <1>1, <1>2, <1>3 DEF Copy!GiveUp
  <2>2. QED
    BY <2>1 DEF Copy!Next
<1>4. CASE pc # "gone"
  <2>1. AbstractStatus' = AbstractStatus
    <3>1. AbstractStatus = [d \in Clients |-> AbstractStatus[d]]
      BY DEF AbstractStatus
    <3>2. QED
      BY <1>2, <1>4, <3>1
  <2>2. QED
    BY <1>1, <2>1
<1>5. QED
  BY <1>3, <1>4

\* The abstract copy of a sequence of blocks.
Pairs(q) == [j \in 1..Len(q) |-> <<q[j].file, q[j].block>>]

LEMMA PairsOfAppend ==
    ASSUME NEW q \in Seq(Body), NEW b \in Body
    PROVE  /\ Len(Pairs(q)) = Len(q)
           /\ Pairs(Append(q, b)) = Append(Pairs(q), <<b.file, b.block>>)
<1> DEFINE e == <<b.file, b.block>>
           All == {<<x.file, x.block>> : x \in Body}
           r == Append(q, b)
<1>1. /\ r \in Seq(Body) /\ Len(r) = Len(q) + 1 /\ Len(q) \in Nat
      /\ \A j \in 1..Len(r) : r[j] = IF j = Len(q) + 1 THEN b ELSE q[j]
  OBVIOUS
<1>2. \A j \in 1..Len(q) : q[j] \in Body
  OBVIOUS
<1>3. e \in All
  OBVIOUS
<1> HIDE DEF r
<1>4. \A j \in 1..Len(r) : r[j] \in Body
  BY <1>1, <1>2
<1>5. \A j \in 1..Len(q) : <<q[j].file, q[j].block>> \in All
  BY <1>2
<1>6. \A j \in 1..Len(r) : <<r[j].file, r[j].block>> \in All
  BY <1>4
<1>7. \A j \in 1..Len(r) :
         <<r[j].file, r[j].block>> = IF j = Len(q) + 1 THEN e ELSE <<q[j].file, q[j].block>>
  BY <1>1
<1> HIDE DEF e, All
<1>8. Pairs(q) \in Seq(All) /\ Len(Pairs(q)) = Len(q)
  BY <1>1, <1>5 DEF Pairs
<1>9. Pairs(r) \in Seq(All) /\ Len(Pairs(r)) = Len(r)
  BY <1>1, <1>6 DEF Pairs
<1>10. \A j \in 1..Len(q) : Pairs(q)[j] = <<q[j].file, q[j].block>>
  BY DEF Pairs
<1>11. \A j \in 1..Len(r) : Pairs(r)[j] = <<r[j].file, r[j].block>>
  BY DEF Pairs
<1> DEFINE P == Pairs(q)
           R == Pairs(r)
<1>12. R \in Seq(All) /\ Len(R) = Len(q) + 1
  BY <1>1, <1>9
<1>13. P \in Seq(All) /\ Len(P) = Len(q)
  BY <1>8
<1>14. ASSUME NEW j \in 1..(Len(q) + 1)
       PROVE  R[j] = IF j = Len(q) + 1 THEN e ELSE P[j]
  <2>1. R[j] = IF j = Len(q) + 1 THEN e ELSE <<q[j].file, q[j].block>>
    BY <1>1, <1>7, <1>11
  <2>2. j # Len(q) + 1 => P[j] = <<q[j].file, q[j].block>>
    BY <1>1, <1>10
  <2> HIDE DEF P, R
  <2>3. QED
    BY <2>1, <2>2
<1> HIDE DEF P, R
<1>15. /\ Append(P, e) \in Seq(All) /\ Len(Append(P, e)) = Len(q) + 1
       /\ \A j \in 1..(Len(q) + 1) : Append(P, e)[j] = IF j = Len(q) + 1 THEN e ELSE P[j]
  BY <1>1, <1>3, <1>13
<1>16. R = Append(P, e)
  BY <1>1, <1>12, <1>14, <1>15, SeqEqual
<1>17. QED
  BY <1>8, <1>16, Zenon DEF P, R, r, e

\* The accepted block is the abstract CopyBlock, and the client is done
\* exactly when the abstract copy is complete.
LEMMA WriteImplements ==
    ASSUME NEW c \in Clients, NEW k \in Heads(cliq[c]), IInv, recv_chunk(c, k)
    PROVE  Copy!CopyBlock(c)
<1> DEFINE f == Wants[c]
           b == cliq[c][k].body
           pc == IF idx[c] + 1 < nr[c] THEN "fetch" ELSE "done"
<1>1. /\ Started(c) /\ b \in Body /\ b.file = f /\ b.block = idx[c]
      /\ Expected(c, cliq[c][k]) /\ idx[c] \in Nat /\ nr[c] \in Int
  BY ChunkIsNext
<1>2. /\ f \in Present /\ nr[c] = FileBlocks(f) /\ idx[c] < nr[c]
      /\ out[c] \in Seq(Body) /\ Len(out[c]) = idx[c]
  BY <1>1, NrChunksIsFileBlocks DEF Started, IInv, TypeOK
<1>3. /\ out' = [out EXCEPT ![c] = Append(@, b)]
      /\ cpc' = [cpc EXCEPT ![c] = pc]
      /\ cpc[c] = "wait"
      /\ \/ UNCHANGED failed
         \/ "write" \in Faults /\ failed' = [failed EXCEPT ![c] = @ \cup {idx[c] + 1}]
  BY <1>1, <1>2 DEF recv_chunk, WriteBlock
<1> HIDE DEF b
<1>4. /\ AbstractCopy = [d \in Clients |-> Pairs(out[d])]
      /\ AbstractCopy' = [d \in Clients |-> Pairs(out'[d])]
  BY DEF AbstractCopy, Pairs
<1>5. /\ Len(AbstractCopy[c]) = idx[c]
      /\ Pairs(Append(out[c], b)) = Append(AbstractCopy[c], <<f, Len(AbstractCopy[c])>>)
  <2>1. Len(Pairs(out[c])) = idx[c] /\ AbstractCopy[c] = Pairs(out[c])
    BY <1>1, <1>2, <1>4, PairsOfAppend
  <2>2. Pairs(Append(out[c], b)) = Append(Pairs(out[c]), <<b.file, b.block>>)
    BY <1>1, <1>2, PairsOfAppend
  <2>3. QED
    BY <1>1, <2>1, <2>2
<1>6. AbstractCopy' = [AbstractCopy EXCEPT ![c] = Append(@, <<f, Len(@)>>)]
  <2>1. ASSUME NEW d \in Clients
        PROVE  Pairs(out'[d]) = IF d = c THEN Append(AbstractCopy[c], <<f, Len(AbstractCopy[c])>>)
                                ELSE Pairs(out[d])
    <3>1. out'[d] = IF d = c THEN Append(out[c], b) ELSE out[d]
      BY <1>3 DEF IInv, TypeOK
    <3>2. QED
      BY <1>5, <3>1
  <2>2. QED
    BY <1>4, <2>1
<1>7. /\ AbstractStatus[c] = "copying"
      /\ AbstractStatus' = [AbstractStatus EXCEPT ![c] =
                               IF pc = "done"
                               THEN IF failed'[c] = {} THEN "complete" ELSE "damaged"
                               ELSE IF pc = "gone" THEN "abandoned" ELSE @]
  <2>1. \A d \in Clients \ {c} : failed'[d] = failed[d]
    BY <1>3 DEF IInv, TypeOK
  <2>2. QED
    BY <1>3, <2>1, OneGoesOn DEF IInv
<1>8. /\ Len(AbstractCopy[c]) < FileBlocks(f)
      /\ \/ Len(AbstractCopy[c]) + 1 < FileBlocks(f) /\ pc = "fetch"
         \/ Len(AbstractCopy[c]) + 1 = FileBlocks(f) /\ pc = "done"
      /\ Len(AbstractCopy[c]) + 1 < FileBlocks(f) => Len(AbstractCopy[c]) + 1 # FileBlocks(f)
  BY <1>1, <1>2, <1>5
<1> HIDE DEF pc
<1>9. AbstractStatus' = [AbstractStatus EXCEPT ![c] =
         CASE Len(AbstractCopy[c]) + 1 < FileBlocks(f) -> @
           [] Len(AbstractCopy[c]) + 1 = FileBlocks(f) ->
                 IF failed'[c] = {} THEN "complete" ELSE "damaged"]
  <2>1. CASE pc = "fetch"
    BY <1>7, <1>8, <2>1
  <2>2. CASE pc = "done"
    BY <1>7, <1>8, <2>2
  <2>3. QED
    BY <1>8, <2>1, <2>2
<1>10. \/ UNCHANGED failed
       \/ /\ "write" \in Faults
          /\ failed' = [failed EXCEPT ![c] = @ \cup {Len(AbstractCopy[c]) + 1}]
  BY <1>3, <1>5
<1>11. QED
  BY <1>6, <1>7, <1>8, <1>9, <1>10 DEF Copy!CopyBlock

LEMMA ClientImplements ==
    ASSUME NEW c \in Clients, IInv, ClientStep(c) \/ Abort(c)
    PROVE  [Copy!Next]_<<AbstractStatus, AbstractCopy, failed>>
<1>1. CASE \/ setup_client_socket(c) \/ send_discover(c)
           \/ send_file_info(c) \/ send_chunk_read(c) \/ Abort(c)
  <2>1. /\ UNCHANGED <<out, failed>> /\ cpc[c] \notin {"done", "gone"}
        /\ \E pc \in {"bound", "disc", "info", "wait", "gone"} : cpc' = [cpc EXCEPT ![c] = pc]
    BY <1>1 DEF setup_client_socket, send_discover, send_file_info,
                send_chunk_read, Abort, Bound
  <2>2. QED
    BY <2>1, NoWriteImplements DEF IInv
<1>2. ASSUME NEW k \in Heads(cliq[c]), recv_discover(c, k) \/ recv_file_info(c, k)
      PROVE  [Copy!Next]_<<AbstractStatus, AbstractCopy, failed>>
  <2>1. CASE recv_discover(c, k)
    <3>1. /\ UNCHANGED <<out, failed>> /\ cpc[c] = "disc"
          /\ \E pc \in {"found", "gone"} : cpc' = [cpc EXCEPT ![c] = pc]
      BY <2>1 DEF recv_discover
    <3>2. QED
      BY <3>1, NoWriteImplements DEF IInv
  <2>2. CASE recv_file_info(c, k)
    <3>1. /\ UNCHANGED <<out, failed>> /\ cpc[c] = "info"
          /\ \E pc \in {"fetch", "gone"} : cpc' = [cpc EXCEPT ![c] = pc]
      BY <2>2 DEF recv_file_info
    <3>2. QED
      BY <3>1, NoWriteImplements DEF IInv
  <2>3. QED
    BY <1>2, <2>1, <2>2
<1>3. ASSUME NEW k \in Heads(cliq[c]), recv_chunk(c, k)
      PROVE  [Copy!Next]_<<AbstractStatus, AbstractCopy, failed>>
  <2>1. Copy!CopyBlock(c)
    BY <1>3, WriteImplements
  <2>2. QED
    BY <2>1 DEF Copy!Next
<1>4. QED
  BY <1>1, <1>2, <1>3 DEF ClientStep

\* With clients one at a time, on a network that may lose and reorder but not
\* duplicate, the whole transfer implements FileCopy: the blocks have their
\* turns in order, a copy misses only those whose write() failed and is
\* "complete" when there is none, and a client that has left changes no more.
THEOREM TransferImplementsCopy ==
    ASSUME OneAtATime
    PROVE  Spec => ImplementsFileCopy
<1>1. Init => Copy!Init
  <2> SUFFICES ASSUME Init PROVE Copy!Init
    OBVIOUS
  <2>1. AbstractStatus = [c \in Clients |-> "copying"]
    BY DEF Init, AbstractStatus
  <2>2. ASSUME NEW c \in Clients PROVE Pairs(out[c]) = <<>>
    BY DEF Init, Pairs
  <2>3. AbstractCopy = [c \in Clients |-> Pairs(out[c])]
    BY DEF AbstractCopy, Pairs
  <2>4. AbstractCopy = [c \in Clients |-> <<>>]
    BY <2>2, <2>3
  <2>5. QED
    BY <2>1, <2>4 DEF Init, Copy!Init
<1>2. IInv /\ [Next]_vars => [Copy!Next]_<<AbstractStatus, AbstractCopy, failed>>
  <2> SUFFICES ASSUME IInv, [Next]_vars
               PROVE  [Copy!Next]_<<AbstractStatus, AbstractCopy, failed>>
    OBVIOUS
  <2>1. CASE ServerStep \/ RecvError \/ Restart \/ UNCHANGED vars
    <3>1. UNCHANGED <<cpc, out, failed>>
      BY <2>1 DEF ServerStep, RecvError, Restart, process_discover, process_fileinfo,
         process_chunkrd, InvalidOpcode, NextChunk, TransferDone, vars, clientVars
    <3>2. QED
      BY <3>1, NobodyMoves
  <2>2. ASSUME NEW c \in Clients, ClientStep(c) \/ Abort(c)
        PROVE  [Copy!Next]_<<AbstractStatus, AbstractCopy, failed>>
    BY <2>2, ClientImplements
  <2>3. QED
    BY <2>1, <2>2 DEF Next
<1>3. Init => IInv
  BY InitInv
<1>4. IInv /\ [Next]_vars => IInv'
  BY NextInv
<1>5. QED
  BY <1>1, <1>2, <1>3, <1>4, PTL DEF Spec, ImplementsFileCopy, Copy!Spec

---------------------------------------------------------------------------
(* The inductive invariant behind ReadOrder, for any number of clients at  *)
(* work together, with datagrams lost or duplicated, and all faults, on a  *)
(* network that keeps the order of datagrams: the blocks in a client's     *)
(* queue are in the order of their reads, behind the ones it has written.  *)

\* Block a was read before block b.
Before(a, b) == a.gen < b.gen \/ (a.gen = b.gen /\ a.block < b.block)

SameRead(a, b) == a.gen = b.gen /\ a.block = b.block

IsBlock(p) == p.op = "CHUNK_READ" /\ p.ack = 1

\* The read of b is behind the position of the server's descriptor.
AlreadyRead(b) ==
    /\ b.gen <= gen
    /\ fd # NoFd /\ b.gen = gen => b.block < fd.next

\* Of two blocks in a queue the second was read later, or is a duplicate.
InOrder(q) ==
    \A i, j \in 1..Len(q) :
        i < j /\ IsBlock(q[i]) /\ IsBlock(q[j]) =>
            \/ Before(q[i].body, q[j].body)
            \/ SameRead(q[i].body, q[j].body) /\ q[i].chunk = q[j].chunk

\* A queued block was read after every written one, or is the duplicate of
\* one whose label the client, at iteration n, no longer expects.
Behind(o, q, n) ==
    \A i \in 1..Len(o), j \in 1..Len(q) :
        IsBlock(q[j]) => \/ Before(o[i], q[j].body)
                         \/ SameRead(o[i], q[j].body) /\ q[j].chunk < n

Rising(o) == \A i, j \in 1..Len(o) : i < j => Before(o[i], o[j])

Seen(o, q) ==
    /\ \A i \in 1..Len(o) : AlreadyRead(o[i])
    /\ \A j \in 1..Len(q) : IsBlock(q[j]) => AlreadyRead(q[j].body)

ClientInOrder(c) ==
    /\ InOrder(cliq[c])
    /\ Behind(out[c], cliq[c], idx[c])
    /\ Rising(out[c])
    /\ Seen(out[c], cliq[c])

OrderInv ==
    /\ TypeOK
    /\ fd # NoFd => fd.gen = gen
    /\ \A c \in Clients : ClientInOrder(c)

\* The descriptor only moves on: to a later block, to a later open, or away.
Onwards ==
    /\ gen' \in Nat /\ gen <= gen'
    /\ fd' # NoFd => fd'.gen = gen'
    /\ fd' # NoFd /\ gen' = gen => fd # NoFd /\ fd.next <= fd'.next

\* What has been read stays read.
LEMMA ReadStaysRead ==
    ASSUME TypeOK, TypeOK', Onwards, NEW b \in Body, AlreadyRead(b)
    PROVE  AlreadyRead(b)'
<1>1. b.gen \in Nat /\ b.block \in Nat /\ gen \in Nat
  BY DEF Body, TypeOK
<1>2. fd # NoFd => fd.next \in Nat
  BY DEF TypeOK, FdOK
<1>3. fd' # NoFd => fd'.next \in Nat
  BY DEF TypeOK, FdOK
<1>4. QED
  BY <1>1, <1>2, <1>3 DEF AlreadyRead, Onwards

\* What a delivery adds is at the end of the queue.
LEMMA Delivered ==
    ASSUME NEW q \in Seq(Packet), NEW p \in Packet, NEW n \in Nat
    PROVE  /\ Len(Deliver(q, p, n)) \in Nat /\ Len(q) <= Len(Deliver(q, p, n))
           /\ \A j \in 1..Len(Deliver(q, p, n)) :
                 Deliver(q, p, n)[j] = IF j <= Len(q) THEN q[j] ELSE p
<1> DEFINE t == [j \in 1..n |-> p]
<1>1. t \in Seq(Packet) /\ Len(t) = n /\ \A j \in 1..n : t[j] = p
  OBVIOUS
<1> HIDE DEF t
<1>2. CASE n = 0
  BY <1>2 DEF Deliver
<1>3. CASE n # 0
  <2>1. Deliver(q, p, n) = q \o t
    BY <1>3 DEF Deliver, t
  <2>2. /\ Len(q \o t) = Len(q) + n
        /\ \A j \in 1..(Len(q) + n) : (q \o t)[j] = IF j <= Len(q) THEN q[j] ELSE t[j - Len(q)]
    BY <1>1
  <2>3. \A j \in 1..(Len(q) + n) : ~(j <= Len(q)) => j - Len(q) \in 1..n
    OBVIOUS
  <2>4. QED
    BY <1>1, <2>1, <2>2, <2>3
<1>4. QED
  BY <1>2, <1>3

\* A delivered datagram that is no block, or the block just read, keeps a
\* client in order.
LEMMA DeliverInOrder ==
    ASSUME NEW o \in Seq(Body), NEW q \in Seq(Packet), NEW n \in Nat,
           NEW p \in Packet, NEW m \in Nat,
           InOrder(q), Behind(o, q, n), TypeOK, TypeOK', Onwards,
           Seen(o, q),
           IsBlock(p) => /\ AlreadyRead(p.body)'
                         /\ \A b \in Body : AlreadyRead(b) => Before(b, p.body)
    PROVE  /\ InOrder(Deliver(q, p, m))
           /\ Behind(o, Deliver(q, p, m), n)
           /\ Seen(o, Deliver(q, p, m))'
<1> DEFINE r == Deliver(q, p, m)
<1>1. /\ Len(r) \in Nat /\ Len(q) \in Nat /\ Len(q) <= Len(r)
      /\ \A j \in 1..Len(r) : r[j] = IF j <= Len(q) THEN q[j] ELSE p
  BY Delivered
<1>2. ASSUME NEW j \in 1..Len(q)
      PROVE  q[j] \in Packet /\ q[j].body \in Body
  <2>1. q[j] \in Packet
    OBVIOUS
  <2>2. QED
    BY <2>1 DEF Packet
<1>3. \A i \in 1..Len(o) : o[i] \in Body
  OBVIOUS
<1> HIDE DEF r
<1>4. IsBlock(p) => /\ \A j \in 1..Len(q) : IsBlock(q[j]) => Before(q[j].body, p.body)
                    /\ \A i \in 1..Len(o) : Before(o[i], p.body)
  BY <1>2, <1>3 DEF Seen
<1>5. InOrder(r)
  <2> SUFFICES ASSUME NEW i \in 1..Len(r), NEW j \in 1..Len(r),
                      i < j, IsBlock(r[i]), IsBlock(r[j])
               PROVE  \/ Before(r[i].body, r[j].body)
                      \/ SameRead(r[i].body, r[j].body) /\ r[i].chunk = r[j].chunk
    BY DEF InOrder
  <2>1. CASE j <= Len(q)
    <3>1. i \in 1..Len(q) /\ j \in 1..Len(q) /\ r[i] = q[i] /\ r[j] = q[j]
      BY <1>1, <2>1
    <3>2. QED
      BY <3>1 DEF InOrder
  <2>2. CASE ~(j <= Len(q)) /\ i <= Len(q)
    <3>1. i \in 1..Len(q) /\ r[i] = q[i] /\ r[j] = p
      BY <1>1, <2>2
    <3>2. QED
      BY <1>4, <3>1
  <2>3. CASE ~(j <= Len(q)) /\ ~(i <= Len(q))
    <3>1. r[i] = p /\ r[j] = p
      BY <1>1, <2>3
    <3>2. QED
      BY <3>1 DEF SameRead
  <2>4. QED
    BY <2>1, <2>2, <2>3
<1>6. Behind(o, r, n)
  <2> SUFFICES ASSUME NEW i \in 1..Len(o), NEW j \in 1..Len(r), IsBlock(r[j])
               PROVE  \/ Before(o[i], r[j].body)
                      \/ SameRead(o[i], r[j].body) /\ r[j].chunk < n
    BY DEF Behind
  <2>1. CASE j <= Len(q)
    <3>1. j \in 1..Len(q) /\ r[j] = q[j]
      BY <1>1, <2>1
    <3>2. QED
      BY <3>1 DEF Behind
  <2>2. CASE ~(j <= Len(q))
    BY <1>1, <1>4, <2>2
  <2>3. QED
    BY <2>1, <2>2
<1>7. \A i \in 1..Len(o) : AlreadyRead(o[i])'
  BY <1>3, ReadStaysRead DEF Seen
<1>8. \A j \in 1..Len(r) : IsBlock(r[j]) => AlreadyRead(r[j].body)'
  <2> SUFFICES ASSUME NEW j \in 1..Len(r), IsBlock(r[j])
               PROVE  AlreadyRead(r[j].body)'
    OBVIOUS
  <2>1. CASE j <= Len(q)
    <3>1. j \in 1..Len(q) /\ r[j] = q[j]
      BY <1>1, <2>1
    <3>2. AlreadyRead(q[j].body) /\ q[j].body \in Body
      BY <1>2, <3>1 DEF Seen
    <3>3. QED
      BY <3>1, <3>2, ReadStaysRead
  <2>2. CASE ~(j <= Len(q))
    BY <1>1, <2>2
  <2>3. QED
    BY <2>1, <2>2
<1>9. QED
  BY <1>5, <1>6, <1>7, <1>8 DEF Seen, r

\* Each step of the server moves it on, and hands out at most one datagram:
\* no block, or the one it just read.
LEMMA ServerGoesOn ==
    ASSUME TypeOK, fd # NoFd => fd.gen = gen,
           ServerStep \/ RecvError \/ Restart
    PROVE  /\ UNCHANGED clientVars
           /\ Onwards
           /\ \/ UNCHANGED cliq
              \/ \E p \in Packet :
                    /\ Broadcast(p)
                    /\ IsBlock(p) => /\ AlreadyRead(p.body)'
                                     /\ \A b \in Body : AlreadyRead(b) => Before(b, p.body)
<1> DEFINE Sent(p) == /\ Broadcast(p)
                      /\ IsBlock(p) => /\ AlreadyRead(p.body)'
                                       /\ \A b \in Body : AlreadyRead(b) => Before(b, p.body)
<1>1. ASSUME UNCHANGED <<fd, gen>> PROVE Onwards
  BY <1>1 DEF Onwards, TypeOK, FdOK
<1>2. ASSUME NEW label \in Int, ReadAndReply(label), UNCHANGED gen
      PROVE  Onwards /\ (UNCHANGED cliq \/ \E p \in Packet : Sent(p))
  <2>1. CASE LeaveLoop
    BY <1>1, <1>2, <2>1 DEF LeaveLoop
  <2>2. CASE ~AtEnd /\ ~LeaveLoop
    <3>0. ChunkRep(label) \in Packet
      BY <2>2, ChunkRepType DEF TypeOK
    <3> PICK p \in Packet : p = ChunkRep(label)
      BY <3>0
    <3>1. Broadcast(p) /\ fd' = [fd EXCEPT !.next = @ + 1]
      BY <1>2, <2>2 DEF ReadAndReply
    <3>2. fd # NoFd /\ fd \in [file : Present, next : Nat, gen : Nat] /\ fd.gen = gen
      BY <2>2 DEF AtEnd, TypeOK, FdOK
    <3>3. fd'.next = fd.next + 1 /\ fd'.gen = fd.gen /\ gen' = gen /\ gen \in Nat
      BY <1>2, <3>1, <3>2
    <3>4. Onwards
      BY <3>2, <3>3 DEF Onwards
    <3>5. p.body.gen = gen /\ p.body.block = fd.next
      BY <3>2 DEF ChunkRep, Pkt
    <3>6. AlreadyRead(p.body)'
      BY <3>2, <3>3, <3>5 DEF AlreadyRead
    <3>7. ASSUME NEW b \in Body, AlreadyRead(b) PROVE Before(b, p.body)
      <4>1. b.gen \in Nat /\ b.block \in Nat
        BY DEF Body
      <4>2. QED
        BY <3>2, <3>3, <3>5, <3>7, <4>1 DEF AlreadyRead, Before
    <3>8. QED
      BY <3>1, <3>4, <3>6, <3>7
  <2>3. QED
    BY <1>2, <2>1, <2>2 DEF ReadAndReply
<1>3. ASSUME NEW f, OpenFile(f)
      PROVE  Onwards /\ (UNCHANGED cliq \/ \E p \in Packet : Sent(p))
  <2>1. ASSUME NEW p \in Packet, p.op = "FILE_INFO", Broadcast(p) PROVE Sent(p)
    BY <2>1 DEF IsBlock
  <2>2. ASSUME NEW n \in Int, NEW l \in Int
        PROVE  FileInfoRep(n, l) \in Packet /\ FileInfoRep(n, l).op = "FILE_INFO"
    BY PacketTypes DEF FileInfoRep, Pkt
  <2> HIDE DEF Sent
  <2>3. CASE f \in Present /\ nfds < MaxFds
    <3>1. /\ gen' = gen + 1 /\ fd' = [file |-> f, next |-> 0, gen |-> gen + 1]
          /\ \/ \E l \in LastLens(f) : Broadcast(FileInfoRep(NrChunks(f), l))
             \/ UNCHANGED cliq
      BY <1>3, <2>3 DEF OpenFile
    <3>2. NrChunks(f) \in Int /\ LastLens(f) \subseteq Int
      BY <2>3, ChunkNumbers
    <3>3. Onwards
      BY <3>1 DEF Onwards, TypeOK
    <3>4. ASSUME NEW l \in LastLens(f), Broadcast(FileInfoRep(NrChunks(f), l))
          PROVE  \E p \in Packet : Sent(p)
      <4>1. PICK p \in Packet : p = FileInfoRep(NrChunks(f), l)
        BY <2>2, <3>2
      <4>2. Broadcast(p) /\ p.op = "FILE_INFO"
        BY <2>2, <3>2, <3>4, <4>1
      <4>3. QED
        BY <2>1, <4>2
    <3>5. QED
      BY <3>1, <3>3, <3>4
  <2>4. CASE ~(f \in Present /\ nfds < MaxFds)
    <3>1. /\ gen' = gen /\ fd' = NoFd
          /\ \E l \in Garbage : Broadcast(FileInfoRep(-1, l))
      BY <1>3, <2>4 DEF OpenFile
    <3>2. Garbage \subseteq Int
      BY ConstantsAssumption
    <3>3. Onwards
      BY <3>1 DEF Onwards, TypeOK
    <3>4. PICK l \in Garbage : Broadcast(FileInfoRep(-1, l))
      BY <3>1
    <3>5. PICK p \in Packet : p = FileInfoRep(-1, l)
      BY <2>2, <3>2
    <3>6. Broadcast(p) /\ p.op = "FILE_INFO"
      BY <2>2, <3>2, <3>4, <3>5
    <3>7. QED
      BY <2>1, <3>3, <3>6
  <2>5. QED
    BY <2>3, <2>4
<1>4. CASE RecvError
  BY <1>2, <1>4 DEF RecvError
<1>5. CASE Restart
  BY <1>5 DEF Restart, Onwards, TypeOK
<1>6. CASE ServerStep
  <2>1. PICK k \in Heads(srvq) :
          \/ process_discover(k) \/ process_fileinfo(k) \/ process_chunkrd(k)
          \/ InvalidOpcode(k) \/ NextChunk(k) \/ TransferDone(k)
    BY <1>6 DEF ServerStep
  <2>2. srvq[k].chunk \in Int
    <3>1. srvq[k] \in Packet
      BY TakePacket DEF TypeOK
    <3>2. QED
      BY <3>1 DEF Packet
  <2>3. CASE process_discover(k)
    <3>1. PICK p \in Packet : p = DiscoverAck
      BY PacketTypes
    <3>2. Broadcast(p) /\ p.op = "DISCOVER" /\ UNCHANGED <<serverVars, clientVars>>
      BY <2>3, <3>1 DEF process_discover, DiscoverAck, Pkt
    <3>3. Onwards
      BY <1>1, <3>2 DEF serverVars
    <3>4. QED
      BY <3>2, <3>3 DEF IsBlock
  <2>4. CASE process_fileinfo(k)
    <3>1. OpenFile(srvq[k].body.file) /\ UNCHANGED clientVars
      BY <2>4 DEF process_fileinfo
    <3>2. QED
      BY <1>3, <3>1
  <2>5. CASE process_chunkrd(k) \/ NextChunk(k)
    <3>1. ReadAndReply(srvq[k].chunk) /\ UNCHANGED <<gen, clientVars>>
      BY <2>5 DEF process_chunkrd, NextChunk
    <3>2. QED
      BY <1>2, <2>2, <3>1
  <2>6. CASE InvalidOpcode(k) \/ TransferDone(k)
    BY <1>1, <2>6 DEF InvalidOpcode, TransferDone, serverVars
  <2>7. QED
    BY <2>1, <2>3, <2>4, <2>5, <2>6
<1>7. QED
  BY <1>4, <1>5, <1>6

\* The server's steps keep every client in order.
LEMMA ServerInOrder ==
    ASSUME OrderInv, TypeOK', ServerStep \/ RecvError \/ Restart
    PROVE  OrderInv'
<1>1. TypeOK /\ (fd # NoFd => fd.gen = gen)
  BY DEF OrderInv
<1>2. UNCHANGED clientVars /\ Onwards
  BY <1>1, ServerGoesOn
<1>3. out' = out /\ idx' = idx
  BY <1>2 DEF clientVars
<1>4. ASSUME NEW c \in Clients PROVE ClientInOrder(c)'
  <2>1. PICK o \in Seq(Body), q \in Seq(Packet), n \in Nat :
          o = out[c] /\ q = cliq[c] /\ n = idx[c]
    BY <1>1 DEF TypeOK
  <2>2. InOrder(q) /\ Behind(o, q, n) /\ Rising(o) /\ Seen(o, q)
    BY <2>1 DEF OrderInv, ClientInOrder
  <2>3. \A i \in 1..Len(o) : o[i] \in Body
    OBVIOUS
  <2>4. ASSUME NEW j \in 1..Len(q) PROVE q[j].body \in Body
    <3>1. q[j] \in Packet
      OBVIOUS
    <3>2. QED
      BY <3>1 DEF Packet
  <2>5. Seen(o, q)'
    BY <1>1, <1>2, <2>2, <2>3, <2>4, ReadStaysRead DEF Seen
  <2>6. ASSUME NEW r, r = cliq'[c], InOrder(r), Behind(o, r, n), Seen(o, r)'
        PROVE  ClientInOrder(c)'
    <3>1. out'[c] = o /\ idx'[c] = n /\ cliq'[c] = r
      BY <1>3, <2>1, <2>6
    <3>2. QED
      BY <2>2, <2>6, <3>1 DEF ClientInOrder, InOrder, Behind, Rising, Seen, AlreadyRead
  <2>7. CASE cliq'[c] = cliq[c]
    BY <2>1, <2>2, <2>5, <2>6, <2>7
  <2>8. CASE cliq'[c] # cliq[c]
    <3>1. PICK p \in Packet :
            /\ Broadcast(p)
            /\ IsBlock(p) => /\ AlreadyRead(p.body)'
                             /\ \A b \in Body : AlreadyRead(b) => Before(b, p.body)
      BY <1>1, <2>8, ServerGoesOn
    <3>2. PICK m \in [Clients -> Copies] :
            cliq' = [d \in Clients |->
                        IF Bound(d) THEN Deliver(cliq[d], p, m[d]) ELSE cliq[d]]
      BY <3>1 DEF Broadcast
    <3>3. m[c] \in Nat
      BY ConstantsAssumption
    <3>4. cliq'[c] = Deliver(q, p, m[c])
      BY <2>1, <2>8, <3>2
    <3>5. PICK r : r = Deliver(q, p, m[c])
      OBVIOUS
    <3>6. InOrder(r) /\ Behind(o, r, n) /\ Seen(o, r)'
      BY <1>1, <1>2, <2>2, <3>1, <3>3, <3>5, DeliverInOrder
    <3>7. QED
      BY <2>6, <3>4, <3>5, <3>6
  <2>9. QED
    BY <2>7, <2>8
<1>5. fd' # NoFd => fd'.gen = gen'
  BY <1>2 DEF Onwards
<1>6. QED
  BY <1>4, <1>5 DEF OrderInv

\* A client that drops its head datagram, or all of them, stays in order;
\* the datagram that carries its label may be written first.
LEMMA TakeFirst ==
    ASSUME NEW q \in Seq(Packet), q # <<>>
    PROVE  /\ RemoveAt(q, 1) \in Seq(Packet) /\ Len(RemoveAt(q, 1)) = Len(q) - 1
           /\ Len(q) \in Nat /\ 1 \in 1..Len(q)
           /\ \A j \in 1..(Len(q) - 1) : RemoveAt(q, 1)[j] = q[j + 1]
<1>1. Len(q) \in Nat /\ 1 \in 1..Len(q)
  BY EmptySeq
<1>2. \A j \in 1..(Len(q) - 1) : ~(j < 1)
  OBVIOUS
<1>3. QED
  BY <1>1, <1>2, RemoveAtProps

LEMMA TakeInOrder ==
    ASSUME NEW o \in Seq(Body), NEW q \in Seq(Packet), NEW n \in Nat, q # <<>>,
           InOrder(q), Behind(o, q, n), Rising(o), Seen(o, q), NEW m \in {n, n + 1}
    PROVE  /\ InOrder(RemoveAt(q, 1)) /\ Behind(o, RemoveAt(q, 1), m)
           /\ Seen(o, RemoveAt(q, 1))
<1> DEFINE r == RemoveAt(q, 1)
<1>1. /\ Len(r) = Len(q) - 1 /\ Len(q) \in Nat
      /\ \A j \in 1..Len(r) : r[j] = q[j + 1] /\ j + 1 \in 1..Len(q)
  BY TakeFirst
<1>2. ASSUME NEW j \in 1..Len(q) PROVE q[j].chunk \in Int
  <2>1. q[j] \in Packet
    OBVIOUS
  <2>2. QED
    BY <2>1 DEF Packet
<1> HIDE DEF r
<1>3. InOrder(r)
  <2> SUFFICES ASSUME NEW i \in 1..Len(r), NEW j \in 1..Len(r),
                      i < j, IsBlock(r[i]), IsBlock(r[j])
               PROVE  \/ Before(r[i].body, r[j].body)
                      \/ SameRead(r[i].body, r[j].body) /\ r[i].chunk = r[j].chunk
    BY DEF InOrder
  <2>1. /\ i + 1 \in 1..Len(q) /\ j + 1 \in 1..Len(q) /\ i + 1 < j + 1
        /\ r[i] = q[i + 1] /\ r[j] = q[j + 1]
    BY <1>1
  <2>2. QED
    BY <2>1 DEF InOrder
<1>4. Behind(o, r, m)
  <2> SUFFICES ASSUME NEW i \in 1..Len(o), NEW j \in 1..Len(r), IsBlock(r[j])
               PROVE  \/ Before(o[i], r[j].body)
                      \/ SameRead(o[i], r[j].body) /\ r[j].chunk < m
    BY DEF Behind
  <2>1. j + 1 \in 1..Len(q) /\ r[j] = q[j + 1]
    BY <1>1
  <2>2. \/ Before(o[i], q[j + 1].body)
        \/ SameRead(o[i], q[j + 1].body) /\ q[j + 1].chunk < n
    BY <2>1 DEF Behind
  <2>3. q[j + 1].chunk \in Int
    BY <1>2, <2>1
  <2>4. QED
    BY <2>1, <2>2, <2>3
<1>5. Seen(o, r)
  BY <1>1 DEF Seen
<1>6. QED
  BY <1>3, <1>4, <1>5 DEF r

\* Writing the block with the expected label: it is behind all written
\* ones, and a duplicate of it carries a label that is now too small.
LEMMA WriteInOrder ==
    ASSUME NEW o \in Seq(Body), NEW q \in Seq(Packet), NEW n \in Nat, q # <<>>,
           InOrder(q), Behind(o, q, n), Rising(o), Seen(o, q),
           IsBlock(q[1]), q[1].chunk = n
    PROVE  /\ Behind(Append(o, q[1].body), RemoveAt(q, 1), n + 1)
           /\ Rising(Append(o, q[1].body))
           /\ Seen(Append(o, q[1].body), RemoveAt(q, 1))
<1> DEFINE r == RemoveAt(q, 1)
           b == q[1].body
           w == Append(o, b)
<1>1. /\ Len(r) = Len(q) - 1 /\ Len(q) \in Nat /\ 1 \in 1..Len(q)
      /\ \A j \in 1..Len(r) : r[j] = q[j + 1] /\ j + 1 \in 1..Len(q)
  BY TakeFirst
<1>2. b \in Body
  <2>1. q[1] \in Packet
    BY <1>1
  <2>2. QED
    BY <2>1 DEF Packet
<1>3. /\ Len(w) = Len(o) + 1 /\ Len(o) \in Nat
      /\ \A i \in 1..Len(w) : IF i = Len(o) + 1 THEN w[i] = b
                              ELSE i \in 1..Len(o) /\ w[i] = o[i]
  BY <1>2
<1>4. \A i \in 1..Len(o) : Before(o[i], b)
  BY <1>1 DEF Behind
<1>5. InOrder(r) /\ Behind(o, r, n + 1) /\ Seen(o, r)
  BY TakeInOrder
<1>6. \A j \in 1..Len(r) :
         IsBlock(r[j]) => \/ Before(b, r[j].body)
                          \/ SameRead(b, r[j].body) /\ r[j].chunk = n
  BY <1>1 DEF InOrder
<1>7. AlreadyRead(b)
  BY <1>1 DEF Seen
<1> HIDE DEF r, b, w
<1>8. Behind(w, r, n + 1)
  <2> SUFFICES ASSUME NEW i \in 1..Len(w), NEW j \in 1..Len(r), IsBlock(r[j])
               PROVE  \/ Before(w[i], r[j].body)
                      \/ SameRead(w[i], r[j].body) /\ r[j].chunk < n + 1
    BY DEF Behind
  <2>1. CASE i = Len(o) + 1
    BY <1>3, <1>6, <2>1
  <2>2. CASE i # Len(o) + 1
    <3>1. i \in 1..Len(o) /\ w[i] = o[i]
      BY <1>3, <2>2
    <3>2. QED
      BY <1>5, <3>1 DEF Behind
  <2>3. QED
    BY <2>1, <2>2
<1>9. Rising(w)
  <2> SUFFICES ASSUME NEW i \in 1..Len(w), NEW j \in 1..Len(w), i < j
               PROVE  Before(w[i], w[j])
    BY DEF Rising
  <2>1. i \in 1..Len(o) /\ w[i] = o[i]
    BY <1>3
  <2>2. CASE j = Len(o) + 1
    BY <1>3, <1>4, <2>1, <2>2
  <2>3. CASE j # Len(o) + 1
    <3>1. j \in 1..Len(o) /\ w[j] = o[j]
      BY <1>3, <2>3
    <3>2. QED
      BY <2>1, <3>1 DEF Rising
  <2>4. QED
    BY <2>2, <2>3
<1>10. Seen(w, r)
  BY <1>3, <1>5, <1>7 DEF Seen
<1>11. QED
  BY <1>8, <1>9, <1>10 DEF r, b, w

\* A client with an empty queue is in order if what it has written is.
LEMMA DropInOrder ==
    ASSUME NEW o \in Seq(Body), NEW n \in Nat, NEW q, Seen(o, q)
    PROVE  InOrder(<<>>) /\ Behind(o, <<>>, n) /\ Seen(o, <<>>)
BY EmptySeq DEF InOrder, Behind, Seen

\* What one client step does to the client's own queue, file and iteration.
LEMMA ClientMoves ==
    ASSUME TypeOK, ~Reordering, NEW c \in Clients, ClientStep(c) \/ Abort(c)
    PROVE  /\ UNCHANGED <<fd, gen>>
           /\ \A d \in Clients \ {c} : /\ out'[d] = out[d] /\ idx'[d] = idx[d]
                                       /\ cliq'[d] = cliq[d]
           /\ \/ out'[c] = out[c] /\ idx'[c] = idx[c] /\ cliq'[c] \in {cliq[c], <<>>}
              \/ /\ cliq[c] # <<>>
                 /\ cliq'[c] \in {RemoveAt(cliq[c], 1), <<>>}
                 /\ \/ out'[c] = out[c] /\ idx'[c] \in {idx[c], idx[c] + 1}
                    \/ /\ IsBlock(cliq[c][1]) /\ cliq[c][1].chunk = idx[c]
                       /\ out'[c] = Append(out[c], cliq[c][1].body)
                       /\ idx'[c] = idx[c] + 1
<1> USE DEF TypeOK
<1>1. CASE \/ setup_client_socket(c) \/ send_discover(c) \/ send_file_info(c)
           \/ send_chunk_read(c)
  BY <1>1 DEF setup_client_socket, send_discover, send_file_info,
              send_chunk_read, serverVars
<1>2. CASE Abort(c)
  BY <1>2 DEF Abort, serverVars
<1>3. ASSUME NEW k \in Heads(cliq[c])
      PROVE  k = 1 /\ cliq[c] # <<>>
  BY DEF Heads
<1>4. CASE \E k \in Heads(cliq[c]) : recv_discover(c, k)
  BY <1>3, <1>4 DEF recv_discover, serverVars
<1>5. CASE \E k \in Heads(cliq[c]) : recv_file_info(c, k)
  BY <1>3, <1>5 DEF recv_file_info, serverVars
<1>6. CASE \E k \in Heads(cliq[c]) : recv_chunk(c, k)
  <2>1. recv_chunk(c, 1) /\ cliq[c] # <<>>
    BY <1>3, <1>6
  <2>2. /\ idx'[c] = idx[c] + 1 /\ cliq'[c] \in {RemoveAt(cliq[c], 1), <<>>}
        /\ UNCHANGED <<fd, gen>>
        /\ \A d \in Clients \ {c} : idx'[d] = idx[d] /\ cliq'[d] = cliq[d]
    BY <2>1 DEF recv_chunk, serverVars
  <2>3. CASE Expected(c, cliq[c][1])
    <3>1. out' = [out EXCEPT ![c] = Append(@, cliq[c][1].body)]
      BY <2>1, <2>3 DEF recv_chunk, WriteBlock
    <3>2. IsBlock(cliq[c][1]) /\ cliq[c][1].chunk = idx[c]
      BY <2>3 DEF Expected, IsBlock
    <3>3. QED
      BY <2>1, <2>2, <3>1, <3>2
  <2>4. CASE ~Expected(c, cliq[c][1])
    <3>1. out' = out
      BY <2>1, <2>4 DEF recv_chunk
    <3>2. QED
      BY <2>1, <2>2, <3>1
  <2>5. QED
    BY <2>3, <2>4
<1>7. QED
  BY <1>1, <1>2, <1>4, <1>5, <1>6 DEF ClientStep

LEMMA ClientsInOrder ==
    ASSUME OrderInv, TypeOK', ~Reordering, NEW c \in Clients,
           ClientStep(c) \/ Abort(c)
    PROVE  OrderInv'
<1>1. TypeOK /\ (fd # NoFd => fd.gen = gen)
  BY DEF OrderInv
<1>2. UNCHANGED <<fd, gen>>
  BY <1>1, ClientMoves
<1>3. ASSUME NEW d \in Clients, NEW o, NEW q, NEW n,
             out'[d] = o, cliq'[d] = q, idx'[d] = n,
             InOrder(q), Behind(o, q, n), Rising(o), Seen(o, q)
      PROVE  ClientInOrder(d)'
  BY <1>2, <1>3 DEF ClientInOrder, InOrder, Behind, Rising, Seen, AlreadyRead
<1>4. ASSUME NEW d \in Clients, d # c PROVE ClientInOrder(d)'
  <2>1. /\ out'[d] = out[d] /\ cliq'[d] = cliq[d] /\ idx'[d] = idx[d]
    BY <1>1, <1>4, ClientMoves
  <2>2. InOrder(cliq[d]) /\ Behind(out[d], cliq[d], idx[d]) /\ Rising(out[d])
        /\ Seen(out[d], cliq[d])
    BY DEF OrderInv, ClientInOrder
  <2>3. QED
    BY <1>3, <2>1, <2>2
<1>5. ClientInOrder(c)'
  <2>1. PICK o \in Seq(Body), q \in Seq(Packet), n \in Nat :
          o = out[c] /\ q = cliq[c] /\ n = idx[c]
    BY <1>1 DEF TypeOK
  <2>2. InOrder(q) /\ Behind(o, q, n) /\ Rising(o) /\ Seen(o, q)
    BY <2>1 DEF OrderInv, ClientInOrder
  <2>3. \/ out'[c] = o /\ idx'[c] = n /\ cliq'[c] \in {q, <<>>}
        \/ /\ q # <<>>
           /\ cliq'[c] \in {RemoveAt(q, 1), <<>>}
           /\ \/ out'[c] = o /\ idx'[c] \in {n, n + 1}
              \/ /\ IsBlock(q[1]) /\ q[1].chunk = n
                 /\ out'[c] = Append(o, q[1].body)
                 /\ idx'[c] = n + 1
    BY <1>1, <2>1, ClientMoves
  <2>4. ASSUME NEW m \in Nat, NEW r, NEW s, Seen(r, s), r \in Seq(Body), Rising(r),
               out'[c] = r, idx'[c] = m, cliq'[c] = <<>>
        PROVE  ClientInOrder(c)'
    BY <1>3, <2>4, DropInOrder
  <2>5. CASE out'[c] = o /\ idx'[c] = n /\ cliq'[c] \in {q, <<>>}
    BY <1>3, <2>2, <2>4, <2>5
  <2>6. CASE /\ q # <<>>
             /\ cliq'[c] \in {RemoveAt(q, 1), <<>>}
             /\ out'[c] = o /\ idx'[c] \in {n, n + 1}
    <3>1. PICK m \in {n, n + 1} : m = idx'[c]
      BY <2>6
    <3>2. /\ InOrder(RemoveAt(q, 1)) /\ Behind(o, RemoveAt(q, 1), m)
          /\ Seen(o, RemoveAt(q, 1))
      BY <2>2, <2>6, TakeInOrder
    <3>3. CASE cliq'[c] = <<>>
      BY <2>2, <2>4, <2>6, <3>1, <3>2, <3>3
    <3>4. CASE cliq'[c] = RemoveAt(q, 1)
      BY <1>3, <2>2, <2>6, <3>1, <3>2, <3>4
    <3>5. QED
      BY <2>6, <3>3, <3>4
  <2>7. CASE /\ q # <<>>
             /\ cliq'[c] \in {RemoveAt(q, 1), <<>>}
             /\ IsBlock(q[1]) /\ q[1].chunk = n
             /\ out'[c] = Append(o, q[1].body)
             /\ idx'[c] = n + 1
    <3> DEFINE w == Append(o, q[1].body)
    <3>1. Behind(w, RemoveAt(q, 1), n + 1) /\ Rising(w) /\ Seen(w, RemoveAt(q, 1))
      BY <2>2, <2>7, WriteInOrder
    <3>2. InOrder(RemoveAt(q, 1))
      BY <2>2, <2>7, TakeInOrder
    <3>3. w \in Seq(Body)
      <4>1. q[1] \in Packet
        BY <2>7, TakeFirst
      <4>2. q[1].body \in Body
        BY <4>1 DEF Packet
      <4>3. QED
        BY <4>2
    <3>4. out'[c] = w
      BY <2>7
    <3> HIDE DEF w
    <3>5. CASE cliq'[c] = <<>>
      <4>1. PICK m \in Nat : m = n + 1
        OBVIOUS
      <4>2. InOrder(<<>>) /\ Behind(w, <<>>, m) /\ Seen(w, <<>>)
        BY <3>1, <3>3, DropInOrder
      <4>3. QED
        BY <1>3, <2>7, <3>1, <3>4, <3>5, <4>1, <4>2
    <3>6. CASE cliq'[c] = RemoveAt(q, 1)
      BY <1>3, <2>7, <3>1, <3>2, <3>4, <3>6
    <3>7. QED
      BY <2>7, <3>5, <3>6
  <2>8. QED
    BY <2>3, <2>5, <2>6, <2>7
<1>6. QED
  BY <1>1, <1>2, <1>4, <1>5 DEF OrderInv

LEMMA InitInOrder == Init => OrderInv
<1> SUFFICES ASSUME Init PROVE OrderInv
  OBVIOUS
<1>1. TypeOK /\ fd = NoFd
  BY InitType DEF Init
<1>2. ASSUME NEW c \in Clients PROVE ClientInOrder(c)
  <2>1. out[c] = <<>> /\ cliq[c] = <<>>
    BY DEF Init
  <2>2. QED
    BY <2>1, EmptySeq DEF ClientInOrder, InOrder, Behind, Rising, Seen
<1>3. QED
  BY <1>1, <1>2 DEF OrderInv

LEMMA NextInOrder ==
    ASSUME ~Reordering
    PROVE  OrderInv /\ [Next]_vars => OrderInv'
<1> SUFFICES ASSUME OrderInv, [Next]_vars PROVE OrderInv'
  OBVIOUS
<1>1. TypeOK'
  BY NextType DEF OrderInv
<1>2. CASE ServerStep \/ RecvError \/ Restart
  BY <1>1, <1>2, ServerInOrder
<1>3. ASSUME NEW c \in Clients, ClientStep(c) \/ Abort(c) PROVE OrderInv'
  BY <1>1, <1>3, ClientsInOrder
<1>4. CASE UNCHANGED vars
  BY <1>1, <1>4 DEF vars, serverVars, clientVars, OrderInv, ClientInOrder,
     InOrder, Behind, Rising, Seen, AlreadyRead
<1>5. QED
  BY <1>2, <1>3, <1>4 DEF Next

\* Any number of clients at once, datagrams lost or duplicated, restarts,
\* failing receives and clients given up: on a network that keeps their order
\* the blocks a client writes were read in the order of its writes.
THEOREM WritesFollowReads ==
    ASSUME ~Reordering
    PROVE  Spec => []ReadOrder
<1>1. Init => OrderInv
  BY InitInOrder
<1>2. OrderInv /\ [Next]_vars => OrderInv'
  BY NextInOrder
<1>3. OrderInv => ReadOrder
  BY DEF OrderInv, ClientInOrder, Rising, Before, ReadOrder
<1>4. QED
  BY <1>1, <1>2, <1>3, PTL DEF Spec
===========================================================================
