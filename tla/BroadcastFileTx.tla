-------------------------- MODULE BroadcastFileTx --------------------------
(***************************************************************************)
(* The UDP-broadcast file transfer of c/socket/broadcast_file_tx: one      *)
(* single-threaded server (server.c) and any number of clients (client.c), *)
(* each of which fetches one file.                                         *)
(*                                                                         *)
(* The server answers DISCOVER and FILE_INFO from the loop of process_pkt  *)
(* and enters the loop of process_chunkrd on a CHUNK_READ: from there it   *)
(* reads its descriptor sequentially, whatever chunk is asked for, labels  *)
(* each block with the chunk_id of the packet it answers, and leaves on    *)
(* TRANSFER_DONE or at the end of the file.  Every reply is broadcast to   *)
(* every bound client.  Nothing is retransmitted and nothing times out.    *)
(*                                                                         *)
(* A block of a file is the pair of the file and its position in units of  *)
(* MAX_BR_PAYLOAD_LEN; "gen" records which open() call it was read         *)
(* through.  The handling of one packet by the server (receive, work,      *)
(* reply) is one action: the server shares no state but the sockets.       *)
(***************************************************************************)
EXTENDS Integers, Sequences, SequencesExt

CONSTANTS
    Clients,     \* client processes, on hosts of their own
    Files,       \* file names
    Present,     \* the files the server can open
    Size,        \* [Present -> Nat]: st_size, in bytes
    Payload,     \* MAX_BR_PAYLOAD_LEN
    Wants,       \* [Clients -> Files]: argv[1] of each client
    Garbage,     \* what the uninitialised brhdr_rep.len may hold
    MaxFds,      \* descriptors the server process may hold open
    Copies,      \* how many copies of a datagram may reach one receiver
    Reordering,  \* whether a socket may deliver datagrams out of order
    Exclusive,   \* whether clients run one at a time, on a drained network
    Faults       \* what may happen besides losses, a subset of FaultKinds

\* A client is given up, the server starts again, or a call of recvfrom,
\* fstat or read by the server, or of write by a client, fails.
FaultKinds == {"abort", "restart", "recv", "stat", "read", "write"}

ASSUME ConstantsAssumption ==
    /\ Present \subseteq Files
    /\ Size \in [Present -> Nat]
    /\ Payload \in Nat \ {0}
    /\ Wants \in [Clients -> Files]
    /\ Garbage \subseteq Int
    /\ MaxFds \in Nat
    /\ Copies \subseteq Nat
    /\ Reordering \in BOOLEAN
    /\ Exclusive \in BOOLEAN
    /\ Faults \subseteq FaultKinds

VARIABLES
    srvPc,   \* "main": in process_pkt, "chunkrd": in process_chunkrd
    fd,      \* the global fd: NoFd or an open file with its read position
    nfds,    \* descriptors this server process holds (none is ever closed)
    gen,     \* number of successful open() calls so far
    srvq,    \* receive queue of the server's socket
    cpc,     \* where each client is
    nr,      \* its nr_chunks
    last,    \* its last_chunk_sz
    idx,     \* the i of its fetch_file
    out,     \* the blocks it has handed to write(), in order
    failed,  \* the positions in out whose write() failed or was short
    cliq     \* receive queue of its socket

serverVars == <<srvPc, fd, nfds, gen>>
clientVars == <<cpc, nr, last, idx, out, failed>>
vars == <<serverVars, srvq, clientVars, cliq>>
---------------------------------------------------------------------------
(* Files: blocks, and what process_fileinfo computes about them.           *)

NoFd == [file |-> "none", next |-> 0, gen |-> 0]

NrChunks_Floor(f) == Size[f] \div Payload

NrChunks(f) == Size[f] \div Payload + (IF Size[f] % Payload = 0 THEN 0 ELSE 1)

BlockLen(f, b) == IF b < Size[f] \div Payload THEN Payload ELSE Size[f] % Payload

\* Faulty variants, named <definition>_<fault>, are kept beside the
\* definitions they vary: each breaks a property that holds of the code.
LastLens_Zero(f) == {0}
LastLens_Full(f) == {Payload}

\* brhdr_rep.len is assigned only when the size is not a multiple.
LastLens(f) == IF Size[f] % Payload = 0 THEN Garbage ELSE {Size[f] % Payload}

AtEnd_OffByOne == fd = NoFd \/ fd.next > NrChunks(fd.file)

\* read() returns no more bytes, or fails on a descriptor that is -1.
AtEnd == fd = NoFd \/ fd.next >= NrChunks(fd.file)
---------------------------------------------------------------------------
(* Packets: struct br_hdr and what follows it.                             *)

Ops == {"DISCOVER", "FILE_INFO", "CHUNK_READ", "TRANSFER_DONE"}

NoBody == [file |-> "none", block |-> 0, gen |-> 0]

Pkt(op, ack, chunk, len, body) ==
    [op |-> op, ack |-> ack, chunk |-> chunk, len |-> len, body |-> body]

HdrLen == 16

DiscoverReq    == Pkt("DISCOVER", 0, 0, 0, NoBody)
DiscoverAck    == Pkt("DISCOVER", 1, 0, HdrLen, NoBody)
FileInfoReq(f) == Pkt("FILE_INFO", 0, 0, 0, [NoBody EXCEPT !.file = f])
FileInfoRep(n, l) == Pkt("FILE_INFO", 1, n, l, NoBody)
ChunkReq(i)    == Pkt("CHUNK_READ", 0, i, 0, NoBody)
ChunkRep(i)    ==
    Pkt("CHUNK_READ", 1, i, BlockLen(fd.file, fd.next),
        [file |-> fd.file, block |-> fd.next, gen |-> fd.gen])
---------------------------------------------------------------------------
(* The network: UDP, one queue per socket.                                 *)

Bound(c) == cpc[c] \notin {"off", "done", "gone"}

\* q after n copies of p arrived at its end.
Deliver(q, p, n) == IF n = 0 THEN q ELSE q \o [j \in 1..n |-> p]

Broadcast(p) ==
    \E n \in [Clients -> Copies] :
        cliq' = [c \in Clients |->
                    IF Bound(c) THEN Deliver(cliq[c], p, n[c]) ELSE cliq[c]]

SendToServer(p) == \E n \in Copies : srvq' = Deliver(srvq, p, n)

\* The positions of q that a recvfrom may take its datagram from.
Heads(q) == IF Reordering THEN 1..Len(q) ELSE {k \in {1} : q # <<>>}
---------------------------------------------------------------------------
(* The server.                                                             *)

LeaveLoop ==
    /\ ~AtEnd => "read" \in Faults
    /\ srvPc' = "main"
    /\ UNCHANGED <<fd, cliq>>

\* The top of process_chunkrd's loop: read() the next block and broadcast
\* it under the label of the packet that asked, or leave at the end of file
\* and when read() fails.
ReadAndReply(label) ==
    \/ LeaveLoop
    \/ /\ ~AtEnd
       /\ Broadcast(ChunkRep(label))
       /\ srvPc' = "chunkrd"
       /\ fd' = [fd EXCEPT !.next = @ + 1]

process_discover(k) ==
    /\ srvPc = "main"
    /\ srvq[k].op = "DISCOVER"
    /\ srvq' = RemoveAt(srvq, k)
    /\ Broadcast(DiscoverAck)
    /\ UNCHANGED <<serverVars, clientVars>>

OpenFile_KeepsOpenFile(f) ==
    IF f \in Present
    THEN /\ fd' = IF fd # NoFd /\ fd.file = f
                  THEN fd ELSE [file |-> f, next |-> 0, gen |-> gen + 1]
         /\ UNCHANGED <<gen, nfds>>
         /\ \E l \in LastLens(f) : Broadcast(FileInfoRep(NrChunks(f), l))
    ELSE /\ fd' = NoFd
         /\ UNCHANGED <<gen, nfds>>
         /\ \E l \in Garbage : Broadcast(FileInfoRep(-1, l))

OpenFile_NoErrorReply(f) ==
    IF f \in Present /\ nfds < MaxFds
    THEN /\ fd' = [file |-> f, next |-> 0, gen |-> gen + 1]
         /\ gen' = gen + 1
         /\ nfds' = nfds + 1
         /\ \E l \in LastLens(f) : Broadcast(FileInfoRep(NrChunks(f), l))
    ELSE /\ fd' = NoFd
         /\ UNCHANGED <<gen, nfds, cliq>>

\* open() replaces the global descriptor and the old one stays open; when
\* fstat() then fails there is no reply.
OpenFile(f) ==
    IF f \in Present /\ nfds < MaxFds
    THEN /\ fd' = [file |-> f, next |-> 0, gen |-> gen + 1]
         /\ gen' = gen + 1
         /\ nfds' = nfds + 1
         /\ \/ \E l \in LastLens(f) : Broadcast(FileInfoRep(NrChunks(f), l))
            \/ "stat" \in Faults /\ UNCHANGED cliq
    ELSE /\ fd' = NoFd
         /\ UNCHANGED <<gen, nfds>>
         /\ \E l \in Garbage : Broadcast(FileInfoRep(-1, l))

process_fileinfo(k) ==
    /\ srvPc = "main"
    /\ srvq[k].op = "FILE_INFO"
    /\ srvq' = RemoveAt(srvq, k)
    /\ OpenFile(srvq[k].body.file)
    /\ UNCHANGED <<srvPc, clientVars>>

process_chunkrd(k) ==
    /\ srvPc = "main"
    /\ srvq[k].op = "CHUNK_READ"
    /\ srvq' = RemoveAt(srvq, k)
    /\ ReadAndReply(srvq[k].chunk)
    /\ UNCHANGED <<nfds, gen, clientVars>>

\* process_pkt returns -1 and main calls it again.
InvalidOpcode(k) ==
    /\ srvPc = "main"
    /\ srvq[k].op = "TRANSFER_DONE"
    /\ srvq' = RemoveAt(srvq, k)
    /\ UNCHANGED <<serverVars, clientVars, cliq>>

\* Inside the transfer any packet but TRANSFER_DONE is answered with the
\* next block: a wrong opcode or chunk_id is only printed.
NextChunk(k) ==
    /\ srvPc = "chunkrd"
    /\ srvq[k].op # "TRANSFER_DONE"
    /\ srvq' = RemoveAt(srvq, k)
    /\ ReadAndReply(srvq[k].chunk)
    /\ UNCHANGED <<nfds, gen, clientVars>>

TransferDone_NoBreak(k) ==
    /\ srvPc = "chunkrd"
    /\ srvq[k].op = "TRANSFER_DONE"
    /\ srvq' = RemoveAt(srvq, k)
    /\ UNCHANGED <<serverVars, clientVars, cliq>>

TransferDone(k) ==
    /\ srvPc = "chunkrd"
    /\ srvq[k].op = "TRANSFER_DONE"
    /\ srvq' = RemoveAt(srvq, k)
    /\ srvPc' = "main"
    /\ UNCHANGED <<fd, nfds, gen, clientVars, cliq>>

\* recvfrom fails: the loop goes on with the zeroed buffer (chunk_id 0).
RecvError ==
    /\ "recv" \in Faults
    /\ srvPc = "chunkrd"
    /\ ReadAndReply(0)
    /\ UNCHANGED <<nfds, gen, srvq, clientVars>>

\* error() or a kill, and a new server process on the same port.
Restart ==
    /\ "restart" \in Faults
    /\ srvPc' = "main"
    /\ fd' = NoFd
    /\ nfds' = 0
    /\ srvq' = <<>>
    /\ UNCHANGED <<gen, clientVars, cliq>>

ServerStep ==
    \E k \in Heads(srvq) :
        \/ process_discover(k) \/ process_fileinfo(k) \/ process_chunkrd(k)
        \/ InvalidOpcode(k) \/ NextChunk(k) \/ TransferDone(k)
---------------------------------------------------------------------------
(* A client.  A step that leaves the program closes its socket.            *)

setup_client_socket(c) ==
    /\ cpc[c] = "off"
    /\ Exclusive => srvq = <<>> /\ \A d \in Clients : ~Bound(d)
    /\ cpc' = [cpc EXCEPT ![c] = "bound"]
    /\ UNCHANGED <<serverVars, srvq, nr, last, idx, out, failed, cliq>>

send_discover(c) ==
    /\ cpc[c] = "bound"
    /\ SendToServer(DiscoverReq)
    /\ cpc' = [cpc EXCEPT ![c] = "disc"]
    /\ UNCHANGED <<serverVars, nr, last, idx, out, failed, cliq>>

\* Whatever datagram comes first decides whether there is a server.
recv_discover(c, k) ==
    /\ cpc[c] = "disc"
    /\ LET p == cliq[c][k]
           found == p.op = "DISCOVER" /\ p.ack = 1
       IN /\ cpc' = [cpc EXCEPT ![c] = IF found THEN "found" ELSE "gone"]
          /\ cliq' = [cliq EXCEPT ![c] = IF found THEN RemoveAt(@, k) ELSE <<>>]
    /\ UNCHANGED <<serverVars, srvq, nr, last, idx, out, failed>>

send_file_info(c) ==
    /\ cpc[c] = "found"
    /\ SendToServer(FileInfoReq(Wants[c]))
    /\ cpc' = [cpc EXCEPT ![c] = "info"]
    /\ UNCHANGED <<serverVars, nr, last, idx, out, failed, cliq>>

\* The reply's op is not looked at: its two fields are taken as they are.
recv_file_info(c, k) ==
    /\ cpc[c] = "info"
    /\ LET p == cliq[c][k]
           goOn == p.chunk > 0
       IN /\ nr' = [nr EXCEPT ![c] = p.chunk]
          /\ last' = [last EXCEPT ![c] = p.len]
          /\ cpc' = [cpc EXCEPT ![c] = IF goOn THEN "fetch" ELSE "gone"]
          /\ cliq' = [cliq EXCEPT ![c] = IF goOn THEN RemoveAt(@, k) ELSE <<>>]
    /\ UNCHANGED <<serverVars, srvq, idx, out, failed>>

send_chunk_read(c) ==
    /\ cpc[c] = "fetch"
    /\ SendToServer(ChunkReq(idx[c]))
    /\ cpc' = [cpc EXCEPT ![c] = "wait"]
    /\ UNCHANGED <<serverVars, nr, last, idx, out, failed, cliq>>

Expected_AnyChunk(c, p) == p.op = "CHUNK_READ" /\ p.ack = 1

\* The reply's header fields are the ones the loop expects.
Expected(c, p) == p.op = "CHUNK_READ" /\ p.ack = 1 /\ p.chunk = idx[c]

\* A write() that fails is only printed, and one that is short not even that.
WriteBlock(c, body) ==
    /\ out' = [out EXCEPT ![c] = Append(@, body)]
    /\ \/ UNCHANGED failed
       \/ /\ "write" \in Faults
          /\ failed' = [failed EXCEPT ![c] = @ \cup {Len(out[c]) + 1}]

\* One datagram per iteration, accepted or not; TRANSFER_DONE goes out
\* in the accepted one's buffer when its length is last_chunk_sz.
recv_chunk(c, k) ==
    /\ cpc[c] = "wait"
    /\ LET p == cliq[c][k]
           more == idx[c] + 1 < nr[c]
       IN /\ IF Expected(c, p) /\ p.len = last[c]
             THEN SendToServer([p EXCEPT !.op = "TRANSFER_DONE"])
             ELSE UNCHANGED srvq
          /\ IF Expected(c, p)
             THEN WriteBlock(c, p.body)
             ELSE UNCHANGED <<out, failed>>
          /\ idx' = [idx EXCEPT ![c] = @ + 1]
          /\ cpc' = [cpc EXCEPT ![c] = IF more THEN "fetch" ELSE "done"]
          /\ cliq' = [cliq EXCEPT ![c] = IF more THEN RemoveAt(@, k) ELSE <<>>]
    /\ UNCHANGED <<serverVars, nr, last>>

\* error(), exit(-1), or the user gives up on a client that never returns.
Abort(c) ==
    /\ "abort" \in Faults
    /\ Bound(c)
    /\ cpc' = [cpc EXCEPT ![c] = "gone"]
    /\ cliq' = [cliq EXCEPT ![c] = <<>>]
    /\ UNCHANGED <<serverVars, srvq, nr, last, idx, out, failed>>

ClientStep(c) ==
    \/ setup_client_socket(c)
    \/ send_discover(c) \/ send_file_info(c) \/ send_chunk_read(c)
    \/ \E k \in Heads(cliq[c]) :
          recv_discover(c, k) \/ recv_file_info(c, k) \/ recv_chunk(c, k)
---------------------------------------------------------------------------
Init ==
    /\ srvPc = "main"
    /\ fd = NoFd
    /\ nfds = 0
    /\ gen = 0
    /\ srvq = <<>>
    /\ cpc = [c \in Clients |-> "off"]
    /\ nr = [c \in Clients |-> 0]
    /\ last = [c \in Clients |-> 0]
    /\ idx = [c \in Clients |-> 0]
    /\ out = [c \in Clients |-> <<>>]
    /\ failed = [c \in Clients |-> {}]
    /\ cliq = [c \in Clients |-> <<>>]

Next ==
    \/ ServerStep
    \/ RecvError
    \/ Restart
    \/ \E c \in Clients : ClientStep(c) \/ Abort(c)

Spec == Init /\ [][Next]_vars

\* Every process is scheduled, and users start the programs they mean to.
FairSpec ==
    /\ Spec
    /\ WF_vars(ServerStep)
    /\ \A c \in Clients : WF_vars(ClientStep(c))
---------------------------------------------------------------------------
(* Properties.                                                             *)

Body  == [file : Files \cup {"none"}, block : Nat, gen : Nat]
Packet == [op : Ops, ack : {0, 1}, chunk : Int, len : Int, body : Body]

Status == {"off", "bound", "disc", "found", "info", "fetch", "wait", "done", "gone"}

FdOK ==
    \/ fd = NoFd
    \/ /\ fd \in [file : Present, next : Nat, gen : Nat]
       /\ fd.next <= NrChunks(fd.file)

\* Every variable keeps its type; the read position of an open file is
\* never past its last block and no client writes more blocks than it asked
\* for.
TypeOK ==
    /\ srvPc \in {"main", "chunkrd"}
    /\ FdOK
    /\ nfds \in 0..MaxFds
    /\ gen \in Nat
    /\ srvq \in Seq(Packet)
    /\ cpc \in [Clients -> Status]
    /\ nr \in [Clients -> Int]
    /\ last \in [Clients -> Int]
    /\ idx \in [Clients -> Nat]
    /\ out \in [Clients -> Seq(Body)]
    /\ failed \in [Clients -> SUBSET Nat]
    /\ \A c \in Clients : failed[c] \subseteq DOMAIN out[c] /\ Len(out[c]) <= idx[c]
    /\ cliq \in [Clients -> Seq(Packet)]

\* The blocks client c has handed to write() are the first blocks of its file,
\* in order.
IsPrefixOfFile(c) ==
    \A j \in 1..Len(out[c]) :
        out[c][j].file = Wants[c] /\ out[c][j].block = j - 1

\* The number of blocks it takes to hold the file.
FileBlocks(f) ==
    IF f \in Present
    THEN CHOOSE n \in 0..Size[f] :
            (n - 1) * Payload < Size[f] /\ Size[f] <= n * Payload
    ELSE 0

\* The blocks in the file that client c has created. The file has no gap where
\* a write() failed: the blocks after it follow the ones before it.
Copied(c) == {out[c][j].block : j \in DOMAIN out[c] \ failed[c]}

\* With clients one at a time, whatever is lost, given up or restarted, a
\* client hands the blocks of the file it named to write() from the first on,
\* and one that leaves fetch_file normally has in its copy every block of the
\* file but those whose write() failed.
ExactCopy ==
    \A c \in Clients :
        /\ IsPrefixOfFile(c)
        /\ cpc[c] = "done" =>
              Copied(c) = (0..(FileBlocks(Wants[c]) - 1)) \ {j - 1 : j \in failed[c]}

\* Whatever the other clients do to the server's one descriptor, a client
\* never hands write() a block twice, nor one before a block it wrote later:
\* the blocks it writes were read in the order of its writes.
ReadOrder ==
    \A c \in Clients : \A i, j \in 1..Len(out[c]) :
        i < j => \/ out[c][i].gen < out[c][j].gen
                 \/ /\ out[c][i].gen = out[c][j].gen
                    /\ out[c][i].block < out[c][j].block

\* process_chunkrd "only exits once the entire file transfer is over"
\* (server.c:136-139), with one exception that the comment does not name: it
\* goes back to process_pkt with blocks left to read when the length a client
\* was told of a file of full blocks happens to be a full block's.
ExitOnlyWhenOver ==
    [][srvPc = "chunkrd" /\ srvPc' = "main" =>
          \/ AtEnd
          \/ /\ Size[fd.file] % Payload = 0
             /\ \E c \in Clients : Wants[c] = fd.file /\ last[c] = Payload]_vars

\* "Once file transfer starts, no other packets will be entertained"
\* (server.c:136-139): during a transfer only a CHUNK_READ moves the
\* descriptor forward.
NoOtherPacket ==
    [][srvPc = "chunkrd" /\ fd' # fd
        => \E k \in 1..Len(srvq) :
              srvq[k].op = "CHUNK_READ" /\ srvq' = RemoveAt(srvq, k)]_vars

\* Client c has ended without a TRANSFER_DONE for its last block: its file has
\* full blocks only, and the length it was told, garbage, is not a full block's.
Unannounced(c) ==
    /\ cpc[c] = "done"
    /\ Size[Wants[c]] % Payload = 0
    /\ last[c] # Payload

\* On a network that loses nothing every client that asked for a non-empty
\* file the server has ends with its copy, each in its turn, unless a client
\* before left the server in its transfer.
AllServed ==
    \A c \in Clients :
        <>(FileBlocks(Wants[c]) > 0 => cpc[c] = "done" \/ \E d \in Clients : Unannounced(d))

\* On such a network no client stays blocked in recvfrom, unless a client
\* before left the server in its transfer: also the ones told that there is no
\* such file, or nothing in it, end.
AllEnd ==
    \A c \in Clients :
        <>(cpc[c] \in {"done", "gone"} \/ \E d \in Clients : Unannounced(d))

\* No DISCOVER is swallowed, or answered with a block, by a process_chunkrd
\* still running, unless a client before left it there by ending without its
\* TRANSFER_DONE, which a client of a file of full blocks may do.
ServerAvailable ==
    \A c \in Clients :
        cpc[c] = "disc" ~> cpc[c] = "found" \/ \E d \in Clients : Unannounced(d)

\* The transfer implements the abstract copy of FileCopy.
AbstractStatus ==
    [c \in Clients |-> CASE cpc[c] = "done" -> IF failed[c] = {} THEN "complete" ELSE "damaged"
                         [] cpc[c] = "gone" -> "abandoned"
                         [] OTHER -> "copying"]
AbstractCopy ==
    [c \in Clients |->
        [j \in 1..Len(out[c]) |-> <<out[c][j].file, out[c][j].block>>]]

Copy == INSTANCE FileCopy WITH Wanted <- Wants, NrBlocks <- FileBlocks,
                               MayMiss <- "write" \in Faults,
                               status <- AbstractStatus, copy <- AbstractCopy,
                               missing <- failed

\* Every behaviour of the protocol, clients one at a time, is a behaviour of
\* the abstract copy: a block handed to write() extends it, a failed write()
\* leaves the block missing, leaving abandons it.
ImplementsFileCopy == Copy!Spec
===========================================================================
