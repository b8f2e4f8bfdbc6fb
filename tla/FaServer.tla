------------------------------ MODULE FaServer ------------------------------
(***************************************************************************)
(* The discovery server of c/socket/fa-server/server.c, and the hosts that *)
(* look for it over UDP.                                                   *)
(*                                                                         *)
(* process_pkt clears its buffer before each recvfrom and then takes the   *)
(* header from the buffer, however short the datagram was: a datagram has  *)
(* the first n of the fields magic, msg_type and tid.                      *)
(*                                                                         *)
(* inet_ntoa returns the one static buffer it writes its text to.          *)
(* hostaddrp, make_announcement's target and its ip all point to it, so    *)
(* they are one variable here: the address that inet_ntoa was last called  *)
(* with.                                                                   *)
(***************************************************************************)
EXTENDS Integers, Sequences

CONSTANTS
    Hosts,         \* the addresses that datagrams come from
    Self,          \* the address of the server's interface eno1
    Tids,          \* the transaction ids that hosts use, within 0..255
    MaxDatagrams,  \* bound on what all hosts send
    MayFail        \* whether the server's system calls may fail

ASSUME FaAssumption ==
    /\ Tids \subseteq 0..255
    /\ MaxDatagrams \in Nat
    /\ MayFail \in BOOLEAN

PROTO_MAGIC == "PROTO_MAGIC"

\* msg_types; CMD stands for CMD_REQ to TERMINATE, which share a case.
MsgTypes == {"DISCOVERY", "ANNOUNCEMENT", "CMD", "INVALID"}

Header == [magic : {PROTO_MAGIC, "other"}, msg_type : MsgTypes, tid : 0..255]

Zeroed == [magic |-> "other", msg_type |-> "DISCOVERY", tid |-> 0]

VARIABLES
    pc,       \* "recv" and "switch" in process_pkt, "ret", "exited" by exit(1)
    inbox,    \* datagrams that wait in the server's socket
    buf,      \* the header fields in process_pkt's buffer
    ntoa,     \* the address in inet_ntoa's static buffer, at first none
    glb_tid,
    sent,     \* the announcements sent: [to, tid]
    received  \* history: the datagrams that recvfrom has returned

vars == <<pc, inbox, buf, ntoa, glb_tid, sent, received>>
---------------------------------------------------------------------------
\* The buffer after recvfrom has put the first n fields of h into it.
Overlay(b, h, n) ==
    [magic    |-> IF n >= 1 THEN h.magic ELSE b.magic,
     msg_type |-> IF n >= 2 THEN h.msg_type ELSE b.msg_type,
     tid      |-> IF n >= 3 THEN h.tid ELSE b.tid]

\* A host's datagram reaches the server's socket.
Arrive(h) ==
    /\ Len(received) + Len(inbox) < MaxDatagrams
    /\ \E hdr \in [magic : {PROTO_MAGIC, "other"}, msg_type : MsgTypes, tid : Tids], n \in 0..3 :
          inbox' = Append(inbox, [from |-> h, hdr |-> Overlay(Zeroed, hdr, n), n |-> n])
    /\ UNCHANGED <<pc, buf, ntoa, glb_tid, sent, received>>

Cleared_Not(b) == b

Cleared(b) == Zeroed

recvfrom ==
    /\ pc = "recv"
    /\ inbox # <<>>
    /\ LET d == Head(inbox)
       IN  /\ buf' = Overlay(Cleared(buf), d.hdr, d.n)
           /\ ntoa' = d.from
           /\ received' = Append(received, d)
    /\ inbox' = Tail(inbox)
    /\ pc' = "switch"
    /\ UNCHANGED <<glb_tid, sent>>

recvfrom_Fails ==
    /\ MayFail
    /\ pc = "recv"
    /\ buf' = Cleared(buf)
    /\ pc' = "exited"
    /\ UNCHANGED <<inbox, ntoa, glb_tid, sent, received>>

NextTid_Wide(tid) == tid + 1

NextTid(tid) == (tid + 1) % 256

\* get_local_ip leaves the server's own address where target points to, before
\* target is read: the announcement goes to ntoa'. What may fail is
\* get_local_ip, or popen and sendto after glb_tid has gone on.
make_announcement(tid) ==
    \/ /\ ntoa' = Self
       /\ glb_tid' = NextTid(tid)
       /\ sent' = Append(sent, [to |-> ntoa', tid |-> tid])
       /\ pc' = "recv"
    \/ /\ MayFail
       /\ \/ glb_tid' = tid /\ UNCHANGED ntoa
          \/ glb_tid' = NextTid(tid) /\ ntoa' = Self
       /\ pc' = "exited"
       /\ UNCHANGED sent

process_pkt ==
    /\ pc = "switch"
    /\ \/ /\ buf.magic = PROTO_MAGIC /\ buf.msg_type = "DISCOVERY"
          /\ make_announcement(buf.tid)
       \/ /\ buf.magic # PROTO_MAGIC \/ buf.msg_type = "CMD"
          /\ pc' = "recv"
          /\ UNCHANGED <<ntoa, glb_tid, sent>>
       \/ /\ buf.magic = PROTO_MAGIC /\ buf.msg_type \in {"ANNOUNCEMENT", "INVALID"}
          /\ pc' = "ret"
          /\ UNCHANGED <<ntoa, glb_tid, sent>>
    /\ UNCHANGED <<inbox, buf, received>>

\* process_pkt has returned -1: main's loop goes on.
main_EndsLoop ==
    /\ pc = "ret"
    /\ pc' = "ended"
    /\ UNCHANGED <<inbox, buf, ntoa, glb_tid, sent, received>>

main ==
    /\ pc = "ret"
    /\ pc' = "recv"
    /\ UNCHANGED <<inbox, buf, ntoa, glb_tid, sent, received>>

Init ==
    /\ pc = "recv"
    /\ inbox = <<>>
    /\ buf = Zeroed
    /\ ntoa = "none"
    /\ glb_tid = 0
    /\ sent = <<>>
    /\ received = <<>>

Server == recvfrom \/ process_pkt \/ main

Next == Server \/ recvfrom_Fails \/ \E h \in Hosts : Arrive(h)

Spec == Init /\ [][Next]_vars

\* The server is one thread, and the kernel runs it whenever it can run; that
\* recvfrom fails is not owed to anyone.
FairSpec == Spec /\ WF_vars(Server)
---------------------------------------------------------------------------
TypeOK ==
    /\ pc \in {"recv", "switch", "ret", "exited"}
    /\ buf \in Header
    /\ ntoa \in Hosts \cup {Self, "none"}
    /\ glb_tid \in 0..255
    /\ sent \in Seq([to : Hosts \cup {Self}, tid : 0..255])
    /\ Len(received) + Len(inbox) <= MaxDatagrams

\* What a datagram means by itself: the fields it lacks are zero.
Meaning(d) == Overlay(Zeroed, d.hdr, d.n)

IsDiscovery(d) == Meaning(d).magic = PROTO_MAGIC /\ Meaning(d).msg_type = "DISCOVERY"

\* The announcements q, with the one that d leads to.
Announced(q, d) ==
    IF IsDiscovery(d) THEN Append(q, [to |-> Self, tid |-> Meaning(d).tid]) ELSE q

\* What the datagrams ds lead to: upTo[i] are the announcements of the first i.
Announcements(ds) ==
    LET upTo[i \in 0..Len(ds)] == IF i = 0 THEN <<>> ELSE Announced(upTo[i - 1], ds[i])
    IN  upTo[Len(ds)]

\* process_pkt announces the server once for every discovery request, in their
\* order and under the tid of each, whatever came before it: nothing of an
\* earlier datagram is left in the buffer, and no earlier tid is used. Each
\* announcement goes to the server's own address (see TargetIsTheAsker).
AnnouncementsInOrder == pc \in {"recv", "ret"} => sent = Announcements(received)

\* process_pkt prints the host that a discovery request came from, passes it to
\* make_announcement as its target, and make_announcement speaks of "acking
\* DISCOVER": the announcement goes to the host whose request it answers.
TargetIsTheAsker ==
    LET asked == SelectSeq(received, IsDiscovery)
    IN  \A i \in 1..Len(sent) : sent[i].to = asked[i].from

\* Whatever the hosts send, invalid packets included, main's loop reads all of
\* it, unless a system call fails and exit(1) ends the server.
AllRead == \A n \in 1..MaxDatagrams :
              Len(received) + Len(inbox) >= n ~> Len(received) >= n \/ pc = "exited"
=============================================================================
