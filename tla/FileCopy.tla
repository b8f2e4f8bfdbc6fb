------------------------------ MODULE FileCopy ------------------------------
(***************************************************************************)
(* What a file transfer promises its clients: the blocks of the file that  *)
(* a client asked for have their turns, from the first to the last. A      *)
(* block may miss the copy when its turn comes, if MayMiss; a copy whose   *)
(* blocks have all had their turn is complete if none is missing and       *)
(* damaged otherwise. A client may give up at any time before.             *)
(* The network, the server and its descriptor do not appear.               *)
(***************************************************************************)
EXTENDS Naturals, Sequences

CONSTANTS Clients, Wanted, NrBlocks(_), MayMiss

VARIABLES
    status,
    copy,    \* the blocks that have had their turn
    missing  \* which of them are not in the client's file in whole

Init ==
    /\ status = [c \in Clients |-> "copying"]
    /\ copy = [c \in Clients |-> <<>>]
    /\ missing = [c \in Clients |-> {}]

CopyBlock(c) ==
    /\ status[c] = "copying"
    /\ Len(copy[c]) < NrBlocks(Wanted[c])
    /\ copy' = [copy EXCEPT ![c] = Append(@, <<Wanted[c], Len(@)>>)]
    /\ \/ UNCHANGED missing
       \/ MayMiss /\ missing' = [missing EXCEPT ![c] = @ \cup {Len(copy[c]) + 1}]
    /\ status' = [status EXCEPT ![c] =
            CASE Len(copy[c]) + 1 < NrBlocks(Wanted[c]) -> @
              [] Len(copy[c]) + 1 = NrBlocks(Wanted[c]) ->
                    IF missing'[c] = {} THEN "complete" ELSE "damaged"]

GiveUp(c) ==
    /\ status[c] = "copying"
    /\ status' = [status EXCEPT ![c] = "abandoned"]
    /\ UNCHANGED <<copy, missing>>

Next == \E c \in Clients : CopyBlock(c) \/ GiveUp(c)

Spec == Init /\ [][Next]_<<status, copy, missing>>
=============================================================================
