------------------------- MODULE MCBroadcastFileTx -------------------------
(* Instances of BroadcastFileTx for TLC.  Sizes are in bytes, with         *)
(* MAX_BR_PAYLOAD_LEN scaled down to 2.                                    *)
EXTENDS BroadcastFileTx, TLC

CONSTANTS c1, c2, c3, c4, c5, long, even, short, empty, absent

MCFiles   == {long, even, short, empty, absent}
MCPresent == {long, even, short, empty}

\* Three blocks with a short last one, two full ones, one short one, none.
MCSize == long :> 5 @@ even :> 4 @@ short :> 1 @@ empty :> 0

\* Garbage that is, and that is not, the length of a full block.
GarbageAny == {-1, Payload}

Reliable   == {1}
Lossy      == {0, 1}
Duplicates == {0, 1, 2}

WantsExact  == c1 :> even @@ c2 :> long @@ c3 :> even
WantsAll    == c1 :> long @@ c2 :> empty @@ c3 :> absent @@ c4 :> short @@ c5 :> even
WantsTwo    == c1 :> long @@ c2 :> short
WantsShared == c1 :> even @@ c2 :> short

\* The bound on what is on its way in a run with duplicates.
FewInFlight == Len(srvq) <= 2 /\ \A c \in Clients : Len(cliq[c]) <= 2
=============================================================================
