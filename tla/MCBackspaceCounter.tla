------------------------- MODULE MCBackspaceCounter -------------------------
(* Instances of BackspaceCounter for TLC.                                   *)
EXTENDS BackspaceCounter

MCMessages == {"Introspect", "GetBackspaceCount", "NoInterface"}
MCFaults   == {"startup", "EINTR", "EIO"}
=============================================================================
