-------------------------- MODULE MCMinidumpProcess --------------------------
(* Processing of the files of MCMinidump.  RfSpec is what                   *)
(* RfMinidumpProcess does: read the file, then process it.                  *)
EXTENDS MinidumpProcess, MCMinidump

RfNext ==
    \/ Read /\ reads = 0 /\ UNCHANGED <<processing, ps, trace>>
    \/ valid /\ (Process \/ Process_Thread \/ Process_End \/ RfMinidumpProcess)

RfSpec == ProcessInit /\ [][RfNext]_vars
=============================================================================
