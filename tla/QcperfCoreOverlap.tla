-------------------------- MODULE QcperfCoreOverlap --------------------------
(***************************************************************************)
(* QcperfCore with a history variable that remembers whether the           *)
(* application has ever overlapped two calls that share a backend, or any  *)
(* call with qcperf_init or qcperf_deinit.  The core itself is unchanged.  *)
(***************************************************************************)
EXTENDS QcperfCore

VARIABLE overlapped   (* two such calls have been in progress together      *)

Conflict(c, d) ==
  /\ c # d /\ pc[c] # "idle" /\ pc[d] # "idle"
  /\ \/ call[c].op \in Exclusive
     \/ call[c].id = call[d].id

InitH == Init /\ overlapped = FALSE

NextH ==
  /\ Next
  /\ overlapped' = (overlapped \/ \E c, d \in Client : Conflict(c, d)')

SpecH == InitH /\ [][NextH]_<<vars, overlapped>>
-----------------------------------------------------------------------------
(* Every undefined step of the core goes back to calls the application      *)
(* overlapped, or is the access one past g_backends_connected made for the  *)
(* id QC_PERF_BACKEND_MAX: a sequential application that passes valid ids   *)
(* never meets one, however long its history of failed inits, disconnects   *)
(* and reinitialisations.                                                   *)
FaultNeedsOverlap == fault \in {"none", "past_table"} \/ overlapped
=============================================================================
