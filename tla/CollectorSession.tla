-------------------------- MODULE CollectorSession --------------------------
(***************************************************************************)
(* What a backend that samples on a background thread promises its         *)
(* application: start opens one session, data arrive only while the        *)
(* session is open, in batches that are neither empty nor larger than the  *)
(* buffer the rates of the request call for, and after stop has returned   *)
(* nothing arrives until the next start.  A stop that was begun ends.      *)
(***************************************************************************)
EXTENDS Naturals

CONSTANT BatchSizes   (* the numbers of metric responses a batch may hold   *)

VARIABLES
  session,   (* "idle", "active", "dead" (its thread gave up), "stopping"   *)
  batches,   (* parity of the number of batches delivered so far            *)
  batch      (* the size of the last one                                    *)

sVars == <<session, batches, batch>>

SInit == session = "idle" /\ batches = 0 /\ batch = 0

Start == /\ session \in {"idle", "dead"}
         /\ session' = "active" /\ UNCHANGED <<batches, batch>>
Die   == session = "active" /\ session' = "dead" /\ UNCHANGED <<batches, batch>>
Stop  == /\ session \in {"active", "dead"}
         /\ session' = "stopping" /\ UNCHANGED <<batches, batch>>
Stopped == session = "stopping" /\ session' = "idle" /\ UNCHANGED <<batches, batch>>

Deliver ==
  /\ session \in {"active", "stopping"}
  /\ batches' = 1 - batches
  /\ batch' \in BatchSizes
  /\ UNCHANGED session

SNext == Start \/ Die \/ Stop \/ Stopped \/ Deliver

(* Stopped is weakly fair: deliveries may not hold a stop up for ever.      *)
SSpec == SInit /\ [][SNext]_sVars /\ WF_sVars(Stopped)
=============================================================================
