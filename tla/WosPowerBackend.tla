-------------------------- MODULE WosPowerBackend ---------------------------
(***************************************************************************)
(* backends/wos-power-backend.  As wos-cpu, over the power rails           *)
(* (provider), which a machine may have none of.  A start that fails to    *)
(* create its thread leaves the rails open.                                *)
(***************************************************************************)
EXTENDS SamplerSession

Metrics == 2   (* responses per sample: one for each rail                   *)

Init == kind = "wos_power" /\ SessionInit
BackendInit == Connect(provider)
SetDataCallback == Install(FALSE)
Deinit == Disconnect(Kept, provider)

(* powerTelemetry_railsInit refuses rails that are open already, so that    *)
(* start fails; without rails it is not called.                             *)
Start ==
  /\ request # NoRequest /\ dataCallback # "none" /\ ~running
  /\ provider = "closed"
  /\ \E opened \in {"open", "closed"} : BeginStart(TRUE, opened)

StartCreate == CreateThread(FALSE, provider)
Stop == CallStop
StopCheck == CheckFlag
StopJoin == JoinThread("closed")
StopDestroy == DestroyThread("closed")

-----------------------------------------------------------------------------
(* A sampling rate that cannot be used makes batches of one sample.         *)
Unusable(r) == r.sampling = 0 \/ r.sampling > r.streaming
Mended(r) == IF Unusable(r) THEN [r EXCEPT !.sampling = r.streaming] ELSE r
SampleCount(r) == IF Unusable(r) THEN 1 ELSE r.streaming \div r.sampling

(* The list is a null pointer after free_memory, and checked for that.      *)
CollectSetup(t) ==
  /\ pc[t] = "begin"
  /\ \/ GiveUp(t, running)
     \/ listed /\ request = NoRequest /\ Undefined("request_freed")
     \/ /\ listed /\ request # NoRequest
        /\ request' = Mended(request)
        /\ \/ Move(t, NoBuffer, "done")
           \/ Move(t, Buffer(request, SampleCount(request), IF provider = "open" THEN Metrics ELSE 0),
                   IF provider = "open" THEN "rest" ELSE "loop")
        /\ UNCHANGED <<registry, started, appPc, fresh, flag, sent, fault>>

CollectCheck(t) ==
  /\ pc[t] = "loop"
  /\ IF running THEN Goto(t, buf[t], "sample") ELSE Goto(t, NoBuffer, "done")

CollectSample(t) ==
  /\ pc[t] = "sample"
  /\ \E n \in IF provider = "open" THEN {0, Metrics} ELSE {0}, elapsed \in Elapsed(buf[t]) :
       LET b == Filled(buf[t], n)
           full == b.count >= b.quota \/ b.len >= b.room
       IN IF ~full /\ request = NoRequest THEN Undefined("request_freed")
          ELSE Judge(t, b, full \/ elapsed, b.len > 0,
                     IF b.len = 0 THEN [b EXCEPT !.since = 0] ELSE Emptied(b), "rest")

CollectDeliver(t) == Deliver(t, buf[t].len)
CollectReturn(t) == pc[t] = "callback" /\ Goto(t, Emptied(buf[t]), "rest")
CollectRest(t) == pc[t] = "rest" /\ Sleep(t, request.sampling, "loop")

-----------------------------------------------------------------------------
AppCall == StartCreate \/ StoreHandle \/ StopCheck \/ StopJoin \/ StopDestroy

App ==
  \/ AllocRequest \/ FreeRequest
  \/ BackendInit \/ SetDataCallback \/ Deinit
  \/ Start \/ Stop
  \/ AppCall

Collect(t) ==
  \/ CollectSetup(t) \/ CollectCheck(t) \/ CollectSample(t)
  \/ CollectDeliver(t) \/ CollectReturn(t) \/ CollectRest(t)

Next == App \/ \E t \in Thread : Collect(t)
=============================================================================
