--------------------------- MODULE WosCpuBackend ----------------------------
(***************************************************************************)
(* backends/wos-cpu.  start sets the flag itself, opens the CPU telemetry  *)
(* (provider) and validates nothing; the thread mends the application's    *)
(* request instead, and never touches the flag.                            *)
(***************************************************************************)
EXTENDS SamplerSession

Metrics == 2   (* responses per sample: all of them or none                 *)

Init == kind = "wos_cpu" /\ SessionInit
BackendInit == Connect(provider)
SetDataCallback == Install(FALSE)
Deinit == Disconnect(Forgotten, provider)

(* One of the two telemetry sources is opened, or nothing has happened.     *)
Start ==
  /\ request # NoRequest /\ dataCallback # "none" /\ ~running
  /\ BeginStart(TRUE, "open")

StartCreate_KeepsTelemetry == CreateThread(FALSE, provider)
StartCreate == CreateThread(FALSE, "closed")
Stop == CallStop
StopCheck == CheckFlag
StopJoin == JoinThread("closed")
StopDestroy == DestroyThread("closed")

-----------------------------------------------------------------------------
(* The request as the thread leaves it, and the samples of a batch.         *)
Mended(r) == IF r.sampling = 0 \/ r.sampling > r.streaming
             THEN [r EXCEPT !.sampling = r.streaming] ELSE r

CollectSetup(t) ==
  /\ pc[t] = "begin"
  /\ \/ ~listed /\ Undefined("list_freed")
     \/ listed /\ GiveUp(t, running)
     \/ listed /\ request = NoRequest /\ Undefined("request_freed")
     \/ /\ listed /\ request # NoRequest
        /\ LET r == Mended(request) IN
           IF r.sampling = 0 THEN Undefined("divide_by_zero")
           ELSE /\ request' = r
                /\ \/ Move(t, NoBuffer, "done")
                   \/ Move(t, Buffer(r, r.streaming \div r.sampling, Metrics), "rest")
                /\ UNCHANGED <<registry, started, appPc, fresh, flag, sent, fault>>

CollectCheck(t) ==
  /\ pc[t] = "loop"
  /\ IF running THEN Goto(t, buf[t], "sample") ELSE Goto(t, NoBuffer, "done")

(* A batch without samples counts on: only its clock is reset.              *)
CollectSample(t) ==
  /\ pc[t] = "sample"
  /\ \E n \in IF provider = "open" THEN {0, Metrics} ELSE {0}, elapsed \in Elapsed(buf[t]) :
       LET b == Filled(buf[t], n)
           full == b.count >= b.quota \/ b.len >= b.room
       IN IF ~full /\ request = NoRequest THEN Undefined("request_freed")
          ELSE Judge(t, b, full \/ elapsed, b.len > 0,
                     IF b.len = 0 THEN [b EXCEPT !.since = 0] ELSE Emptied(b), "rest")

CollectDeliver(t) == Deliver(t, buf[t].len)
CollectReturn(t) == pc[t] = "callback" /\ Goto(t, Emptied(buf[t]), "rest")

(* The sleep before the first sample, and after each: the flag is looked at *)
(* only after it.                                                           *)
CollectRest(t) == pc[t] = "rest" /\ Sleep(t, request.sampling, "loop")

-----------------------------------------------------------------------------
AppCall == StartCreate \/ StoreHandle \/ StopCheck \/ StopJoin \/ StopDestroy

App ==
  \/ AllocRequest \/ FreeRequest
  \/ BackendInit \/ SetDataCallback \/ Deinit
  \/ Start \/ Stop
  \/ AppCall

Collect(t) ==
  \/ CollectSetup(t) \/ CollectCheck(t) \/ CollectSample(t)
  \/ CollectDeliver(t) \/ CollectReturn(t) \/ CollectRest(t)

Next == App \/ \E t \in Thread : Collect(t)
=============================================================================
