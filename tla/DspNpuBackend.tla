--------------------------- MODULE DspNpuBackend ---------------------------
(***************************************************************************)
(* backends/qcom-dsp-npu.  The dummy's protocol over a FastRPC session     *)
(* that init opens and deinit closes (provider).  The thread asks it for   *)
(* data, and keeps a pointer into the capability list.                     *)
(***************************************************************************)
EXTENDS SamplerSession

Metrics == 2   (* responses per sample (4 in the code): all of them or none *)

Init == kind = "dsp_npu" /\ SessionInit
BackendInit == Connect("open")
SetDataCallback == Install(TRUE)
Deinit == Disconnect(Kept, "closed")

ValidateRequest(r) == r.capability = 0 /\ InLists(r)
Start ==
  /\ request # NoRequest /\ ValidateRequest(request) /\ dataCallback # "none" /\ ~running
  /\ BeginStart(running, provider)
StartCreate == CreateThread(running, provider)
Stop == CallStop
StopCheck == CheckFlag
StopJoin == JoinThread(provider)
StopDestroy == DestroyThread(provider)

-----------------------------------------------------------------------------
CollectBegin(t) == SetFlag(t)

(* Without the capability the flag is cleared, without memory it is left.   *)
CollectSetup(t) ==
  /\ pc[t] = "find"
  /\ IF ~listed THEN GiveUp(t, FALSE)
     ELSE IF request = NoRequest THEN Undefined("request_freed")
     ELSE \/ GiveUp(t, running)
          \/ Goto(t, [Buffer(request, Ceiling(request), Metrics) EXCEPT !.info = "held"], "loop")

CollectCheck(t) ==
  /\ pc[t] = "loop"
  /\ IF running THEN Goto(t, buf[t], "sample") ELSE Goto(t, NoBuffer, "done")

(* The session is used without a check that it is still open; a sample is   *)
(* counted even when the DSP had no data.                                   *)
CollectSample(t) ==
  /\ pc[t] = "sample"
  /\ IF provider = "closed" THEN Undefined("provider_closed")
     ELSE \E elapsed \in Elapsed(buf[t]), n \in {0, Metrics} :
            IF n > 0 /\ buf[t].info = "freed" THEN Undefined("list_freed")
            ELSE LET b == Filled(buf[t], n) IN
                 Judge(t, b, CountOrTime(b, elapsed), b.len > 0,
                       [b EXCEPT !.count = 0, !.since = 0], "rest")

CollectDeliver(t) == Deliver(t, buf[t].len)
CollectReturn(t) == pc[t] = "callback" /\ Goto(t, Emptied(buf[t]), "rest")
CollectRest(t) == pc[t] = "rest" /\ SleepIfRunning(t, request.sampling, "loop")

-----------------------------------------------------------------------------
AppCall == StartCreate \/ StoreHandle \/ StopCheck \/ StopJoin \/ StopDestroy

App ==
  \/ AllocRequest \/ FreeRequest
  \/ BackendInit \/ SetDataCallback \/ Deinit
  \/ Start \/ Stop
  \/ AppCall

Collect(t) ==
  \/ CollectBegin(t) \/ CollectSetup(t) \/ CollectCheck(t) \/ CollectSample(t)
  \/ CollectDeliver(t) \/ CollectReturn(t) \/ CollectRest(t)

Next == App \/ \E t \in Thread : Collect(t)
=============================================================================
