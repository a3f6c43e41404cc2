---------------------------- MODULE DummyBackend ----------------------------
(***************************************************************************)
(* backends/dummy: the reference backend, and the thread protocol most     *)
(* other backends copy.  Unlike qcom-linux-gpu, g_is_thread_running is set *)
(* by the sampling thread itself, and start and stop trust the flag, not   *)
(* the handle.  The thread keeps a pointer into the capability list.       *)
(***************************************************************************)
EXTENDS SamplerSession

(* capabilities_list, as dummy_init fills it in.                            *)
Capabilities == <<[capability_id |-> 0, metrics |-> 5],
                  [capability_id |-> 0, metrics |-> 10]>>

Matching(id) == {i \in DOMAIN Capabilities : Capabilities[i].capability_id = id}
Found(id) == CHOOSE i \in Matching(id) : \A j \in Matching(id) : i <= j
MetricCount == Capabilities[Found(0)].metrics

Init == kind = "dummy" /\ SessionInit
BackendInit == Connect("closed")
SetDataCallback == Install(TRUE)
Free == Disconnect(Kept, "closed")

ValidateRequest(r) == Matching(r.capability) # {} /\ InLists(r)

StartCheck == ValidateRequest(request) /\ dataCallback # "none" /\ ~running

(* start leaves the flag to the thread.                                     *)
Start == request # NoRequest /\ StartCheck /\ BeginStart(running, provider)
StartCreate == CreateThread(running, provider)

Stop == CallStop
StopCheck_TrustsFlag ==
  /\ appPc = "stop_check"
  /\ started' = FALSE /\ appPc' = "idle" /\ running' = FALSE
  /\ UNCHANGED <<registry, request, fresh, handle, threads, sent, fault>>
StopCheck == CheckFlag
StopJoin == JoinThread(provider)
StopDestroy == DestroyThread(provider)

-----------------------------------------------------------------------------
CollectBegin(t) == SetFlag(t)

(* The capability and the buffers.  Without the capability the flag is      *)
(* cleared, without a buffer it is left set, and without a string buffer it *)
(* is cleared for the loop to see.                                          *)
SamplesPerStream_Floored(r) == (r.streaming - r.sampling) \div r.sampling
SamplesPerStream(r) == Ceiling(r)
Ready == [Buffer(request, SamplesPerStream(request), MetricCount) EXCEPT !.info = "held"]

CollectFind(t) ==
  /\ pc[t] = "find"
  /\ IF request = NoRequest THEN Undefined("request_freed")
     ELSE LET found == listed /\ Matching(request.capability) # {} IN
          \/ GiveUp(t, found /\ running)
          \/ /\ found
             /\ running' \in {running, FALSE}
             /\ Move(t, Ready, "loop")
             /\ UNCHANGED <<registry, client, handle, sent, fault>>

(* The loop condition; a thread that leaves the loop frees its buffers.     *)
CollectCheck(t) ==
  /\ pc[t] = "loop"
  /\ IF running THEN Goto(t, buf[t], "sample") ELSE Goto(t, NoBuffer, "done")

(* One sample: the metrics that fit are appended, and the batch is due once *)
(* it has its samples or its time is up.                                    *)
CollectSample(t) ==
  /\ pc[t] = "sample"
  /\ IF buf[t].info = "freed" THEN Undefined("list_freed")
     ELSE \E elapsed \in Elapsed(buf[t]) :
            LET b == Filled(buf[t], MetricCount) IN
            Judge(t, b, CountOrTime(b, elapsed), b.len > 0,
                  [b EXCEPT !.count = 0, !.since = 0], "rest")

CollectDeliver(t) == Deliver(t, buf[t].len)

CollectReturn_KeepsBatch(t) ==
  pc[t] = "callback" /\ Goto(t, [buf[t] EXCEPT !.count = 0, !.since = 0], "rest")
CollectReturn(t) == pc[t] = "callback" /\ Goto(t, Emptied(buf[t]), "rest")

CollectRest(t) == pc[t] = "rest" /\ SleepIfRunning(t, request.streaming, "loop")

-----------------------------------------------------------------------------
AppCall == StartCreate \/ StoreHandle \/ StopCheck \/ StopJoin \/ StopDestroy

App ==
  \/ AllocRequest \/ FreeRequest
  \/ BackendInit \/ SetDataCallback \/ Free
  \/ Start \/ Stop
  \/ AppCall

Collect(t) ==
  \/ CollectBegin(t) \/ CollectFind(t) \/ CollectCheck(t) \/ CollectSample(t)
  \/ CollectDeliver(t) \/ CollectReturn(t) \/ CollectRest(t)

Next == App \/ \E t \in Thread : Collect(t)
=============================================================================
