------------------------ MODULE LinuxThermalBackend ------------------------
(***************************************************************************)
(* backends/linux-thermal.  The dummy's protocol over linux_thermal_lib    *)
(* (provider), whose metrics the thread reads through a pointer the        *)
(* library gave it; the thread clears the flag whenever it ends.           *)
(***************************************************************************)
EXTENDS SamplerSession

Metrics == 2   (* domains with a sensor; each may be missing from a sample  *)

Init == kind = "linux_thermal" /\ SessionInit
BackendInit == Connect("open")
SetDataCallback == Install(TRUE)
Deinit == Disconnect(Forgotten, "closed")

ValidateRequest(r) == r.capability = 0 /\ InLists(r)
Start ==
  /\ request # NoRequest /\ ValidateRequest(request) /\ dataCallback # "none" /\ ~running
  /\ BeginStart(running, provider)
StartCreate == CreateThread(running, provider)
Stop == CallStop

StopCheck_LeavesFlag ==
  /\ appPc = "stop_check"
  /\ IF running THEN appPc' = "stop_join" /\ UNCHANGED started
                ELSE started' = FALSE /\ appPc' = "idle"
  /\ UNCHANGED <<registry, request, fresh, flag, threads, sent, fault>>
StopCheck == CheckFlag
StopJoin == JoinThread(provider)
StopDestroy == DestroyThread(provider)

-----------------------------------------------------------------------------
CollectBegin(t) == SetFlag(t)

(* The list is read without a check, then two allocations.                  *)
CollectSetup(t) ==
  /\ pc[t] = "find"
  /\ IF ~listed THEN Undefined("list_freed")
     ELSE IF request = NoRequest THEN Undefined("request_freed")
     ELSE \/ /\ running' = FALSE
             /\ Move(t, NoBuffer, "exit")
             /\ UNCHANGED <<registry, client, handle, sent, fault>>
          \/ Goto(t, Buffer(request, Ceiling(request), Metrics), "loop")

CollectCheck(t) ==
  pc[t] = "loop" /\ Goto(t, buf[t], IF running THEN "sample" ELSE "exit")

(* The library hands out its metrics while it is open; when it refuses, the *)
(* thread uses the pointer it was handed before.                            *)
CollectSample(t) ==
  /\ pc[t] = "sample"
  /\ IF provider = "closed" /\ buf[t].info = "freed" THEN Undefined("provider_closed")
     ELSE \E elapsed \in Elapsed(buf[t]), n \in IF provider = "open" THEN 0 .. Metrics ELSE {0} :
            LET b == [Filled(buf[t], n) EXCEPT !.info = IF provider = "open" THEN "held" ELSE @] IN
            Judge(t, b, CountOrTime(b, elapsed), b.len > 0, Emptied(b), "rest")

CollectDeliver(t) == Deliver(t, buf[t].len)
CollectReturn(t) == pc[t] = "callback" /\ Goto(t, Emptied(buf[t]), "rest")
CollectRest(t) == pc[t] = "rest" /\ SleepIfRunning(t, request.sampling, "loop")
CollectEnd(t) == pc[t] = "exit" /\ GiveUp(t, FALSE)

-----------------------------------------------------------------------------
AppCall == StartCreate \/ StoreHandle \/ StopCheck \/ StopJoin \/ StopDestroy

App ==
  \/ AllocRequest \/ FreeRequest
  \/ BackendInit \/ SetDataCallback \/ Deinit
  \/ Start \/ Stop
  \/ AppCall

Collect(t) ==
  \/ CollectBegin(t) \/ CollectSetup(t) \/ CollectCheck(t) \/ CollectSample(t)
  \/ CollectDeliver(t) \/ CollectReturn(t) \/ CollectRest(t) \/ CollectEnd(t)

Next == App \/ \E t \in Thread : Collect(t)
=============================================================================
