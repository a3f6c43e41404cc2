-------------------------- MODULE LinuxCpuBackend --------------------------
(***************************************************************************)
(* backends/qcom-linux-cpu.  The dummy's protocol, with a sleep before     *)
(* each sample (the load of a core is the difference of two readings of    *)
(* /proc/stat), and a thread that clears the flag whenever it ends.        *)
(***************************************************************************)
EXTENDS SamplerSession

Metrics == 2   (* the responses of a sample, as init listed them              *)

Init == kind = "linux_cpu" /\ SessionInit
BackendInit == Connect("closed")
SetDataCallback == Install(TRUE)

Deinit_KeepsCallback == Disconnect(Kept, "closed")
Deinit == Disconnect(Forgotten, "closed")

ValidateRequest(r) == r.capability = 0 /\ InLists(r)
Start ==
  /\ request # NoRequest /\ ValidateRequest(request) /\ dataCallback # "none" /\ ~running
  /\ BeginStart(running, provider)
StartCreate == CreateThread(running, provider)
Stop == CallStop
StopCheck == CheckFlag
StopJoin == JoinThread(provider)
StopDestroy == DestroyThread(provider)

-----------------------------------------------------------------------------
CollectBegin(t) == SetFlag(t)

(* The cores are counted again, the list is read without a check, and three *)
(* buffers are allocated; whatever fails, the thread goes on to its end.    *)
CollectSetup(t) ==
  /\ pc[t] = "find"
  /\ \/ /\ running' = FALSE
        /\ Move(t, NoBuffer, "exit")
        /\ UNCHANGED <<registry, client, handle, sent, fault>>
     \/ ~listed /\ Undefined("list_freed")
     \/ listed /\ request = NoRequest /\ Undefined("request_freed")
     \/ /\ listed /\ request # NoRequest
        /\ Goto(t, Buffer(request, Ceiling(request), Metrics), "loop")

(* The loop condition, and the first of the two readings.                   *)
CollectCheck(t) ==
  pc[t] = "loop" /\ Goto(t, buf[t], IF running THEN "rest" ELSE "exit")

CollectRest_Streams(t) == pc[t] = "rest" /\ Sleep(t, request.streaming, "sample")
CollectRest(t) == pc[t] = "rest" /\ Sleep(t, request.sampling, "sample")

(* The flag is looked at once more after the sleep.  The thread counts the  *)
(* cores for itself and asks again whether each has a dcvs limit, so that a *)
(* sample may have fewer responses than init listed, or more.  What does    *)
(* not fit is dropped.                                                      *)
CollectSample(t) ==
  /\ pc[t] = "sample"
  /\ IF ~running THEN Goto(t, buf[t], "exit")
     ELSE \E elapsed \in Elapsed(buf[t]), n \in 1 .. Metrics + 1 :
            LET b == Filled(buf[t], n) IN
            Judge(t, b, CountOrTime(b, elapsed), b.len > 0, Emptied(b), "loop")

CollectDeliver(t) == Deliver(t, buf[t].len)
CollectReturn(t) == pc[t] = "callback" /\ Goto(t, Emptied(buf[t]), "loop")

(* Everything is freed and the flag cleared, however the thread got here.   *)
CollectEnd(t) == pc[t] = "exit" /\ GiveUp(t, FALSE)

-----------------------------------------------------------------------------
AppCall == StartCreate \/ StoreHandle \/ StopCheck \/ StopJoin \/ StopDestroy

App ==
  \/ AllocRequest \/ FreeRequest
  \/ BackendInit \/ SetDataCallback \/ Deinit
  \/ Start \/ Stop
  \/ AppCall

Collect(t) ==
  \/ CollectBegin(t) \/ CollectSetup(t) \/ CollectCheck(t) \/ CollectRest(t)
  \/ CollectSample(t) \/ CollectDeliver(t) \/ CollectReturn(t) \/ CollectEnd(t)

Next == App \/ \E t \in Thread : Collect(t)
=============================================================================
