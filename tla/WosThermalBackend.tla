------------------------- MODULE WosThermalBackend --------------------------
(***************************************************************************)
(* backends/wos-thermal.  The dummy's protocol over wos_thermal_lib        *)
(* (provider) with a static capability list.  A deinit stops the session   *)
(* that it finds running; when the library's cleanup fails the backend     *)
(* remains initialized, over a closed library (provider = "stuck").        *)
(***************************************************************************)
EXTENDS SamplerSession

Metrics == 2   (* responses per zone: temperature and passive cooling       *)

Init == kind = "wos_thermal" /\ SessionInit

(* Every init that succeeds appends the rates to the static lists again.    *)
BackendInit ==
  /\ appPc = "idle" /\ ~listed /\ provider = "closed"
  /\ listed' = TRUE /\ provider' = "open" /\ appended' = AtMost(appended + 1, 2)
  /\ UNCHANGED <<kind, dataCallback, offered, cut, client, flag, threads, sent, fault>>

SetDataCallback == Install(TRUE)

(* The stop that deinit makes when the flag is set: wos_thermal_stop.       *)
Deinit ==
  /\ MayDisconnect
  /\ running' = FALSE /\ appPc' = IF running THEN "close_join" ELSE "close"
  /\ cut' = (cut \/ started) /\ started' = FALSE
  /\ UNCHANGED <<kind, listed, dataCallback, offered, provider, appended, request, fresh, handle,
                 threads, sent, fault>>

DeinitJoin ==
  /\ appPc = "close_join" /\ (handle \in Thread => ~Live(handle))
  /\ handle' = NoThread /\ appPc' = "close"
  /\ UNCHANGED <<registry, request, started, fresh, running, threads, sent, fault>>

DeinitClose ==
  /\ appPc = "close" /\ appPc' = "idle"
  /\ listed' = FALSE /\ offered' = FALSE
  /\ \/ provider' = "closed" /\ dataCallback' = "none"
     \/ provider' = "stuck" /\ dataCallback' = Kept
  /\ UNCHANGED <<kind, appended, cut, request, started, fresh, flag, threads, sent, fault>>

(* Two rates are the ends of a range, any other number of them are listed   *)
(* one by one: after a second init the list holds each of its rates twice.  *)
Within(rate, rates) == \E low, high \in rates : low <= rate /\ rate <= high
ValidateRequest(r) ==
  /\ r.capability = 0
  /\ IF appended = 1 THEN Within(r.sampling, SamplingRates) /\ Within(r.streaming, StreamingRates)
                     ELSE InLists(r)

Start ==
  /\ request # NoRequest /\ dataCallback # "none" /\ ~running /\ ValidateRequest(request)
  /\ BeginStart(running, provider)
StartCreate == CreateThread(running, provider)
Stop == CallStop
StopCheck == CheckFlag
StopJoin == JoinThread(provider)
StopDestroy == DestroyThread(provider)

-----------------------------------------------------------------------------
(* The rates are read before the flag is set.                               *)
CollectBegin(t) ==
  \/ pc[t] = "begin" /\ request = NoRequest /\ Undefined("request_freed")
  \/ /\ pc[t] = "begin" /\ request # NoRequest
     /\ running' = TRUE
     /\ \E zones \in {0, 1} :
          Move(t, Buffer(request, request.streaming \div request.sampling, Metrics * zones), "find")
     /\ UNCHANGED <<registry, client, handle, sent, fault>>

(* The zone count and the buffers; the flag survives the first two of the   *)
(* three failures of an allocation.                                         *)
CollectSetup(t) ==
  /\ pc[t] = "find"
  /\ \/ GiveUp(t, FALSE)
     \/ provider = "open" /\ (GiveUp(t, running) \/ Goto(t, buf[t], "loop"))

CollectCheck(t) ==
  /\ pc[t] = "loop"
  /\ IF running THEN Goto(t, buf[t], "sample") ELSE Goto(t, NoBuffer, "done")

(* A sample that could be read is counted and stands in the length.  When   *)
(* every one failed the batch is sent with the length of the one before.    *)
CollectSample(t) ==
  /\ pc[t] = "sample"
  /\ \E elapsed \in Elapsed(buf[t]), read \in {FALSE, provider = "open"} :
       LET all == Filled(buf[t], Metrics)
           b == IF read THEN [all EXCEPT !.said = all.len] ELSE buf[t]
       IN Judge(t, b, CountOrTime(b, elapsed), TRUE, Emptied(b), "rest")

CollectDeliver(t) == Deliver(t, buf[t].said)
CollectReturn(t) == pc[t] = "callback" /\ Goto(t, Emptied(buf[t]), "rest")
CollectRest(t) == pc[t] = "rest" /\ SleepIfRunning(t, request.sampling, "loop")

-----------------------------------------------------------------------------
AppCall == StartCreate \/ StoreHandle \/ StopCheck \/ StopJoin \/ StopDestroy
           \/ DeinitJoin \/ DeinitClose

App ==
  \/ AllocRequest \/ FreeRequest
  \/ BackendInit \/ SetDataCallback \/ Deinit
  \/ Start \/ Stop
  \/ AppCall

Collect(t) ==
  \/ CollectBegin(t) \/ CollectSetup(t) \/ CollectCheck(t) \/ CollectSample(t)
  \/ CollectDeliver(t) \/ CollectReturn(t) \/ CollectRest(t)

Next == App \/ \E t \in Thread : Collect(t)
=============================================================================
