--------------------------- MODULE LinuxGpuBackend ---------------------------
(***************************************************************************)
(* backends/qcom-linux-gpu: one application thread that connects, starts,  *)
(* stops and disconnects the backend, and the sampling threads its starts  *)
(* create.  They share g_data_callback, g_is_thread_running, g_thread_info *)
(* and the application's request, without a lock.  The thread calls of     *)
(* utils/qthread (pthread_create, pthread_join, free) are the steps        *)
(* StartCreate, StartStore, StopJoin and StopDestroy.                      *)
(*                                                                         *)
(* A sample is abstracted to the set of metrics whose sysfs node could be  *)
(* read, a batch to its length, and time to whether streaming_rate has     *)
(* elapsed since the last delivery.                                        *)
(*                                                                         *)
(* A definition whose name has an underscore (StopJoin_NoWait) is a wrong  *)
(* variant of the one that follows it, kept to show that the properties    *)
(* tell them apart; no action uses it.                                     *)
(***************************************************************************)
EXTENDS Integers, FiniteSets

CONSTANTS
  Thread,         (* the sampling threads that can exist at once (bound)    *)
  NoThread,       (* the NULL thread handle                                 *)
  Metric,         (* the metrics of capability 0                            *)
  Request,        (* the requests the application may make                  *)
  NoRequest,      (* request memory that has been freed                     *)
  Capability,     (* the capability ids the backend knows                   *)
  SamplingRates,  (* sampling_rates                                         *)
  StreamingRates, (* streaming_rates                                        *)
  StopsFirst,     (* TRUE: the application stops its session before it      *)
                  (* disconnects                                            *)
  CallbackStops   (* TRUE: the data callback may call qcperf_stop           *)

ASSUME GpuAssumption ==
  /\ NoThread \notin Thread
  /\ IsFiniteSet(Metric) /\ Metric # {}
  /\ Request \subseteq [capability : Nat, sampling : Nat, streaming : Nat]
  /\ NoRequest \notin Request
  /\ Capability \subseteq Nat
  /\ SamplingRates \subseteq Nat \ {0}
  /\ StreamingRates \subseteq Nat \ {0}
  /\ StopsFirst \in BOOLEAN /\ CallbackStops \in BOOLEAN

VARIABLES
  listed,        (* the backend is connected and holds its capability list  *)
  dataCallback,  (* g_data_callback # NULL                                  *)
  running,       (* g_is_thread_running                                     *)
  handle,        (* g_thread_info.thread_handle                             *)
  request,       (* the application's request, or NoRequest                 *)
  started,       (* start returned SUCCESS and stop has not returned since  *)
  appPc,         (* where the application is in a start or a stop           *)
  fresh,         (* thread_create's own handle, before it is stored         *)
  reply,         (* the return code of the last call                        *)
  pc,            (* where each sampling thread is                           *)
  quota,         (* samples_per_stream of each thread                       *)
  len,           (* metric_response_len of each thread's buffer             *)
  count,         (* sample_count of each thread, kept at quota once there   *)
  batches,       (* parity of the number of callbacks made                  *)
  batch,         (* metric_response_len of the last one                     *)
  fault          (* what undefined step was taken, if any                   *)

api == <<listed, dataCallback, request, started, appPc, fresh, reply>>
buffers == <<quota, len, count>>
sent == <<batches, batch>>
vars == <<api, running, handle, pc, buffers, sent, fault>>

AppPc == {"idle", "start_create", "start_store", "stop_flag", "stop_join", "stop_destroy"}
Pc == {"none", "begin", "loop", "sample", "deliver", "callback", "rest", "done"}
Code == {"none", "SUCCESS", "FAILED", "INVALID_ARGUMENTS", "CAPABILITY_NOT_FOUND",
         "ALREADY_INITIALIZED", "CALLBACK_ALREADY_SET", "CALLOC_FAILED"}
Fault == {"none", "null_callback", "request_freed"}

M == Cardinality(Metric)
SamplesPerStream_Floored(r) == (r.streaming - r.sampling) \div r.sampling

SamplesPerStream(r) == (r.streaming + r.sampling - 1) \div r.sampling
Capacity(t) == quota[t] * M
Live(t) == pc[t] \notin {"none", "done"}

TypeOK ==
  /\ listed \in BOOLEAN /\ dataCallback \in BOOLEAN /\ running \in BOOLEAN
  /\ handle \in Thread \cup {NoThread} /\ fresh \in Thread \cup {NoThread}
  /\ request \in Request \cup {NoRequest}
  /\ started \in BOOLEAN
  /\ appPc \in AppPc /\ reply \in Code
  /\ pc \in [Thread -> Pc]
  /\ quota \in [Thread -> Nat] /\ len \in [Thread -> Nat] /\ count \in [Thread -> Nat]
  /\ batches \in {0, 1} /\ batch \in Nat
  /\ fault \in Fault

Init ==
  /\ listed = FALSE /\ dataCallback = FALSE /\ running = FALSE
  /\ handle = NoThread /\ fresh = NoThread
  /\ request = NoRequest /\ started = FALSE
  /\ appPc = "idle" /\ reply = "none"
  /\ pc = [t \in Thread |-> "none"]
  /\ quota = [t \in Thread |-> 0]
  /\ len = [t \in Thread |-> 0]
  /\ count = [t \in Thread |-> 0]
  /\ batches = 0 /\ batch = 0
  /\ fault = "none"

Undefined(f) ==
  fault' = f /\ UNCHANGED <<api, running, handle, pc, buffers, sent>>

-----------------------------------------------------------------------------
(* The application between calls: its request memory.                       *)

AllocRequest ==
  /\ appPc = "idle" /\ request = NoRequest
  /\ request' \in Request
  /\ UNCHANGED <<listed, dataCallback, started, appPc, fresh, reply, running, handle,
                 pc, buffers, sent, fault>>

FreeRequest ==
  /\ appPc = "idle" /\ request # NoRequest /\ ~started
  /\ request' = NoRequest
  /\ UNCHANGED <<listed, dataCallback, started, appPc, fresh, reply, running, handle,
                 pc, buffers, sent, fault>>

-----------------------------------------------------------------------------
(* qcom_linux_gpu_init, _set_data_callback and _deinit.  The core calls the *)
(* first only on a disconnected backend, the others only on a connected one.*)

GpuInit ==
  /\ appPc = "idle" /\ ~listed
  /\ \/ listed' = TRUE /\ reply' = "SUCCESS"
     \/ listed' = FALSE /\ reply' \in {"FAILED", "CALLOC_FAILED"}
  /\ UNCHANGED <<dataCallback, request, started, appPc, fresh, running, handle,
                 pc, buffers, sent, fault>>

SetDataCallback ==
  /\ appPc = "idle" /\ listed
  /\ IF dataCallback
     THEN reply' = "CALLBACK_ALREADY_SET"
     ELSE reply' = "SUCCESS"
  /\ dataCallback' = TRUE
  /\ UNCHANGED <<listed, request, started, appPc, fresh, running, handle,
                 pc, buffers, sent, fault>>

GpuDeinit ==
  /\ appPc = "idle" /\ listed
  /\ StopsFirst => ~started
  /\ listed' = FALSE
  /\ dataCallback' = FALSE
  /\ reply' = "SUCCESS"
  /\ UNCHANGED <<request, started, appPc, fresh, running, handle, pc, buffers, sent, fault>>

-----------------------------------------------------------------------------
(* qcom_linux_gpu_start.                                                    *)

ValidateRequest(r) ==
  IF r.capability \notin Capability THEN "CAPABILITY_NOT_FOUND"
  ELSE IF r.sampling \notin SamplingRates \/ r.streaming \notin StreamingRates
       THEN "INVALID_ARGUMENTS"
  ELSE "SUCCESS"

StartCheck_AnyCallback ==
  IF ValidateRequest(request) # "SUCCESS" THEN ValidateRequest(request)
  ELSE IF handle # NoThread THEN "ALREADY_INITIALIZED"
  ELSE "SUCCESS"

StartCheck_AnyHandle ==
  IF ValidateRequest(request) # "SUCCESS" THEN ValidateRequest(request)
  ELSE IF ~dataCallback THEN "FAILED"
  ELSE "SUCCESS"

StartCheck ==
  IF ValidateRequest(request) # "SUCCESS" THEN ValidateRequest(request)
  ELSE IF ~dataCallback THEN "FAILED"
  ELSE IF handle # NoThread THEN "ALREADY_INITIALIZED"
  ELSE "SUCCESS"

(* The flag is set before the thread exists.                                *)
GpuStart ==
  /\ appPc = "idle" /\ listed /\ request # NoRequest
  /\ IF StartCheck = "SUCCESS"
     THEN /\ running' = TRUE
          /\ appPc' = "start_create"
          /\ UNCHANGED reply
     ELSE /\ reply' = StartCheck
          /\ UNCHANGED <<running, appPc>>
  /\ UNCHANGED <<listed, dataCallback, request, started, fresh, handle,
                 pc, buffers, sent, fault>>

(* thread_create: the new thread runs before its handle is stored.          *)
StartCreate ==
  /\ appPc = "start_create"
  /\ \/ \E t \in Thread :
          /\ ~Live(t)
          /\ pc' = [pc EXCEPT ![t] = "begin"]
          /\ fresh' = t
          /\ appPc' = "start_store"
          /\ UNCHANGED <<running, reply>>
     \/ /\ running' = FALSE
        /\ reply' = "FAILED"
        /\ appPc' = "idle"
        /\ UNCHANGED <<pc, fresh>>
  /\ UNCHANGED <<listed, dataCallback, request, started, handle, buffers, sent, fault>>

StartStore ==
  /\ appPc = "start_store"
  /\ handle' = fresh
  /\ fresh' = NoThread
  /\ started' = TRUE
  /\ reply' = "SUCCESS"
  /\ appPc' = "idle"
  /\ UNCHANGED <<listed, dataCallback, request, running, pc, buffers, sent, fault>>

-----------------------------------------------------------------------------
(* qcom_linux_gpu_stop: clear the flag, join, free the handle.              *)

GpuStop ==
  /\ appPc = "idle" /\ listed /\ request # NoRequest
  /\ IF handle # NoThread
     THEN appPc' = "stop_flag" /\ UNCHANGED <<started, reply>>
     ELSE started' = FALSE /\ reply' = "SUCCESS" /\ UNCHANGED appPc
  /\ UNCHANGED <<listed, dataCallback, request, fresh, running, handle,
                 pc, buffers, sent, fault>>

StopFlag ==
  /\ appPc = "stop_flag"
  /\ running' = FALSE
  /\ appPc' = "stop_join"
  /\ UNCHANGED <<listed, dataCallback, request, started, fresh, reply, handle,
                 pc, buffers, sent, fault>>

StopJoin_NoWait ==
  /\ appPc = "stop_join"
  /\ appPc' = "stop_destroy"
  /\ reply' = "SUCCESS"
  /\ UNCHANGED <<listed, dataCallback, request, started, fresh, running, handle,
                 pc, buffers, sent, fault>>

(* pthread_join blocks until the thread has returned.                       *)
StopJoin ==
  /\ appPc = "stop_join"
  /\ handle \in Thread => ~Live(handle)
  /\ appPc' = "stop_destroy"
  /\ reply' = IF handle \in Thread THEN "SUCCESS" ELSE "FAILED"
  /\ UNCHANGED <<listed, dataCallback, request, started, fresh, running, handle,
                 pc, buffers, sent, fault>>

StopDestroy ==
  /\ appPc = "stop_destroy"
  /\ reply' = IF handle = NoThread THEN "FAILED" ELSE reply
  /\ handle' = NoThread
  /\ started' = FALSE
  /\ appPc' = "idle"
  /\ UNCHANGED <<listed, dataCallback, request, fresh, running, pc, buffers, sent, fault>>

-----------------------------------------------------------------------------
(* collect_gpu_data, the sampling thread.                                   *)

Move(t, at) == pc' = [pc EXCEPT ![t] = at]

(* The request's rates and the two buffers; without a buffer the thread     *)
(* clears the flag and returns.                                             *)
CollectBegin(t) ==
  /\ pc[t] = "begin"
  /\ \/ request = NoRequest /\ Undefined("request_freed")
     \/ /\ request # NoRequest
        /\ \/ /\ quota' = [quota EXCEPT ![t] = SamplesPerStream(request)]
              /\ len' = [len EXCEPT ![t] = 0]
              /\ count' = [count EXCEPT ![t] = 0]
              /\ Move(t, "loop")
              /\ UNCHANGED running
           \/ running' = FALSE /\ Move(t, "done") /\ UNCHANGED buffers
        /\ UNCHANGED <<api, handle, sent, fault>>

CollectCheck_Always(t) ==
  /\ pc[t] = "loop"
  /\ Move(t, "sample")
  /\ UNCHANGED <<api, running, handle, buffers, sent, fault>>

(* The loop condition; a thread that leaves the loop frees its buffers.      *)
CollectCheck(t) ==
  /\ pc[t] = "loop"
  /\ \/ running /\ Move(t, "sample") /\ UNCHANGED buffers
     \/ /\ ~running
        /\ Move(t, "done")
        /\ quota' = [quota EXCEPT ![t] = 0]
        /\ len' = [len EXCEPT ![t] = 0]
        /\ count' = [count EXCEPT ![t] = 0]
  /\ UNCHANGED <<api, running, handle, sent, fault>>

(* One sample: the valid metrics are appended when a full sample fits, and  *)
(* the batch is due once it has its samples or its time is up.              *)
HasRoom(t) == len[t] + M <= Capacity(t)

CollectSample_SendsEmpty(t) ==
  /\ pc[t] = "sample"
  /\ \E valid \in SUBSET Metric, elapsed \in BOOLEAN :
       /\ len' = IF valid # {} /\ HasRoom(t)
                 THEN [len EXCEPT ![t] = @ + Cardinality(valid)]
                 ELSE len
       /\ count' = IF count[t] < quota[t] THEN [count EXCEPT ![t] = @ + 1] ELSE count
       /\ Move(t, IF count'[t] >= quota[t] \/ elapsed THEN "deliver" ELSE "rest")
  /\ UNCHANGED <<api, running, handle, quota, sent, fault>>

CollectSample(t) ==
  /\ pc[t] = "sample"
  /\ \E valid \in SUBSET Metric, elapsed \in BOOLEAN :
       /\ len' = IF valid # {} /\ HasRoom(t)
                 THEN [len EXCEPT ![t] = @ + Cardinality(valid)]
                 ELSE len
       /\ count' = IF count[t] < quota[t] THEN [count EXCEPT ![t] = @ + 1] ELSE count
       /\ Move(t, IF (count'[t] >= quota[t] \/ elapsed) /\ len'[t] > 0
                  THEN "deliver" ELSE "rest")
  /\ UNCHANGED <<api, running, handle, quota, sent, fault>>

(* The call through g_data_callback, which is not checked here.             *)
CollectDeliver(t) ==
  /\ pc[t] = "deliver"
  /\ \/ ~dataCallback /\ Undefined("null_callback")
     \/ /\ dataCallback
        /\ batches' = 1 - batches
        /\ batch' = len[t]
        /\ Move(t, "callback")
        /\ UNCHANGED <<api, running, handle, buffers, fault>>

(* A callback that calls qcperf_stop: joining oneself fails with EDEADLK,   *)
(* and the handle is freed all the same.  Only a call that overlaps none of *)
(* the application's is modelled.                                           *)
CallbackStop(t) ==
  /\ CallbackStops /\ pc[t] = "callback" /\ appPc = "idle" /\ listed
  /\ handle = t
  /\ running' = FALSE
  /\ handle' = NoThread
  /\ started' = FALSE
  /\ reply' = "FAILED"
  /\ UNCHANGED <<listed, dataCallback, request, appPc, fresh, pc, buffers, sent, fault>>

CollectReturn_KeepsBatch(t) ==
  /\ pc[t] = "callback"
  /\ count' = [count EXCEPT ![t] = 0]
  /\ Move(t, "rest")
  /\ UNCHANGED <<api, running, handle, quota, len, sent, fault>>

CollectReturn(t) ==
  /\ pc[t] = "callback"
  /\ len' = [len EXCEPT ![t] = 0]
  /\ count' = [count EXCEPT ![t] = 0]
  /\ Move(t, "rest")
  /\ UNCHANGED <<api, running, handle, quota, sent, fault>>

(* The flag again, then the sleep of request->sampling_rate.                *)
CollectRest(t) ==
  /\ pc[t] = "rest"
  /\ \/ running /\ request = NoRequest /\ Undefined("request_freed")
     \/ /\ running => request # NoRequest
        /\ Move(t, "loop")
        /\ UNCHANGED <<api, running, handle, buffers, sent, fault>>

-----------------------------------------------------------------------------
AppCall == StartCreate \/ StartStore \/ StopFlag \/ StopJoin \/ StopDestroy

App ==
  \/ AllocRequest \/ FreeRequest
  \/ GpuInit \/ SetDataCallback \/ GpuDeinit
  \/ GpuStart \/ GpuStop
  \/ AppCall

Collect(t) ==
  \/ CollectBegin(t) \/ CollectCheck(t) \/ CollectSample(t)
  \/ CollectDeliver(t) \/ CollectReturn(t) \/ CollectRest(t)

Next ==
  /\ fault = "none"
  /\ App \/ \E t \in Thread : Collect(t) \/ CallbackStop(t)

(* The scheduler runs every thread; when the application calls is its own   *)
(* affair.                                                                  *)
Fairness ==
  /\ WF_vars(fault = "none" /\ AppCall)
  /\ \A t \in Thread : WF_vars(fault = "none" /\ Collect(t))

Spec == Init /\ [][Next]_vars /\ Fairness
-----------------------------------------------------------------------------
(* Properties.                                                              *)

(* The sampling thread never calls a NULL callback and never reads the      *)
(* request after the application, told by stop that its session is over,    *)
(* has freed it.                                                            *)
NoFault == fault = "none"

(* "Ownership follows the handle": a sampling thread that lives is the one  *)
(* the handle names, or the one the start in progress has yet to store, so  *)
(* there is at most one and stop always joins it.                           *)
CollectorOwned ==
  \A t \in Thread : Live(t) => t = handle \/ (t = fresh /\ handle = NoThread)

(* Once stop has returned, or before a start has succeeded, no sampling     *)
(* thread is left.                                                          *)
QuietUnlessStarted == appPc = "idle" /\ ~started => \A t \in Thread : ~Live(t)

(* A sample that was read is never thrown away for want of room: the        *)
(* capacity test of the append cannot fail, whichever samples lack metrics  *)
(* and however early or late a batch is sent.                               *)
BufferNeverFull == \A t \in Thread : pc[t] = "sample" => HasRoom(t)

(* A thread whose flag is cleared ends, even when nobody joins it, unless a *)
(* new start sets the flag again.                                           *)
FlagEndsCollector ==
  \A t \in Thread : (Live(t) /\ ~running) ~> (~Live(t) \/ running \/ fault # "none")

(* qcperf.h of qcperf_disconnect_backend: all active monitoring sessions on *)
(* the backend will be stopped.                                             *)
DisconnectStopsSessions ==
  [][listed /\ ~listed' => \A t \in Thread : ~Live(t)']_vars

(* The backend keeps the promise of CollectorSession, as the application    *)
(* sees it: one session per start, batches of the right size and only while *)
(* it is open, and a stop that ends.                                        *)
Session(t) == IF Live(t) THEN "active" ELSE "dead"

session ==
  IF appPc = "start_store" THEN Session(fresh)
  ELSE IF handle = NoThread THEN "idle"
  ELSE IF appPc \in {"stop_flag", "stop_join", "stop_destroy"} THEN "stopping"
  ELSE Session(handle)

BatchSizes ==
  UNION {1 .. (SamplesPerStream(r) * M) : r \in {q \in Request : ValidateRequest(q) = "SUCCESS"}}

Promise == INSTANCE CollectorSession
KeepsPromise == Promise!SSpec
=============================================================================
