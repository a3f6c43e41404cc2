--------------------------- MODULE SamplerSession ---------------------------
(***************************************************************************)
(* What the sampling backends have in common: one application thread, the  *)
(* flag and the handle by which start and stop know a sampling thread, the *)
(* request the thread reads, the buffer it fills, and the steps in which   *)
(* the backends differ only by what they leave behind.  Each backend is a  *)
(* module that EXTENDS this one; Samplers puts them together.              *)
(*                                                                         *)
(* A batch is abstracted to its length, and time to how long the thread    *)
(* has slept since its last delivery.  Of the return codes only a          *)
(* successful start is remembered (started).                               *)
(*                                                                         *)
(* A definition whose name has an underscore (JoinThread_NoWait) is a      *)
(* wrong variant of the one that follows it, kept to show that the         *)
(* properties tell them apart; no action uses it.                          *)
(***************************************************************************)
EXTENDS Integers, Sequences

CONSTANTS
  Thread,         (* the sampling threads that can exist at once (bound)    *)
  NoThread,       (* the NULL thread handle                                 *)
  Request,        (* the requests the application may make                  *)
  NoRequest,      (* request memory that has been freed                     *)
  SamplingRates,  (* the sampling rates a backend lists                     *)
  StreamingRates, (* the streaming rates it lists                           *)
  StopsFirst,     (* TRUE: the application stops its session before it      *)
                  (* disconnects                                            *)
  AppWaits        (* TRUE: the application waits, before the next start or  *)
                  (* stop, until a thread it started is sampling or gone    *)

ASSUME SamplerAssumption ==
  /\ NoThread \notin Thread
  /\ Request \subseteq [capability : Nat, sampling : Nat, streaming : Nat]
  /\ NoRequest \notin [capability : Nat, sampling : Nat, streaming : Nat]
  /\ SamplingRates \subseteq Nat \ {0}
  /\ StreamingRates \subseteq Nat \ {0}
  /\ StopsFirst \in BOOLEAN /\ AppWaits \in BOOLEAN

VARIABLES
  kind,          (* which backend this is; never changes                    *)
  listed,        (* the backend is connected and holds its capability list  *)
  dataCallback,  (* g_data_callback: "none", "mine" (of this connection) or *)
                 (* "stale" (of an earlier one)                             *)
  offered,       (* the application has called set_data_callback            *)
  provider,      (* the library the thread samples through: "closed",       *)
                 (* "open", or "stuck" (open for the backend, closed below) *)
  appended,      (* how often the rates of a static capability were         *)
                 (* appended to its lists, kept at 2                        *)
  running,       (* g_is_thread_running                                     *)
  handle,        (* g_thread_info.thread_handle                             *)
  request,       (* the application's request, or NoRequest                 *)
  started,       (* start returned SUCCESS and stop has not returned since  *)
  cut,           (* a session was ended by disconnecting (history)          *)
  appPc,         (* where the application is in a call                      *)
  fresh,         (* thread_create's own handle, before it is stored         *)
  pc,            (* where each sampling thread is                           *)
  buf,           (* each thread's locals, see NoBuffer                      *)
  batches,       (* parity of the number of callbacks made                  *)
  batch,         (* metric_response_len of the last one                     *)
  fault          (* what undefined step was taken, if any                   *)

registry == <<kind, listed, dataCallback, offered, provider, appended, cut>>
client == <<request, started, appPc, fresh>>
flag == <<running, handle>>
threads == <<pc, buf>>
sent == <<batches, batch>>
vars == <<registry, client, flag, threads, sent, fault>>

Kind == {"dummy", "linux_cpu", "dsp_npu", "linux_thermal", "wos_cpu", "wos_power", "wos_thermal"}
AppPc == {"idle", "start_create", "start_store", "stop_check", "stop_join", "stop_destroy",
          "close_join", "close"}
Pc == {"none", "begin", "find", "loop", "sample", "deliver", "callback", "rest", "exit", "done"}
Fault == {"none", "list_freed", "request_freed", "provider_closed", "null_call",
          "divide_by_zero"}

(* info: the memory of the backend or of its library the thread points to;  *)
(* quota: samples per batch; room: responses allocated; rate: the streaming *)
(* rate; len, count: responses and samples in the batch; since: ms slept    *)
(* since the last delivery, kept at 2 * rate; said: metric_response_len,    *)
(* where a backend keeps it apart from len.                                 *)
NoBuffer == [info |-> "none", quota |-> 0, room |-> 0, rate |-> 0,
             len |-> 0, count |-> 0, since |-> 0, said |-> 0]
NoBatch == -1
AtMost(n, bound) == IF n < bound THEN n ELSE bound
Live(t) == pc[t] \notin {"none", "done"}

SessionInit ==
  /\ listed = FALSE /\ dataCallback = "none" /\ offered = FALSE
  /\ provider = "closed" /\ appended = 0 /\ cut = FALSE
  /\ running = FALSE /\ handle = NoThread /\ fresh = NoThread
  /\ request = NoRequest /\ started = FALSE /\ appPc = "idle"
  /\ pc = [t \in Thread |-> "none"] /\ buf = [t \in Thread |-> NoBuffer]
  /\ batches = 0 /\ batch = NoBatch
  /\ fault = "none"

Undefined(f) == fault' = f /\ UNCHANGED <<registry, client, flag, threads, sent>>

-----------------------------------------------------------------------------
(* The application between calls: its request memory.  For a thread that is *)
(* left over, memory that was freed stays freed.                            *)

AllocRequest ==
  /\ appPc = "idle" /\ request = NoRequest /\ \A t \in Thread : ~Live(t)
  /\ request' \in Request
  /\ UNCHANGED <<registry, started, appPc, fresh, flag, threads, sent, fault>>

FreeRequest ==
  /\ appPc = "idle" /\ request # NoRequest /\ ~started
  /\ request' = NoRequest
  /\ UNCHANGED <<registry, started, appPc, fresh, flag, threads, sent, fault>>

(* The wait of a careful application, such as the ten seconds the test      *)
(* application sleeps between its start and its stop.                       *)
Settled == \A t \in Thread : Live(t) => pc[t] \notin {"begin", "find"} /\ running
MayCall == appPc = "idle" /\ (AppWaits => Settled)

-----------------------------------------------------------------------------
(* Connecting, the data callback, disconnecting.                            *)

(* An init that may fail at any of its steps.                               *)
Connect(opened) ==
  /\ appPc = "idle" /\ ~listed
  /\ \E ok \in BOOLEAN : listed' = ok /\ provider' = IF ok THEN opened ELSE provider
  /\ UNCHANGED <<kind, dataCallback, offered, appended, cut, client, flag, threads, sent, fault>>

(* A setter refuses a second callback (CALLBACK_ALREADY_SET) or replaces it.*)
Install(refuses) ==
  /\ appPc = "idle" /\ listed
  /\ dataCallback' = IF refuses /\ dataCallback # "none" THEN dataCallback ELSE "mine"
  /\ offered' = TRUE
  /\ UNCHANGED <<kind, listed, provider, appended, cut, client, flag, threads, sent, fault>>

Forgotten == "none"
Kept == IF dataCallback = "none" THEN "none" ELSE "stale"
MayDisconnect == appPc = "idle" /\ listed /\ (StopsFirst => ~started)

(* What every deinit frees: what threads point to is gone.                  *)
Dropped == [t \in Thread |-> IF buf[t].info = "held" THEN [buf[t] EXCEPT !.info = "freed"]
                             ELSE buf[t]]

Disconnect(callback, closed) ==
  /\ MayDisconnect
  /\ listed' = FALSE /\ offered' = FALSE
  /\ dataCallback' = callback /\ provider' = closed
  /\ cut' = (cut \/ started)
  /\ buf' = Dropped
  /\ UNCHANGED <<kind, appended, client, flag, pc, sent, fault>>

-----------------------------------------------------------------------------
(* start and stop, and the calls of utils/qthread they make.                *)

InLists(r) == r.sampling \in SamplingRates /\ r.streaming \in StreamingRates

(* start up to thread_create, when its checks passed.  A start that its     *)
(* checks refuse changes nothing.                                           *)
BeginStart(set, opened) ==
  /\ MayCall /\ listed /\ request # NoRequest
  /\ appPc' = "start_create"
  /\ running' = set /\ provider' = opened
  /\ UNCHANGED <<kind, listed, dataCallback, offered, appended, cut, request, started, fresh, handle,
                 threads, sent, fault>>

(* thread_create: the new thread runs before its handle is stored.  flagged *)
(* and left: the flag and the provider after a failure.                     *)
CreateThread(flagged, left) ==
  /\ appPc = "start_create"
  /\ \/ \E t \in Thread :
          /\ ~Live(t)
          /\ pc' = [pc EXCEPT ![t] = "begin"]
          /\ fresh' = t /\ appPc' = "start_store"
          /\ UNCHANGED <<running, provider>>
     \/ /\ appPc' = "idle" /\ running' = flagged /\ provider' = left
        /\ UNCHANGED <<pc, fresh>>
  /\ UNCHANGED <<kind, listed, dataCallback, offered, appended, cut, request, started, handle, buf,
                 sent, fault>>

(* A handle that was there before is overwritten.                           *)
StoreHandle ==
  /\ appPc = "start_store"
  /\ handle' = fresh /\ fresh' = NoThread
  /\ started' = TRUE /\ appPc' = "idle"
  /\ UNCHANGED <<registry, request, running, threads, sent, fault>>

CallStop ==
  /\ MayCall /\ listed /\ request # NoRequest
  /\ appPc' = "stop_check"
  /\ UNCHANGED <<registry, request, started, fresh, flag, threads, sent, fault>>

(* Only when the flag is set: clear it, and go on to the join.              *)
CheckFlag ==
  /\ appPc = "stop_check"
  /\ IF running
     THEN running' = FALSE /\ appPc' = "stop_join" /\ UNCHANGED started
     ELSE started' = FALSE /\ appPc' = "idle" /\ UNCHANGED running
  /\ UNCHANGED <<registry, request, fresh, handle, threads, sent, fault>>

JoinThread_NoWait(closed) ==
  /\ appPc = "stop_join" /\ handle \in Thread
  /\ appPc' = "stop_destroy"
  /\ UNCHANGED <<registry, request, started, fresh, flag, threads, sent, fault>>

(* The join blocks until the thread has returned; without a handle it fails,*)
(* and stop ends, with what it does to the provider in any case.            *)
JoinThread(closed) ==
  /\ appPc = "stop_join"
  /\ \/ /\ handle \in Thread /\ ~Live(handle)
        /\ appPc' = "stop_destroy"
        /\ UNCHANGED <<started, provider>>
     \/ /\ handle = NoThread
        /\ started' = FALSE /\ appPc' = "idle" /\ provider' = closed
  /\ UNCHANGED <<kind, listed, dataCallback, offered, appended, cut, request, fresh, flag, threads,
                 sent, fault>>

DestroyThread(closed) ==
  /\ appPc = "stop_destroy"
  /\ handle' = NoThread
  /\ started' = FALSE /\ appPc' = "idle" /\ provider' = closed
  /\ UNCHANGED <<kind, listed, dataCallback, offered, appended, cut, request, fresh, running, threads,
                 sent, fault>>

-----------------------------------------------------------------------------
(* The sampling thread.  A thread step moves its own pc and buffer.         *)

Move(t, b, at) == buf' = [buf EXCEPT ![t] = b] /\ pc' = [pc EXCEPT ![t] = at]
Goto(t, b, at) == Move(t, b, at) /\ UNCHANGED <<registry, client, flag, sent, fault>>

Buffer(r, quota, metrics) ==
  [NoBuffer EXCEPT !.quota = quota, !.room = quota * metrics, !.rate = r.streaming]
Ceiling(r) == (r.streaming + r.sampling - 1) \div r.sampling
Filled(b, n) == [b EXCEPT !.len = AtMost(@ + n, b.room), !.count = AtMost(@ + 1, b.quota)]
Emptied(b) == [b EXCEPT !.len = 0, !.count = 0, !.since = 0]
Slept(b, ms) == [b EXCEPT !.since = AtMost(@ + ms, 2 * b.rate)]

(* The flag is the thread's to set in some backends.                        *)
SetFlag(t) ==
  /\ pc[t] = "begin"
  /\ running' = TRUE
  /\ Move(t, buf[t], "find")
  /\ UNCHANGED <<registry, client, handle, sent, fault>>

(* A thread that gives up before its loop, with the flag as it leaves it.   *)
GiveUp(t, set) ==
  /\ running' = set
  /\ Move(t, NoBuffer, "done")
  /\ UNCHANGED <<registry, client, handle, sent, fault>>

(* The clock counts 52 ns for a tick of 52.08 ns, so that a sleep of the    *)
(* streaming rate may seem too short by a little; two of them never do.     *)
(* Everything may take longer than it should.                               *)
Elapsed(b) == IF b.since < 2 * b.rate THEN BOOLEAN ELSE {TRUE}

CountOrTime(b, elapsed) == b.count >= b.quota \/ elapsed

(* After a sample: a batch that is due and can be sent is sent; one that is *)
(* due and cannot be is dropped, as far as the backend drops it.            *)
Judge(t, b, due, sendable, dropped, next) ==
  Goto(t, IF due /\ ~(sendable /\ dataCallback # "none") THEN dropped ELSE b,
          IF due /\ sendable /\ dataCallback # "none" THEN "deliver" ELSE next)

(* The callback is looked up again to be called.                            *)
Deliver(t, length) ==
  /\ pc[t] = "deliver"
  /\ \/ dataCallback = "none" /\ Undefined("null_call")
     \/ /\ dataCallback # "none"
        /\ batches' = 1 - batches /\ batch' = length
        /\ Move(t, buf[t], "callback")
        /\ UNCHANGED <<registry, client, flag, fault>>

(* The sleep, of a rate that is read from the request at that moment.       *)
Sleep(t, ms, at) ==
  \/ request = NoRequest /\ Undefined("request_freed")
  \/ request # NoRequest /\ Goto(t, Slept(buf[t], ms), at)

(* The flag again, then the sleep.                                          *)
SleepIfRunning(t, ms, at) == IF running THEN Sleep(t, ms, at) ELSE Goto(t, buf[t], at)
=============================================================================
