------------------------ MODULE SamplersSteps_proofs ------------------------
(***************************************************************************)
(* What a step of a sampling backend is, whichever of the seven it is of.  *)
(* Each backend instantiates SamplerSession for itself, so that its        *)
(* actions are made of its own copies of the operators there; here they    *)
(* are shown to be the calls (AppStep) and the thread steps (ThreadStep)   *)
(* of one common machine, which Samplers_proofs reasons about.             *)
(***************************************************************************)
EXTENDS Samplers, TLAPS

-----------------------------------------------------------------------------
(* The calls of the application, as the seven backends make them: the same  *)
(* operators of SamplerSession, with the arguments their kind gives them.   *)
Late == kind \notin EagerFlag

Connecting ==
  /\ appPc = "idle" /\ ~listed /\ listed' \in BOOLEAN /\ appended' \in 0 .. 2
  /\ provider' \in {"closed", "open", provider}
  /\ kind = "wos_cpu" => provider' = provider
  /\ kind = "dsp_npu" /\ listed' => provider' = "open"
  /\ kind = "wos_thermal" => provider # "stuck"
  /\ UNCHANGED <<kind, dataCallback, offered, cut, client, flag, threads, sent, fault>>

Installing == \E refuses \in BOOLEAN : Install(refuses) /\ (kind = "wos_power" => ~refuses)

Disconnecting ==
  \E callback \in {Forgotten, Kept}, closed \in {"closed", provider} :
    /\ Disconnect(callback, closed)
    /\ kind # "wos_thermal"
    /\ kind \in {"dummy", "dsp_npu"} => callback = Kept
    /\ kind \in {"linux_cpu", "linux_thermal", "wos_cpu"} => callback = Forgotten
    /\ kind = "wos_cpu" => closed = provider

Starting ==
  /\ request # NoRequest /\ dataCallback # "none" /\ ~running
  /\ \/ Late /\ request.sampling > 0 /\ BeginStart(running, provider)
     \/ ~Late /\ \E opened \in {"open", "closed"} : BeginStart(TRUE, opened)

Creating ==
  \/ Late /\ CreateThread(running, provider)
  \/ ~Late /\ CreateThread(FALSE, IF kind = "wos_cpu" THEN "closed" ELSE provider)

Joining == JoinThread(IF Late THEN provider ELSE "closed")
Destroying == DestroyThread(IF Late THEN provider ELSE "closed")
Closing == kind = "wos_thermal" /\ (WosThermal!Deinit \/ WosThermal!DeinitJoin \/
  WosThermal!DeinitClose)

AppStep ==
  \/ AllocRequest \/ FreeRequest \/ Connecting \/ Installing \/ Disconnecting
  \/ Starting \/ Creating \/ StoreHandle
  \/ CallStop \/ CheckFlag \/ Joining \/ Destroying \/ Closing

-----------------------------------------------------------------------------
(* A sampling thread, whatever its kind: what it takes from its buffer, and *)
(* what it does to what it shares with the application.                     *)

Buffers == [info : {"none", "held", "freed"}, quota : Nat, room : Nat, rate : Nat,
            len : Nat, count : Nat, since : Nat, said : Nat]

Most(m, r) == m * IF r.sampling = 0 THEN 1 ELSE Ceiling(r)

(* A buffer that is used at a point of the thread: m metrics in a sample.   *)
Filling(m, b, at) ==
  /\ b.len <= b.room /\ b.said <= b.room /\ b.count <= b.quota /\ b.since <= 2 * b.rate
  /\ b.room \in {0, b.quota * m}
  /\ at \in {"none", "begin", "find", "done"} =>
       b.info = "none" /\ b.len = 0 /\ b.count = 0 /\ b.since = 0
  /\ at \in {"none", "begin", "done"} => b.quota = 0
  /\ at \in {"loop", "sample", "rest"} /\ b.room > 0 =>
       b.len = 0 \/ ((kind # "linux_cpu" => b.len <= b.count * m) /\ b.count < b.quota)
  /\ at = "deliver" /\ kind # "wos_thermal" => b.len > 0
  /\ b.quota > 0 => \E r \in Requests : b.quota * m <= Most(m, r)

(* What a step that is undefined found.                                     *)
Cause(t, f) ==
  \/ f = "request_freed" /\ request = NoRequest
  \/ f = "list_freed" /\ (~listed \/ buf[t].info = "freed")
  \/ f = "provider_closed" /\ (buf[t].info = "freed" \/
       (kind = "dsp_npu" /\ provider = "closed"))
  \/ f = "null_call" /\ dataCallback = "none"
  \/ f = "divide_by_zero" /\ kind = "wos_cpu" /\ request # NoRequest /\ request.streaming = 0

Falling(t) == \E f \in Fault : Cause(t, f) /\ Undefined(f)

(* How the buffer of a thread changes between the points of its loop, where *)
(* a sample counts whatever it brought (not in wos-thermal).                *)
After == IF kind = "linux_cpu" THEN "loop" ELSE "rest"
Before == IF kind = "linux_cpu" THEN "rest" ELSE "sample"
Awake == IF kind = "linux_cpu" THEN "sample" ELSE "loop"
Opened(b, r) ==
  /\ b.len = 0 /\ b.count = 0 /\ b.since = 0 /\ b.rate = r.streaming
  /\ b.quota * r.sampling <= b.rate + r.sampling
Sampled(a, b, at) ==
  /\ b.quota = a.quota /\ b.rate = a.rate
  /\ \/ at = "deliver" /\ b.since = a.since
     \/ at = After /\ b.len = 0 /\ b.since = 0
     \/ at = After /\ b.count = a.count + 1 /\ b.count < b.quota /\ b.since = a.since
Change(t, b, at) ==
  \/ at \in {"find", "exit", "done"} \/ kind = "wos_thermal"
  \/ pc[t] \in {"begin", "find"} /\ at \in {"loop", "rest"} /\ request' # NoRequest /\
       Opened(b, request')
  \/ pc[t] = "loop" /\ at = Before /\ running /\ b = buf[t]
  \/ pc[t] = "rest" /\ at = "loop" /\ kind # "linux_cpu" /\ ~running /\ b = buf[t]
  \/ /\ pc[t] = "rest" /\ at = Awake /\ request # NoRequest
     /\ b = Slept(buf[t], IF kind = "dummy" THEN request.streaming ELSE request.sampling)
  \/ pc[t] = "sample" /\ Sampled(buf[t], b, at)
  \/ pc[t] = "deliver" /\ at = "callback" /\ b = buf[t]
  \/ pc[t] = "callback" /\ at = After /\ b = Emptied(buf[t])

Moving(t, b, at) ==
  /\ Move(t, b, at) /\ at \notin {"none", "begin"} /\ Change(t, b, at)
  /\ at = "find" => Late /\ pc[t] = "begin"
  /\ Filling(MetricsOf, b, at) /\ (b.info = "freed" => buf[t].info = "freed")
  /\ running' = running \/ (Late /\ pc[t] = "begin" /\ running' = TRUE)
       \/ (Late /\ running' = FALSE /\ (pc[t] = "find" \/ at = "done"))
  /\ request' = request \/ (~Late /\ pc[t] = "begin" /\ request # NoRequest /\
       request' = WosCpu!Mended(request))
  /\ pc[t] = "deliver" => at = "callback"
  /\ IF pc[t] = "deliver" THEN batches' = 1 - batches /\
       batch' = IF kind = "wos_thermal" THEN buf[t].said ELSE buf[t].len
                          ELSE UNCHANGED sent
  /\ UNCHANGED <<registry, started, appPc, fresh, handle, fault>>

ThreadStep(t) ==
  /\ Live(t)
  /\ Falling(t) \/ \E b \in Buffers, at \in Pc : Moving(t, b, at)

-----------------------------------------------------------------------------
(* What a step can rely on: buffers fit their threads, and the checks that   *)
(* start made still hold.                                                    *)

InUse == appPc \in {"start_create", "start_store"} \/ \E t \in Thread : Live(t)

BufferInv == buf \in [Thread -> Buffers] /\ \A t \in Thread : Filling(MetricsOf, buf[t], pc[t])

(* What start has checked holds as long as the thread can read it.          *)
CheckedInv ==
  InUse => /\ Late /\ request # NoRequest => request.sampling > 0
           /\ kind \in {"dummy", "dsp_npu"} => dataCallback # "none"

-----------------------------------------------------------------------------
USE DEF registry, client, flag, threads, sent,
        Dummy!registry, Dummy!client, Dummy!flag, Dummy!threads, Dummy!sent,
        LinuxCpu!registry, LinuxCpu!client, LinuxCpu!flag, LinuxCpu!threads, LinuxCpu!sent,
        DspNpu!registry, DspNpu!client, DspNpu!flag, DspNpu!threads, DspNpu!sent,
        LinuxThermal!registry, LinuxThermal!client, LinuxThermal!flag, LinuxThermal!threads,
          LinuxThermal!sent,
        WosCpu!registry, WosCpu!client, WosCpu!flag, WosCpu!threads, WosCpu!sent,
        WosPower!registry, WosPower!client, WosPower!flag, WosPower!threads, WosPower!sent,
        WosThermal!registry, WosThermal!client, WosThermal!flag, WosThermal!threads,
          WosThermal!sent

(* The requests a thread may read: the application's, and those a thread    *)
(* mended.                                                                  *)
LEMMA RequestTypes ==
  /\ \A r \in Requests : r.sampling \in Nat /\ r.streaming \in Nat
  /\ \A r \in Requests : WosCpu!Mended(r) \in Requests
BY SamplerAssumption DEF Requests, WosCpu!Mended

(* No request is taken for memory that was freed.                           *)
LEMMA RequestKnown == \A r \in Requests : r # NoRequest /\ WosCpu!Mended(r) # NoRequest
<1>1. Requests \subseteq [capability : Nat, sampling : Nat, streaming : Nat]
  BY SamplerAssumption DEF Requests, WosCpu!Mended
<1> QED
  BY <1>1, SamplerAssumption, RequestTypes

(* A sample has two responses, and the dummy's five.                        *)
LEMMA MetricsAre == kind \in Kind => MetricsOf \in {2, 5} /\ (kind = "dummy" <=> MetricsOf = 5)
<1>1. Dummy!MetricCount = 5
  <2>1. Dummy!Matching(0) = {1, 2}
    BY DEF Dummy!Matching, Dummy!Capabilities
  <2>2. Dummy!Found(0) = 1
    BY <2>1 DEF Dummy!Found
  <2> QED
    BY <2>2 DEF Dummy!MetricCount, Dummy!Capabilities
<1> QED
  BY <1>1 DEF MetricsOf, Kind, LinuxCpu!Metrics, DspNpu!Metrics, LinuxThermal!Metrics,
       WosCpu!Metrics, WosPower!Metrics, WosThermal!Metrics

(* The updates of a thread's buffer are buffers.                            *)
LEMMA BufferFields ==
  ASSUME NEW b \in Buffers, NEW l \in Nat, NEW c \in Nat, NEW s \in Nat
  PROVE  /\ [b EXCEPT !.len = l, !.count = c, !.since = s] \in Buffers
         /\ [b EXCEPT !.len = l, !.count = c] \in Buffers
         /\ [b EXCEPT !.count = c, !.since = s] \in Buffers
         /\ [b EXCEPT !.since = s] \in Buffers
BY DEF Buffers

(* So are what the helpers of SamplerSession return.                        *)
LEMMA BufferOps ==
  ASSUME NEW b \in Buffers, NEW n \in Nat
  PROVE  /\ Filled(b, n) \in Buffers /\ Emptied(b) \in Buffers /\ Slept(b, n) \in Buffers
         /\ NoBuffer \in Buffers /\ NoBuffer.info = "none"
         /\ Filled(b, n).info = b.info /\ Emptied(b).info = b.info /\ Slept(b, n).info = b.info
<1>1. /\ b.len \in Nat /\ b.room \in Nat /\ b.count \in Nat /\ b.quota \in Nat
      /\ b.since \in Nat /\ b.rate \in Nat
  BY DEF Buffers
<1>2. /\ AtMost(b.len + n, b.room) \in Nat /\ AtMost(b.count + 1, b.quota) \in Nat
      /\ AtMost(b.since + n, 2 * b.rate) \in Nat
  BY <1>1 DEF AtMost
<1>3. NoBuffer \in Buffers /\ NoBuffer.info = "none"
  BY DEF NoBuffer, Buffers
<1>4. Filled(b, n).info = b.info /\ Emptied(b).info = b.info /\ Slept(b, n).info = b.info
  BY DEF Filled, Emptied, Slept, Buffers
<1> QED
  BY <1>2, <1>3, <1>4, BufferFields DEF Filled, Emptied, Slept

(* A sample leaves the buffer fit for each of the places a thread may go    *)
(* with it: when the batch is sent, kept or dropped.                        *)
LEMMA SampleFills ==
  ASSUME NEW m \in {2, 5}, NEW b \in Buffers, NEW n \in Nat, Filling(m, b, "sample"),
         n <= m \/ kind = "linux_cpu", NEW at \in {"loop", "rest"}
  PROVE  /\ Filled(b, n).len > 0 => Filling(m, Filled(b, n), "deliver")
         /\ Filled(b, n).count < Filled(b, n).quota => Filling(m, Filled(b, n), at)
         /\ Filled(b, n).len = 0 =>
              Filling(m, [Filled(b, n) EXCEPT !.count = 0, !.since = 0], at)
         /\ Filled(b, n).len = 0 => Filling(m, [Filled(b, n) EXCEPT !.since = 0], at)
         /\ Filling(m, Emptied(Filled(b, n)), at)
<1> DEFINE q == b.quota * m
           c == Filled(b, n)
<1>1. q \in Nat /\ (m = 2 => q = b.quota * 2) /\ (m = 5 => q = b.quota * 5)
  BY DEF Buffers
<1>2. c = [b EXCEPT !.len = AtMost(@ + n, b.room), !.count = AtMost(@ + 1, b.quota)]
  BY DEF Filled
<1>3. /\ c \in Buffers /\ c.room = b.room /\ c.quota = b.quota /\ c.rate = b.rate
      /\ c.since = b.since /\ c.said = b.said
      /\ c.len = AtMost(b.len + n, b.room) /\ c.count = AtMost(b.count + 1, b.quota)
  <2>1. c \in Buffers
    BY BufferOps
  <2> QED
    BY <1>2, <2>1 DEF Buffers
<1>4. QED
  BY <1>1, <1>3 DEF Filling, Buffers, Emptied, AtMost

(* The arithmetic of the two ways of counting the samples of a batch.       *)
LEMMA Rounding ==
  ASSUME NEW s \in Nat, NEW p \in Nat \ {0}
  PROVE  /\ (s + p - 1) \div p \in Nat /\ ((s + p - 1) \div p) * p <= s + p
         /\ s \div p \in Nat /\ (s \div p) * p <= s
         /\ s \div p <= (s + p - 1) \div p /\ (s > 0 => 1 <= (s + p - 1) \div p)
OBVIOUS

(* Products with the number of metrics are ordered as their factors are.    *)
LEMMA Multiples == \A m, a, b \in Nat : a <= b => a * m <= m * b
OBVIOUS

(* Both ways are at most what the request calls for.                        *)
LEMMA Quotas ==
  ASSUME NEW r \in Requests, NEW m \in {2, 5}, r.sampling > 0
  PROVE  /\ Ceiling(r) \in Nat /\ Ceiling(r) * m <= Most(m, r)
         /\ r.streaming \div r.sampling \in Nat
         /\ (r.streaming \div r.sampling) * m <= Most(m, r)
<1>1. r.streaming \in Nat /\ r.sampling \in Nat \ {0}
  BY RequestTypes
<1>2. /\ Ceiling(r) \in Nat /\ r.streaming \div r.sampling \in Nat
      /\ r.streaming \div r.sampling <= Ceiling(r)
  BY <1>1, Rounding DEF Ceiling
<1>3. Most(m, r) = m * Ceiling(r)
  BY <1>1 DEF Most
<1> QED
  BY <1>2, <1>3, Multiples

(* A new buffer, with or without room, is empty and fits its request.       *)
LEMMA BufferMade ==
  ASSUME NEW r \in Requests, NEW m \in {2, 5}, NEW quota \in Nat, NEW each \in {0, m},
         quota > 0 => \E x \in Requests : quota * m <= Most(m, x)
  PROVE  LET b == Buffer(r, quota, each) IN
         /\ b \in Buffers /\ [b EXCEPT !.info = "held"] \in Buffers
         /\ b.info = "none" /\ [b EXCEPT !.info = "held"].info = "held"
         /\ \A at \in {"find", "loop", "rest"} : Filling(m, b, at)
         /\ Filling(m, [b EXCEPT !.info = "held"], "loop")
<1> DEFINE b == Buffer(r, quota, each)
<1>1. quota * each \in Nat /\ r.streaming \in Nat
      /\ (quota * each = 0 \/ quota * each = quota * m)
  BY RequestTypes
<1>2. /\ b.info = "none" /\ b.quota = quota /\ b.room = quota * each /\ b.rate = r.streaming
      /\ b.len = 0 /\ b.count = 0 /\ b.since = 0 /\ b.said = 0
      /\ b \in Buffers /\ [b EXCEPT !.info = "held"] \in Buffers
  <2>1. NoBuffer \in Buffers
    BY DEF NoBuffer, Buffers
  <2> QED
    BY <1>1, <2>1 DEF Buffer, NoBuffer, Buffers
<1>3. quota * each > 0 => quota > 0 /\ quota * each = quota * m
  BY <1>1
<1> QED
  BY <1>1, <1>2, <1>3 DEF Buffers, Filling

(* The same for the backends with two responses per sample.                 *)
LEMMA TwoMetrics ==
  ASSUME NEW r \in Requests, NEW quota \in Nat, NEW each \in {0, 2},
         quota > 0 => \E x \in Requests : quota * 2 <= Most(2, x)
  PROVE  /\ Buffer(r, quota, each) \in Buffers /\ Buffer(r, quota, each).info = "none"
         /\ \A at \in {"find", "loop", "rest"} : Filling(2, Buffer(r, quota, each), at)
<1> DEFINE b == Buffer(r, quota, each)
<1>1. quota * each \in Nat /\ r.streaming \in Nat
      /\ (quota * each = 0 \/ quota * each = quota * 2)
  BY RequestTypes
<1>2. /\ b.info = "none" /\ b.quota = quota /\ b.room = quota * each /\ b.rate = r.streaming
      /\ b.len = 0 /\ b.count = 0 /\ b.since = 0 /\ b.said = 0 /\ b \in Buffers
  <2>1. NoBuffer \in Buffers
    BY DEF NoBuffer, Buffers
  <2> QED
    BY <1>1, <2>1 DEF Buffer, NoBuffer, Buffers
<1> QED
  BY <1>1, <1>2 DEF Buffers, Filling

(* The clock of a new buffer: its samples fit into its streaming period.    *)
LEMMA OpenedRounded ==
  ASSUME NEW r \in Requests, r.sampling > 0, NEW each \in Nat
  PROVE  LET b == Buffer(r, Ceiling(r), each) IN
         Opened(b, r) /\ Opened([b EXCEPT !.info = "held"], r)
<1> DEFINE b == Buffer(r, Ceiling(r), each)
<1>1. r.streaming \in Nat /\ r.sampling \in Nat \ {0}
  BY RequestTypes
<1>2. Ceiling(r) * r.sampling <= r.streaming + r.sampling
  BY <1>1, Rounding DEF Ceiling
<1>3. /\ b.quota = Ceiling(r) /\ b.rate = r.streaming /\ b.len = 0 /\ b.count = 0 /\ b.since = 0
      /\ [b EXCEPT !.info = "held"].quota = Ceiling(r)
      /\ [b EXCEPT !.info = "held"].rate = r.streaming
      /\ [b EXCEPT !.info = "held"].len = 0 /\ [b EXCEPT !.info = "held"].count = 0
      /\ [b EXCEPT !.info = "held"].since = 0
  BY DEF Buffer, NoBuffer
<1> QED
  BY <1>2, <1>3 DEF Opened

(* So it is when the quota is rounded down, or one.                         *)
LEMMA OpenedFloored ==
  ASSUME NEW r \in Requests, NEW quota \in Nat, NEW each \in Nat,
         \/ r.sampling > 0 /\ quota = r.streaming \div r.sampling
         \/ quota = 1 /\ r.sampling = r.streaming
  PROVE  Opened(Buffer(r, quota, each), r)
<1> DEFINE b == Buffer(r, quota, each)
<1>1. r.streaming \in Nat /\ r.sampling \in Nat
  BY RequestTypes
<1>2. quota * r.sampling <= r.streaming + r.sampling
  <2>1. CASE r.sampling > 0 /\ quota = r.streaming \div r.sampling
    <3>1. (r.streaming \div r.sampling) * r.sampling <= r.streaming
      <4>1. r.sampling \in Nat \ {0}
        BY <1>1, <2>1
      <4> QED
        BY ONLY <1>1, <4>1, Rounding
    <3>2. quota * r.sampling <= r.streaming
      BY <2>1, <3>1
    <3>3. quota * r.sampling \in Nat
      BY <1>1
    <3> QED
      BY <1>1, <3>2, <3>3
  <2>2. CASE quota = 1 /\ r.sampling = r.streaming
    BY <1>1, <2>2
  <2> QED
    BY <2>1, <2>2
<1>3. b.quota = quota /\ b.rate = r.streaming /\ b.len = 0 /\ b.count = 0 /\ b.since = 0
  BY DEF Buffer, NoBuffer
<1> QED
  BY <1>2, <1>3 DEF Opened

(* A sample of linux-thermal, with the pointer its library hands out.       *)
LEMMA SampleInfo ==
  ASSUME NEW m \in {2, 5}, NEW b \in Buffers, NEW n \in 0 .. m, Filling(m, b, "sample"),
         NEW i \in {"none", "held", "freed"}
  PROVE  LET c == [Filled(b, n) EXCEPT !.info = i] IN
         /\ c.len > 0 => Filling(m, c, "deliver")
         /\ c.count < c.quota => Filling(m, c, "rest")
         /\ Filling(m, Emptied(c), "rest")
<1> DEFINE f == Filled(b, n)
           c == [f EXCEPT !.info = i]
<1>1. f \in Buffers
  BY BufferOps
<1>2. /\ c.quota = f.quota /\ c.room = f.room /\ c.rate = f.rate /\ c.len = f.len
      /\ c.count = f.count /\ c.since = f.since /\ c.said = f.said
  BY <1>1 DEF Buffers
<1>3. /\ f.len > 0 => Filling(m, f, "deliver")
      /\ f.count < f.quota => Filling(m, f, "rest")
      /\ Filling(m, Emptied(f), "rest")
  <2>1. n \in Nat /\ n <= m
    OBVIOUS
  <2> QED
    BY <2>1, SampleFills
<1>4. /\ Emptied(c).quota = f.quota /\ Emptied(c).room = f.room /\ Emptied(c).rate = f.rate
      /\ Emptied(c).len = 0 /\ Emptied(c).count = 0 /\ Emptied(c).since = 0
      /\ Emptied(c).said = f.said
      /\ Emptied(f).quota = f.quota /\ Emptied(f).room = f.room /\ Emptied(f).rate = f.rate
      /\ Emptied(f).said = f.said
  BY <1>1 DEF Buffers, Emptied
<1>5. /\ c.len > 0 => Filling(m, c, "deliver")
      /\ c.count < c.quota => Filling(m, c, "rest")
  <2> HIDE DEF f, c
  <2> QED
    BY <1>2, <1>3 DEF Filling
<1>6. Filling(m, Emptied(c), "rest")
  <2> HIDE DEF f, c
  <2> QED
    BY <1>1, <1>2, <1>3, <1>4 DEF Filling, Buffers
<1> QED
  BY <1>5, <1>6

(* A sample of wos-thermal, which keeps the length it will report apart.    *)
LEMMA SampleSaid ==
  ASSUME NEW b \in Buffers, NEW n \in 0 .. 2, Filling(2, b, "sample"), kind = "wos_thermal"
  PROVE  LET f == Filled(b, n)
             c == [f EXCEPT !.said = f.len] IN
         /\ c \in Buffers /\ c.info = b.info /\ Emptied(c).info = b.info
         /\ Filling(2, c, "deliver")
         /\ c.count < c.quota => Filling(2, c, "rest")
         /\ Emptied(c) \in Buffers /\ Filling(2, Emptied(c), "rest")
<1> DEFINE f == Filled(b, n)
           c == [f EXCEPT !.said = f.len]
<1>1. f \in Buffers
  BY BufferOps
<1>2. /\ c.quota = f.quota /\ c.room = f.room /\ c.rate = f.rate /\ c.len = f.len
      /\ c.count = f.count /\ c.since = f.since /\ c.said = f.len /\ c \in Buffers
      /\ c.info = b.info
  BY <1>1, BufferOps DEF Buffers
<1>3. /\ f.count < f.quota => Filling(2, f, "rest")
      /\ Filling(2, Emptied(f), "rest")
      /\ f.len <= f.room /\ f.count <= f.quota
  <2>1. f.len = AtMost(b.len + n, b.room) /\ f.room = b.room /\
          f.count = AtMost(b.count + 1, b.quota) /\ f.quota = b.quota
    BY DEF Filled, Buffers
  <2>2. b.len \in Nat /\ b.room \in Nat /\ b.count \in Nat /\ b.quota \in Nat
    BY DEF Buffers
  <2>3. f.len <= f.room /\ f.count <= f.quota
    BY <2>1, <2>2 DEF AtMost
  <2> QED
    <3>1. n \in Nat /\ n <= 2
      OBVIOUS
    <3> QED
      BY <2>3, <3>1, SampleFills
<1>4. /\ Emptied(c).quota = f.quota /\ Emptied(c).room = f.room /\ Emptied(c).rate = f.rate
      /\ Emptied(c).len = 0 /\ Emptied(c).count = 0 /\ Emptied(c).since = 0
      /\ Emptied(c).said = f.len
      /\ Emptied(f).quota = f.quota /\ Emptied(f).room = f.room /\ Emptied(f).rate = f.rate
      /\ Emptied(c) \in Buffers /\ Emptied(c).info = b.info
  BY <1>1, <1>2 DEF Buffers, Emptied
<1>5. f.quota = b.quota /\ f.since = b.since /\ f.rate = b.rate /\ f.room = b.room
  BY DEF Filled, Buffers
<1>6. Filling(2, c, "deliver")
  <2> HIDE DEF f, c
  <2> QED
    BY <1>1, <1>2, <1>3, <1>5 DEF Filling, Buffers
<1>7. c.count < c.quota => Filling(2, c, "rest")
  <2> HIDE DEF f, c
  <2> QED
    BY <1>1, <1>2, <1>3 DEF Filling, Buffers
<1>8. Filling(2, Emptied(c), "rest")
  <2> HIDE DEF f, c
  <2> QED
    BY <1>1, <1>2, <1>3, <1>4 DEF Filling, Buffers
<1> QED
  BY <1>2, <1>4, <1>6, <1>7, <1>8

(* What wos-cpu and wos-power make of a request whose rates do not fit.     *)
LEMMA Mending ==
  /\ \A r : WosPower!Mended(r) = WosCpu!Mended(r)
  /\ \A r \in Requests : /\ WosCpu!Mended(r) \in Requests
                         /\ WosCpu!Mended(r).streaming = r.streaming
                         /\ WosCpu!Mended(r).sampling = 0 <=> r.streaming = 0
                         /\ WosCpu!Mended(r).sampling <= r.streaming
                         /\ ~WosPower!Unusable(r) => WosCpu!Mended(r) = r
                         /\ WosPower!Unusable(r) => WosCpu!Mended(r).sampling = r.streaming
<1>1. \A r : WosPower!Mended(r) = WosCpu!Mended(r)
  BY DEF WosCpu!Mended, WosPower!Mended, WosPower!Unusable
<1>2. ASSUME NEW r \in Requests
      PROVE  /\ WosCpu!Mended(r).streaming = r.streaming
             /\ WosCpu!Mended(r).sampling = 0 <=> r.streaming = 0
             /\ WosCpu!Mended(r).sampling <= r.streaming
             /\ ~WosPower!Unusable(r) => WosCpu!Mended(r) = r
             /\ WosPower!Unusable(r) => WosCpu!Mended(r).sampling = r.streaming
  <2>1. r \in [capability : Nat, sampling : Nat, streaming : Nat]
    BY SamplerAssumption DEF Requests, WosCpu!Mended
  <2>2. CASE WosPower!Unusable(r)
    <3>1. WosCpu!Mended(r) = [r EXCEPT !.sampling = r.streaming]
      BY <2>2 DEF WosCpu!Mended, WosPower!Unusable
    <3> QED
      BY <2>1, <2>2, <3>1
  <2>3. CASE ~WosPower!Unusable(r)
    <3>1. WosCpu!Mended(r) = r
      BY <2>3 DEF WosCpu!Mended, WosPower!Unusable
    <3> QED
      BY <2>1, <2>3, <3>1 DEF WosPower!Unusable
  <2> QED
    BY <2>2, <2>3
<1> QED
  BY <1>1, <1>2, RequestTypes

(* A buffer that is fit for one point of the thread is fit for the next.    *)
LEMMA FillingMoves ==
  ASSUME NEW m \in {2, 5}, NEW b \in Buffers
  PROVE  /\ \A x, y \in {"loop", "sample", "rest"} : Filling(m, b, x) => Filling(m, b, y)
         /\ \A x \in Pc : Filling(m, b, x) => Filling(m, b, "exit")
         /\ Filling(m, b, "begin") => Filling(m, b, "find")
         /\ Filling(m, b, "find") => Filling(m, b, "loop")
         /\ Filling(m, b, "deliver") => Filling(m, b, "callback")
         /\ Filling(m, b, "callback") => Filling(m, Emptied(b), "loop") /\
              Filling(m, Emptied(b), "rest")
         /\ \A n \in Nat : Filling(m, b, "rest") => Filling(m, Slept(b, n), "loop") /\
                 Filling(m, Slept(b, n), "sample")
         /\ Filling(m, NoBuffer, "done") /\ Filling(m, NoBuffer, "exit")
         /\ Filling(m, NoBuffer, "find")
<1> DEFINE q == b.quota * m
<1>1. q \in Nat /\ (m = 2 => q = b.quota * 2) /\ (m = 5 => q = b.quota * 5)
  BY DEF Buffers
<1>2. \A x, y \in {"loop", "sample", "rest"} : Filling(m, b, x) => Filling(m, b, y)
  BY <1>1 DEF Filling
<1>3. \A x \in Pc : Filling(m, b, x) => Filling(m, b, "exit")
  BY <1>1 DEF Filling
<1>4. Filling(m, b, "begin") => Filling(m, b, "find")
  BY <1>1 DEF Filling
<1>9. Filling(m, b, "find") => Filling(m, b, "loop")
  BY <1>1 DEF Filling
<1>5. Filling(m, b, "deliver") => Filling(m, b, "callback")
  BY <1>1 DEF Filling
<1>6. Filling(m, b, "callback") => Filling(m, Emptied(b), "loop") /\
        Filling(m, Emptied(b), "rest")
  BY <1>1 DEF Filling, Emptied, Buffers
<1>7. ASSUME NEW n \in Nat, Filling(m, b, "rest")
      PROVE  Filling(m, Slept(b, n), "loop") /\ Filling(m, Slept(b, n), "sample")
  <2>1. /\ Slept(b, n) = [b EXCEPT !.since = AtMost(b.since + n, 2 * b.rate)]
        /\ AtMost(b.since + n, 2 * b.rate) \in Nat
        /\ AtMost(b.since + n, 2 * b.rate) <= 2 * b.rate
    BY DEF Buffers, Slept, AtMost
  <2> QED
    BY <1>1, <1>7, <2>1 DEF Filling, Buffers
<1>8. Filling(m, NoBuffer, "done") /\ Filling(m, NoBuffer, "exit") /\
        Filling(m, NoBuffer, "find")
  BY DEF Filling, NoBuffer
<1> QED
  BY <1>2, <1>3, <1>4, <1>5, <1>6, <1>7, <1>8, <1>9

-----------------------------------------------------------------------------
(* The steps that threads of several kinds take.                            *)

Ready(t) == /\ TypeOK /\ BufferInv /\ CheckedInv /\ fault = "none" /\ t \in Thread /\ Live(t)

(* A step that only moves the thread.                                       *)
LEMMA GotoStep ==
  ASSUME NEW t, Ready(t), NEW b \in Buffers, NEW at \in Pc \ {"none", "begin", "find"},
         Filling(MetricsOf, b, at), b.info = "freed" => buf[t].info = "freed",
           pc[t] # "deliver", Goto(t, b, at),
         Change(t, b, at)
  PROVE  ThreadStep(t)
BY DEF Ready, ThreadStep, Moving, Goto, Move

(* A thread that returns, its buffers freed.                                *)
LEMMA QuitStep ==
  ASSUME NEW t, Ready(t), pc[t] # "deliver", Move(t, NoBuffer, "done"),
         running' = running \/ (Late /\ running' = FALSE),
         UNCHANGED <<registry, client, handle, sent, fault>>
  PROVE  ThreadStep(t)
<1>1. NoBuffer \in Buffers /\ NoBuffer.info = "none" /\ Filling(MetricsOf, NoBuffer, "done")
  BY BufferOps, FillingMoves, MetricsAre DEF Ready, TypeOK, BufferInv
<1> QED
  BY <1>1 DEF Ready, ThreadStep, Moving, Move, Pc, Change

(* The thread sets the flag.                                                *)
LEMMA BeginStep ==
  ASSUME NEW t, Ready(t), Late, SetFlag(t)
  PROVE  ThreadStep(t)
<1>1. buf[t] \in Buffers /\ Filling(MetricsOf, buf[t], "begin")
  BY DEF Ready, BufferInv, SetFlag
<1>2. Filling(MetricsOf, buf[t], "find")
  BY <1>1, FillingMoves, MetricsAre DEF Ready, TypeOK
<1> QED
  BY <1>1, <1>2 DEF Ready, ThreadStep, Moving, SetFlag, Pc, Change

(* The callback, or the call of a NULL one.                                 *)
LEMMA DeliverStep ==
  ASSUME NEW t, Ready(t), NEW n, Deliver(t, n),
         n = IF kind = "wos_thermal" THEN buf[t].said ELSE buf[t].len
  PROVE  ThreadStep(t)
<1>1. CASE dataCallback = "none" /\ Undefined("null_call")
  BY <1>1 DEF ThreadStep, Ready, Falling, Cause, Fault
<1>2. CASE dataCallback # "none"
  <2>1. buf[t] \in Buffers /\ Filling(MetricsOf, buf[t], "callback")
    BY FillingMoves, MetricsAre DEF Ready, TypeOK, BufferInv, Deliver
  <2> QED
    BY <1>2, <2>1 DEF ThreadStep, Ready, Moving, Pc, Deliver, Move, Undefined, Change
<1> QED
  BY <1>1, <1>2 DEF Deliver

(* The sleep, by a rate that is read from the request.                      *)
LEMMA SleepStep ==
  ASSUME NEW t, Ready(t), pc[t] = "rest", NEW ms, request # NoRequest => ms \in Nat,
         ms = IF kind = "dummy" THEN request.streaming ELSE request.sampling,
         NEW at \in {"loop", "sample"}, at = Awake, Sleep(t, ms, at)
  PROVE  ThreadStep(t)
<1>1. CASE request = NoRequest /\ Undefined("request_freed")
  BY <1>1 DEF ThreadStep, Ready, Falling, Cause, Fault
<1>2. CASE request # NoRequest
  <2>1. buf[t] \in Buffers /\ Filling(MetricsOf, buf[t], "rest")
    BY DEF Ready, BufferInv
  <2>2. Slept(buf[t], ms) \in Buffers /\ Slept(buf[t], ms).info = buf[t].info /\
          Filling(MetricsOf, Slept(buf[t], ms), at)
    BY <1>2, <2>1, BufferOps, FillingMoves, MetricsAre DEF Ready, TypeOK
  <2>3. Goto(t, Slept(buf[t], ms), at)
    BY <1>2 DEF Sleep
  <2> QED
    BY <1>2, <2>2, <2>3, GotoStep DEF Pc, Change
<1> QED
  BY <1>1, <1>2 DEF Sleep

(* A look at the flag.                                                      *)
LEMMA CheckStep ==
  ASSUME NEW t, Ready(t), pc[t] \in {"loop", "rest"},
           NEW at \in {"loop", "sample", "rest", "exit"},
         Goto(t, buf[t], at),
         \/ at = "exit"
         \/ pc[t] = "loop" /\ at = Before /\ running
         \/ pc[t] = "rest" /\ at = "loop" /\ kind # "linux_cpu" /\ ~running
  PROVE  ThreadStep(t)
<1>1. buf[t] \in Buffers /\ Filling(MetricsOf, buf[t], at)
  BY FillingMoves, MetricsAre DEF Ready, TypeOK, BufferInv, Pc
<1> QED
  BY <1>1, GotoStep DEF Pc, Change

(* The callback has returned: the batch is empty again.                     *)
LEMMA ReturnStep ==
  ASSUME NEW t, Ready(t), pc[t] = "callback", NEW at \in {"loop", "rest"}, at = After,
         Goto(t, Emptied(buf[t]), at)
  PROVE  ThreadStep(t)
<1>1. Emptied(buf[t]) \in Buffers /\ Emptied(buf[t]).info = buf[t].info /\
        Filling(MetricsOf, Emptied(buf[t]), at)
  BY FillingMoves, BufferOps, MetricsAre DEF Ready, TypeOK, BufferInv
<1> QED
  BY <1>1, GotoStep DEF Pc, Change

(* A sample of n responses, and what is done with the batch.                *)
LEMMA SampleStep ==
  ASSUME NEW t, Ready(t), pc[t] = "sample", NEW n \in Nat,
         n <= MetricsOf \/ kind = "linux_cpu", NEW at \in {"loop", "rest"}, at = After,
         LET b == Filled(buf[t], n) IN
         \/ b.len > 0 /\ Goto(t, b, "deliver")
         \/ b.count < b.quota /\ Goto(t, b, at)
         \/ b.len = 0 /\ Goto(t, [b EXCEPT !.count = 0, !.since = 0], at)
         \/ b.len = 0 /\ Goto(t, [b EXCEPT !.since = 0], at)
         \/ Goto(t, Emptied(b), at)
  PROVE  ThreadStep(t)
<1> DEFINE b == Filled(buf[t], n)
           c == [b EXCEPT !.count = 0, !.since = 0]
           d == [b EXCEPT !.since = 0]
           e == Emptied(b)
<1>1. MetricsOf \in {2, 5} /\ buf[t] \in Buffers /\ Filling(MetricsOf, buf[t], "sample")
  BY MetricsAre DEF Ready, TypeOK, BufferInv
<1>2. b \in Buffers
  BY <1>1, BufferOps
<1>3. c \in Buffers /\ d \in Buffers /\ e \in Buffers
  BY <1>1, <1>2, BufferOps, BufferFields
<1>6. b.info = buf[t].info /\ c.info = buf[t].info /\ d.info = buf[t].info /\
        e.info = buf[t].info
  <2>1. b.info = buf[t].info /\ e.info = b.info
    BY ONLY <1>1, <1>2, n \in Nat, BufferOps
  <2>2. c.info = b.info /\ d.info = b.info
    BY <1>2 DEF Buffers
  <2> QED
    BY <2>1, <2>2
<1>4. /\ b.len > 0 => Filling(MetricsOf, b, "deliver")
      /\ b.count < b.quota => Filling(MetricsOf, b, at)
      /\ b.len = 0 => Filling(MetricsOf, c, at)
      /\ b.len = 0 => Filling(MetricsOf, d, at)
      /\ Filling(MetricsOf, e, at)
  BY ONLY <1>1, SampleFills, n \in Nat, n <= MetricsOf \/ kind = "linux_cpu", at \in
      {"loop", "rest"}
<1>5. \/ b.len > 0 /\ Goto(t, b, "deliver")
      \/ b.count < b.quota /\ Goto(t, b, at)
      \/ b.len = 0 /\ Goto(t, c, at)
      \/ b.len = 0 /\ Goto(t, d, at)
      \/ Goto(t, e, at)
  OBVIOUS
<1>7. /\ Sampled(buf[t], b, "deliver")
      /\ b.count < b.quota => Sampled(buf[t], b, at)
      /\ b.len = 0 => Sampled(buf[t], c, at) /\ Sampled(buf[t], d, at)
      /\ Sampled(buf[t], e, at)
  <2>1. /\ b.quota = buf[t].quota /\ b.rate = buf[t].rate /\ b.since = buf[t].since
        /\ b.room = buf[t].room
        /\ b.len = AtMost(buf[t].len + n, b.room) /\ b.count = AtMost(buf[t].count + 1, b.quota)
    BY <1>1 DEF Filled, Buffers
  <2>2. /\ c.quota = b.quota /\ c.rate = b.rate /\ c.since = 0 /\ c.len = b.len
        /\ d.quota = b.quota /\ d.rate = b.rate /\ d.since = 0 /\ d.len = b.len
        /\ e.quota = b.quota /\ e.rate = b.rate /\ e.since = 0 /\ e.len = 0
    BY <1>2 DEF Buffers, Emptied
  <2>3. /\ buf[t].len \in Nat /\ buf[t].count \in Nat /\ b.room \in Nat /\ b.quota \in Nat
        /\ n \in Nat
    BY <1>1, <1>2 DEF Buffers
  <2> HIDE DEF b, c, d, e
  <2>4. b.count < b.quota => b.count = buf[t].count + 1
    BY <2>1, <2>3 DEF AtMost
  <2> QED
    BY <2>1, <2>2, <2>3, <2>4 DEF Sampled
<1> HIDE DEF b, c, d, e
<1>8. CASE b.len > 0 /\ Goto(t, b, "deliver")
  BY <1>2, <1>4, <1>6, <1>7, <1>8, GotoStep DEF Pc, Change
<1>9. CASE b.count < b.quota /\ Goto(t, b, at)
  BY <1>2, <1>4, <1>6, <1>7, <1>9, GotoStep DEF Pc, Change
<1>10. CASE b.len = 0 /\ (Goto(t, c, at) \/ Goto(t, d, at))
  BY <1>3, <1>4, <1>6, <1>7, <1>10, GotoStep DEF Pc, Change
<1>11. CASE Goto(t, e, at)
  BY <1>3, <1>4, <1>6, <1>7, <1>11, GotoStep DEF Pc, Change
<1> QED
  BY <1>5, <1>8, <1>9, <1>10, <1>11

-----------------------------------------------------------------------------

(* The calls of the application to dummy.                                   *)
LEMMA DummyCall == TypeOK /\ kind = "dummy" /\ Dummy!App => AppStep
<1> SUFFICES ASSUME TypeOK, kind = "dummy", Dummy!App PROVE AppStep
    OBVIOUS
<1> USE DEF AppStep, Dummy!Live, Live
<1>1. CASE Dummy!AllocRequest \/ Dummy!FreeRequest
    BY <1>1 DEF Dummy!AllocRequest, Dummy!FreeRequest, AllocRequest, FreeRequest
<1>2. CASE Dummy!BackendInit
    BY <1>2 DEF TypeOK, Dummy!BackendInit, Dummy!Connect, Connecting
<1>3. CASE Dummy!SetDataCallback
    BY <1>3 DEF Dummy!SetDataCallback, Dummy!Install, Install, Installing
<1>4. CASE Dummy!Free
    BY <1>4
       DEF Dummy!Free, Dummy!Disconnect, Dummy!MayDisconnect, Dummy!Dropped, Dummy!Forgotten,
       Dummy!Kept, Disconnect, MayDisconnect, Dropped, Forgotten, Kept, Disconnecting
<1>5. CASE Dummy!Start
    BY <1>5, SamplerAssumption, RequestTypes
       DEF TypeOK, Late, EagerFlag, Dummy!Start, Dummy!StartCheck, Dummy!BeginStart,
       Dummy!MayCall, Dummy!Settled, BeginStart, MayCall, Settled, Starting,
         Dummy!ValidateRequest, Dummy!InLists
<1>6. CASE Dummy!StartCreate \/ Dummy!StoreHandle
    BY <1>6
       DEF Dummy!StartCreate, Dummy!StoreHandle, Dummy!CreateThread, CreateThread, Creating,
       StoreHandle, Late, EagerFlag
<1>7. CASE Dummy!Stop \/ Dummy!StopCheck
    BY <1>7
       DEF Dummy!Stop, Dummy!StopCheck, Dummy!CallStop, Dummy!CheckFlag, Dummy!MayCall,
       Dummy!Settled, CallStop, CheckFlag, MayCall, Settled
<1>8. CASE Dummy!StopJoin \/ Dummy!StopDestroy
    BY <1>8
       DEF Dummy!StopJoin, Dummy!StopDestroy, Dummy!JoinThread, Dummy!DestroyThread,
       JoinThread, DestroyThread, Joining, Destroying, Late, EagerFlag
<1> QED
  BY <1>1, <1>2, <1>3, <1>4, <1>5, <1>6, <1>7, <1>8 DEF Dummy!App, Dummy!AppCall

(* The calls of the application to linux-cpu.                               *)
LEMMA LinuxCpuCall == TypeOK /\ kind = "linux_cpu" /\ LinuxCpu!App => AppStep
<1> SUFFICES ASSUME TypeOK, kind = "linux_cpu", LinuxCpu!App PROVE AppStep
    OBVIOUS
<1> USE DEF AppStep, LinuxCpu!Live, Live
<1>1. CASE LinuxCpu!AllocRequest \/ LinuxCpu!FreeRequest
    BY <1>1 DEF LinuxCpu!AllocRequest, LinuxCpu!FreeRequest, AllocRequest, FreeRequest
<1>2. CASE LinuxCpu!BackendInit
    BY <1>2 DEF TypeOK, LinuxCpu!BackendInit, LinuxCpu!Connect, Connecting
<1>3. CASE LinuxCpu!SetDataCallback
    BY <1>3 DEF LinuxCpu!SetDataCallback, LinuxCpu!Install, Install, Installing
<1>4. CASE LinuxCpu!Deinit
    BY <1>4
       DEF LinuxCpu!Deinit, LinuxCpu!Disconnect, LinuxCpu!MayDisconnect, LinuxCpu!Dropped,
       LinuxCpu!Forgotten, LinuxCpu!Kept, Disconnect, MayDisconnect, Dropped, Forgotten, Kept,
         Disconnecting
<1>5. CASE LinuxCpu!Start
    BY <1>5, SamplerAssumption, RequestTypes
       DEF TypeOK, Late, EagerFlag, LinuxCpu!Start, LinuxCpu!BeginStart, LinuxCpu!MayCall,
       LinuxCpu!Settled, BeginStart, MayCall, Settled, Starting, LinuxCpu!ValidateRequest,
         LinuxCpu!InLists
<1>6. CASE LinuxCpu!StartCreate \/ LinuxCpu!StoreHandle
    BY <1>6
       DEF LinuxCpu!StartCreate, LinuxCpu!StoreHandle, LinuxCpu!CreateThread, CreateThread,
       Creating, StoreHandle, Late, EagerFlag
<1>7. CASE LinuxCpu!Stop \/ LinuxCpu!StopCheck
    BY <1>7
       DEF LinuxCpu!Stop, LinuxCpu!StopCheck, LinuxCpu!CallStop, LinuxCpu!CheckFlag,
       LinuxCpu!MayCall, LinuxCpu!Settled, CallStop, CheckFlag, MayCall, Settled
<1>8. CASE LinuxCpu!StopJoin \/ LinuxCpu!StopDestroy
    BY <1>8
       DEF LinuxCpu!StopJoin, LinuxCpu!StopDestroy, LinuxCpu!JoinThread,
       LinuxCpu!DestroyThread, JoinThread, DestroyThread, Joining, Destroying, Late, EagerFlag
<1> QED
  BY <1>1, <1>2, <1>3, <1>4, <1>5, <1>6, <1>7, <1>8 DEF LinuxCpu!App, LinuxCpu!AppCall

(* The calls of the application to dsp-npu.                                 *)
LEMMA DspNpuCall == TypeOK /\ kind = "dsp_npu" /\ DspNpu!App => AppStep
<1> SUFFICES ASSUME TypeOK, kind = "dsp_npu", DspNpu!App PROVE AppStep
    OBVIOUS
<1> USE DEF AppStep, DspNpu!Live, Live
<1>1. CASE DspNpu!AllocRequest \/ DspNpu!FreeRequest
    BY <1>1 DEF DspNpu!AllocRequest, DspNpu!FreeRequest, AllocRequest, FreeRequest
<1>2. CASE DspNpu!BackendInit
    BY <1>2 DEF TypeOK, DspNpu!BackendInit, DspNpu!Connect, Connecting
<1>3. CASE DspNpu!SetDataCallback
    BY <1>3 DEF DspNpu!SetDataCallback, DspNpu!Install, Install, Installing
<1>4. CASE DspNpu!Deinit
    BY <1>4
       DEF DspNpu!Deinit, DspNpu!Disconnect, DspNpu!MayDisconnect, DspNpu!Dropped,
       DspNpu!Forgotten, DspNpu!Kept, Disconnect, MayDisconnect, Dropped, Forgotten, Kept,
         Disconnecting
<1>5. CASE DspNpu!Start
    BY <1>5, SamplerAssumption, RequestTypes
       DEF TypeOK, Late, EagerFlag, DspNpu!Start, DspNpu!BeginStart, DspNpu!MayCall,
       DspNpu!Settled, BeginStart, MayCall, Settled, Starting, DspNpu!ValidateRequest,
         DspNpu!InLists
<1>6. CASE DspNpu!StartCreate \/ DspNpu!StoreHandle
    BY <1>6
       DEF DspNpu!StartCreate, DspNpu!StoreHandle, DspNpu!CreateThread, CreateThread,
       Creating, StoreHandle, Late, EagerFlag
<1>7. CASE DspNpu!Stop \/ DspNpu!StopCheck
    BY <1>7
       DEF DspNpu!Stop, DspNpu!StopCheck, DspNpu!CallStop, DspNpu!CheckFlag, DspNpu!MayCall,
       DspNpu!Settled, CallStop, CheckFlag, MayCall, Settled
<1>8. CASE DspNpu!StopJoin \/ DspNpu!StopDestroy
    BY <1>8
       DEF DspNpu!StopJoin, DspNpu!StopDestroy, DspNpu!JoinThread, DspNpu!DestroyThread,
       JoinThread, DestroyThread, Joining, Destroying, Late, EagerFlag
<1> QED
  BY <1>1, <1>2, <1>3, <1>4, <1>5, <1>6, <1>7, <1>8 DEF DspNpu!App, DspNpu!AppCall

(* The calls of the application to linux-thermal.                           *)
LEMMA LinuxThermalCall == TypeOK /\ kind = "linux_thermal" /\ LinuxThermal!App => AppStep
<1> SUFFICES ASSUME TypeOK, kind = "linux_thermal", LinuxThermal!App PROVE AppStep
    OBVIOUS
<1> USE DEF AppStep, LinuxThermal!Live, Live
<1>1. CASE LinuxThermal!AllocRequest \/ LinuxThermal!FreeRequest
    BY <1>1 DEF LinuxThermal!AllocRequest, LinuxThermal!FreeRequest, AllocRequest, FreeRequest
<1>2. CASE LinuxThermal!BackendInit
    BY <1>2 DEF TypeOK, LinuxThermal!BackendInit, LinuxThermal!Connect, Connecting
<1>3. CASE LinuxThermal!SetDataCallback
    BY <1>3 DEF LinuxThermal!SetDataCallback, LinuxThermal!Install, Install, Installing
<1>4. CASE LinuxThermal!Deinit
    BY <1>4
       DEF LinuxThermal!Deinit, LinuxThermal!Disconnect, LinuxThermal!MayDisconnect,
       LinuxThermal!Dropped, LinuxThermal!Forgotten, LinuxThermal!Kept, Disconnect,
         MayDisconnect, Dropped, Forgotten, Kept, Disconnecting
<1>5. CASE LinuxThermal!Start
    BY <1>5, SamplerAssumption, RequestTypes
       DEF TypeOK, Late, EagerFlag, LinuxThermal!Start, LinuxThermal!BeginStart,
       LinuxThermal!MayCall, LinuxThermal!Settled, BeginStart, MayCall, Settled, Starting,
         LinuxThermal!ValidateRequest, LinuxThermal!InLists
<1>6. CASE LinuxThermal!StartCreate \/ LinuxThermal!StoreHandle
    BY <1>6
       DEF LinuxThermal!StartCreate, LinuxThermal!StoreHandle, LinuxThermal!CreateThread,
       CreateThread, Creating, StoreHandle, Late, EagerFlag
<1>7. CASE LinuxThermal!Stop \/ LinuxThermal!StopCheck
    BY <1>7
       DEF LinuxThermal!Stop, LinuxThermal!StopCheck, LinuxThermal!CallStop,
       LinuxThermal!CheckFlag, LinuxThermal!MayCall, LinuxThermal!Settled, CallStop,
         CheckFlag, MayCall, Settled
<1>8. CASE LinuxThermal!StopJoin \/ LinuxThermal!StopDestroy
    BY <1>8
       DEF LinuxThermal!StopJoin, LinuxThermal!StopDestroy, LinuxThermal!JoinThread,
       LinuxThermal!DestroyThread, JoinThread, DestroyThread, Joining, Destroying, Late,
         EagerFlag
<1> QED
  BY <1>1, <1>2, <1>3, <1>4, <1>5, <1>6, <1>7, <1>8 DEF LinuxThermal!App, LinuxThermal!AppCall

(* The calls of the application to wos-cpu.                                 *)
LEMMA WosCpuCall == TypeOK /\ kind = "wos_cpu" /\ WosCpu!App => AppStep
<1> SUFFICES ASSUME TypeOK, kind = "wos_cpu", WosCpu!App PROVE AppStep
    OBVIOUS
<1> USE DEF AppStep, WosCpu!Live, Live
<1>1. CASE WosCpu!AllocRequest \/ WosCpu!FreeRequest
    BY <1>1 DEF WosCpu!AllocRequest, WosCpu!FreeRequest, AllocRequest, FreeRequest
<1>2. CASE WosCpu!BackendInit
    BY <1>2 DEF TypeOK, WosCpu!BackendInit, WosCpu!Connect, Connecting
<1>3. CASE WosCpu!SetDataCallback
    BY <1>3 DEF WosCpu!SetDataCallback, WosCpu!Install, Install, Installing
<1>4. CASE WosCpu!Deinit
    BY <1>4
       DEF WosCpu!Deinit, WosCpu!Disconnect, WosCpu!MayDisconnect, WosCpu!Dropped,
       WosCpu!Forgotten, WosCpu!Kept, Disconnect, MayDisconnect, Dropped, Forgotten, Kept,
         Disconnecting
<1>5. CASE WosCpu!Start
    BY <1>5, SamplerAssumption, RequestTypes
       DEF TypeOK, Late, EagerFlag, WosCpu!Start, WosCpu!BeginStart, WosCpu!MayCall,
       WosCpu!Settled, BeginStart, MayCall, Settled, Starting
<1>6. CASE WosCpu!StartCreate \/ WosCpu!StoreHandle
    BY <1>6
       DEF WosCpu!StartCreate, WosCpu!StoreHandle, WosCpu!CreateThread, CreateThread,
       Creating, StoreHandle, Late, EagerFlag
<1>7. CASE WosCpu!Stop \/ WosCpu!StopCheck
    BY <1>7
       DEF WosCpu!Stop, WosCpu!StopCheck, WosCpu!CallStop, WosCpu!CheckFlag, WosCpu!MayCall,
       WosCpu!Settled, CallStop, CheckFlag, MayCall, Settled
<1>8. CASE WosCpu!StopJoin \/ WosCpu!StopDestroy
    BY <1>8
       DEF WosCpu!StopJoin, WosCpu!StopDestroy, WosCpu!JoinThread, WosCpu!DestroyThread,
       JoinThread, DestroyThread, Joining, Destroying, Late, EagerFlag
<1> QED
  BY <1>1, <1>2, <1>3, <1>4, <1>5, <1>6, <1>7, <1>8 DEF WosCpu!App, WosCpu!AppCall

(* The calls of the application to wos-power.                               *)
LEMMA WosPowerCall == TypeOK /\ kind = "wos_power" /\ WosPower!App => AppStep
<1> SUFFICES ASSUME TypeOK, kind = "wos_power", WosPower!App PROVE AppStep
    OBVIOUS
<1> USE DEF AppStep, WosPower!Live, Live
<1>1. CASE WosPower!AllocRequest \/ WosPower!FreeRequest
    BY <1>1 DEF WosPower!AllocRequest, WosPower!FreeRequest, AllocRequest, FreeRequest
<1>2. CASE WosPower!BackendInit
    BY <1>2 DEF TypeOK, WosPower!BackendInit, WosPower!Connect, Connecting
<1>3. CASE WosPower!SetDataCallback
    BY <1>3 DEF WosPower!SetDataCallback, WosPower!Install, Install, Installing
<1>4. CASE WosPower!Deinit
    BY <1>4
       DEF WosPower!Deinit, WosPower!Disconnect, WosPower!MayDisconnect, WosPower!Dropped,
       WosPower!Forgotten, WosPower!Kept, Disconnect, MayDisconnect, Dropped, Forgotten, Kept,
         Disconnecting
<1>5. CASE WosPower!Start
    BY <1>5, SamplerAssumption, RequestTypes
       DEF TypeOK, Late, EagerFlag, WosPower!Start, WosPower!BeginStart, WosPower!MayCall,
       WosPower!Settled, BeginStart, MayCall, Settled, Starting
<1>6. CASE WosPower!StartCreate \/ WosPower!StoreHandle
    BY <1>6
       DEF WosPower!StartCreate, WosPower!StoreHandle, WosPower!CreateThread, CreateThread,
       Creating, StoreHandle, Late, EagerFlag
<1>7. CASE WosPower!Stop \/ WosPower!StopCheck
    BY <1>7
       DEF WosPower!Stop, WosPower!StopCheck, WosPower!CallStop, WosPower!CheckFlag,
       WosPower!MayCall, WosPower!Settled, CallStop, CheckFlag, MayCall, Settled
<1>8. CASE WosPower!StopJoin \/ WosPower!StopDestroy
    BY <1>8
       DEF WosPower!StopJoin, WosPower!StopDestroy, WosPower!JoinThread,
       WosPower!DestroyThread, JoinThread, DestroyThread, Joining, Destroying, Late, EagerFlag
<1> QED
  BY <1>1, <1>2, <1>3, <1>4, <1>5, <1>6, <1>7, <1>8 DEF WosPower!App, WosPower!AppCall

(* The calls of the application to wos-thermal.                             *)
LEMMA WosThermalCall == TypeOK /\ kind = "wos_thermal" /\ WosThermal!App => AppStep
<1> SUFFICES ASSUME TypeOK, kind = "wos_thermal", WosThermal!App PROVE AppStep
    OBVIOUS
<1> USE DEF AppStep, WosThermal!Live, Live
<1>1. CASE WosThermal!AllocRequest \/ WosThermal!FreeRequest
    BY <1>1 DEF WosThermal!AllocRequest, WosThermal!FreeRequest, AllocRequest, FreeRequest
<1>2. CASE WosThermal!BackendInit
    BY <1>2 DEF TypeOK, WosThermal!BackendInit, WosThermal!AtMost, Connecting
<1>3. CASE WosThermal!SetDataCallback
    BY <1>3 DEF WosThermal!SetDataCallback, WosThermal!Install, Install, Installing
<1>4. CASE WosThermal!Deinit \/ WosThermal!DeinitJoin \/ WosThermal!DeinitClose
    BY <1>4 DEF Closing
<1>5. CASE WosThermal!Start
    BY <1>5, SamplerAssumption, RequestTypes
       DEF TypeOK, Late, EagerFlag, WosThermal!Start, WosThermal!BeginStart,
       WosThermal!MayCall, WosThermal!Settled, BeginStart, MayCall, Settled, Starting,
         WosThermal!ValidateRequest, WosThermal!InLists, WosThermal!Within
<1>6. CASE WosThermal!StartCreate \/ WosThermal!StoreHandle
    BY <1>6
       DEF WosThermal!StartCreate, WosThermal!StoreHandle, WosThermal!CreateThread,
       CreateThread, Creating, StoreHandle, Late, EagerFlag
<1>7. CASE WosThermal!Stop \/ WosThermal!StopCheck
    BY <1>7
       DEF WosThermal!Stop, WosThermal!StopCheck, WosThermal!CallStop, WosThermal!CheckFlag,
       WosThermal!MayCall, WosThermal!Settled, CallStop, CheckFlag, MayCall, Settled
<1>8. CASE WosThermal!StopJoin \/ WosThermal!StopDestroy
    BY <1>8
       DEF WosThermal!StopJoin, WosThermal!StopDestroy, WosThermal!JoinThread,
       WosThermal!DestroyThread, JoinThread, DestroyThread, Joining, Destroying, Late, EagerFlag
<1> QED
  BY <1>1, <1>2, <1>3, <1>4, <1>5, <1>6, <1>7, <1>8 DEF WosThermal!App, WosThermal!AppCall

-----------------------------------------------------------------------------

(* The helpers of dummy are those of SamplerSession,                        *)
LEMMA DummySame ==
  /\ Dummy!NoBuffer = NoBuffer /\ \A b : Dummy!Elapsed(b) = Elapsed(b)
  /\ \A r, q, m : Dummy!Buffer(r, q, m) = Buffer(r, q, m)
  /\ \A r : Dummy!Ceiling(r) = Ceiling(r)
  /\ \A b, n : Dummy!Filled(b, n) = Filled(b, n)
  /\ \A b : Dummy!Emptied(b) = Emptied(b)
BY DEF Dummy!NoBuffer, NoBuffer, Dummy!Buffer, Buffer, Dummy!Ceiling, Ceiling, Dummy!AtMost,
   AtMost,
       Dummy!Filled, Filled, Dummy!Emptied, Emptied, Dummy!Elapsed, Elapsed

(* and so are its steps.                                                    *)
LEMMA DummySteps ==
  /\ \A t, b, at : Dummy!Goto(t, b, at) <=> Goto(t, b, at)
  /\ \A t, b, at : Dummy!Move(t, b, at) <=> Move(t, b, at)
  /\ \A f : Dummy!Undefined(f) <=> Undefined(f)
  /\ \A t, n : Dummy!Deliver(t, n) <=> Deliver(t, n)
  /\ \A t, ms, at : Dummy!Sleep(t, ms, at) <=> Sleep(t, ms, at)
  /\ \A t : Dummy!SetFlag(t) <=> SetFlag(t)
BY DEF Dummy!Goto, Goto, Dummy!Move, Move, Dummy!Undefined, Undefined, Dummy!Deliver, Deliver,
       Dummy!Sleep, Sleep, Dummy!SetFlag, SetFlag, Dummy!Slept, Slept, Dummy!AtMost, AtMost

(* The sampling thread of dummy.                                            *)
LEMMA DummyThread ==
  ASSUME NEW t, Ready(t), kind = "dummy", Dummy!Collect(t)
  PROVE  ThreadStep(t)
<1>1. Late /\ MetricsOf = 5 /\ Dummy!MetricCount = 5
  BY MetricsAre DEF Late, EagerFlag, Kind, MetricsOf
<1>2. CASE Dummy!CollectBegin(t)
  BY <1>1, <1>2, BeginStep, DummySteps DEF Dummy!CollectBegin
<1>3. CASE Dummy!CollectFind(t)
  <2>1. CASE request = NoRequest /\ Undefined("request_freed")
    BY <2>1 DEF ThreadStep, Ready, Falling, Cause, Fault
  <2>2. CASE pc[t] = "find" /\ (Dummy!GiveUp(t, TRUE) \/ Dummy!GiveUp(t, FALSE)) /\
               (running' = running \/ running' = FALSE)
    BY <1>1, <2>2, QuitStep, DummySteps, DummySame DEF Dummy!GiveUp
  <2>3. CASE /\ request # NoRequest /\ pc[t] = "find" /\ running' \in {running, FALSE}
             /\ Move(t, Dummy!Ready, "loop")
             /\ UNCHANGED <<registry, client, handle, sent, fault>>
    <3>1. request \in Requests /\ request.sampling > 0
      BY <1>1, <2>3 DEF Ready, TypeOK, CheckedInv, InUse
    <3>2. Dummy!Ready = [Buffer(request, Ceiling(request), 5) EXCEPT !.info = "held"]
      BY <1>1, DummySame DEF Dummy!Ready, Dummy!SamplesPerStream
    <3>3. Dummy!Ready \in Buffers /\ Dummy!Ready.info = "held" /\
            Filling(5, Dummy!Ready, "loop")
      BY <3>1, <3>2, Quotas, BufferMade
    <3>4. request' = request /\ Opened(Dummy!Ready, request)
      BY <2>3, <3>1, <3>2, OpenedRounded
    <3> QED
      BY <1>1, <2>3, <3>3, <3>4 DEF Ready, ThreadStep, Moving, Move, Pc, Change
  <2> QED
    BY <1>3, <2>1, <2>2, <2>3, DummySteps DEF Dummy!CollectFind, Dummy!GiveUp, Ready, TypeOK
<1>4. CASE Dummy!CollectCheck(t)
  <2>1. CASE running
    BY <1>4, <2>1, CheckStep, DummySteps DEF Dummy!CollectCheck, Before
  <2>2. CASE ~running
    BY <1>4, <2>2, QuitStep, DummySteps, DummySame DEF Dummy!CollectCheck, Goto
  <2> QED
    BY <2>1, <2>2
<1>5. CASE Dummy!CollectSample(t)
  <2>1. CASE buf[t].info = "freed"
    BY <1>5, <2>1, DummySteps DEF Dummy!CollectSample, ThreadStep, Ready, Falling, Cause, Fault
  <2>2. CASE buf[t].info # "freed"
    <3> DEFINE b == Filled(buf[t], 5)
    <3>1. pc[t] = "sample" /\ b \in Buffers /\ b.len \in Nat /\ b.count \in Nat /\
            b.quota \in Nat
      BY <1>5, BufferOps DEF Dummy!CollectSample, Ready, BufferInv, Buffers
    <3>2. PICK elapsed \in Elapsed(buf[t]) :
            Dummy!Judge(t, b, Dummy!CountOrTime(b, elapsed), b.len > 0,
              [b EXCEPT !.count = 0, !.since = 0], "rest")
      BY <1>1, <1>5, <2>2, DummySame DEF Dummy!CollectSample
    <3>3. dataCallback # "none"
      BY DEF Ready, CheckedInv, InUse
    <3>4. \/ b.len > 0 /\ Goto(t, b, "deliver")
          \/ b.len = 0 /\ Goto(t, [b EXCEPT !.count = 0, !.since = 0], "rest")
          \/ b.count < b.quota /\ Goto(t, b, "rest")
      BY <3>1, <3>2, <3>3, DummySteps DEF Dummy!Judge, Dummy!CountOrTime
    <3>5. 5 \in Nat /\ 5 <= MetricsOf /\ "rest" \in {"loop", "rest"} /\ "rest" = After
      BY <1>1 DEF After
    <3> QED
      BY <3>1, <3>4, <3>5, SampleStep
  <2> QED
    BY <2>1, <2>2
<1>6. CASE Dummy!CollectDeliver(t)
  BY <1>6, DeliverStep, DummySteps DEF Dummy!CollectDeliver
<1>7. CASE Dummy!CollectReturn(t)
  BY <1>7, ReturnStep, DummySteps, DummySame DEF Dummy!CollectReturn, After
<1>8. CASE Dummy!CollectRest(t)
  <2>1. CASE running
    BY <1>8, <2>1, SleepStep, RequestTypes, DummySteps
       DEF Dummy!CollectRest, Dummy!SleepIfRunning, Ready, TypeOK, Awake
  <2>2. CASE ~running
    BY <1>8, <2>2, CheckStep, DummySteps DEF Dummy!CollectRest, Dummy!SleepIfRunning
  <2> QED
    BY <2>1, <2>2
<1> QED
  BY <1>2, <1>3, <1>4, <1>5, <1>6, <1>7, <1>8 DEF Dummy!Collect

(* The helpers of linux-cpu are those of SamplerSession,                    *)
LEMMA LinuxCpuSame ==
  /\ LinuxCpu!NoBuffer = NoBuffer /\ \A b : LinuxCpu!Elapsed(b) = Elapsed(b)
  /\ \A r, q, m : LinuxCpu!Buffer(r, q, m) = Buffer(r, q, m)
  /\ \A r : LinuxCpu!Ceiling(r) = Ceiling(r)
  /\ \A b, n : LinuxCpu!Filled(b, n) = Filled(b, n)
  /\ \A b : LinuxCpu!Emptied(b) = Emptied(b)
BY DEF LinuxCpu!NoBuffer, NoBuffer, LinuxCpu!Buffer, Buffer, LinuxCpu!Ceiling, Ceiling,
   LinuxCpu!AtMost, AtMost,
       LinuxCpu!Filled, Filled, LinuxCpu!Emptied, Emptied, LinuxCpu!Elapsed, Elapsed

(* and so are its steps.                                                    *)
LEMMA LinuxCpuSteps ==
  /\ \A t, b, at : LinuxCpu!Goto(t, b, at) <=> Goto(t, b, at)
  /\ \A t, b, at : LinuxCpu!Move(t, b, at) <=> Move(t, b, at)
  /\ \A f : LinuxCpu!Undefined(f) <=> Undefined(f)
  /\ \A t, n : LinuxCpu!Deliver(t, n) <=> Deliver(t, n)
  /\ \A t, ms, at : LinuxCpu!Sleep(t, ms, at) <=> Sleep(t, ms, at)
  /\ \A t : LinuxCpu!SetFlag(t) <=> SetFlag(t)
BY DEF LinuxCpu!Goto, Goto, LinuxCpu!Move, Move, LinuxCpu!Undefined, Undefined,
   LinuxCpu!Deliver, Deliver,
       LinuxCpu!Sleep, Sleep, LinuxCpu!SetFlag, SetFlag, LinuxCpu!Slept, Slept,
         LinuxCpu!AtMost, AtMost

(* The sampling thread of linux-cpu.                                        *)
LEMMA LinuxCpuThread ==
  ASSUME NEW t, Ready(t), kind = "linux_cpu", LinuxCpu!Collect(t)
  PROVE  ThreadStep(t)
<1>1. Late /\ MetricsOf = 2 /\ LinuxCpu!Metrics = 2
  BY MetricsAre DEF Late, EagerFlag, Kind, LinuxCpu!Metrics
<1>2. CASE LinuxCpu!CollectBegin(t)
  BY <1>1, <1>2, BeginStep, LinuxCpuSteps DEF LinuxCpu!CollectBegin
<1>3. CASE LinuxCpu!CollectSetup(t)
  <2>1. CASE pc[t] = "find" /\ running' = FALSE /\ Move(t, NoBuffer, "exit") /\
               UNCHANGED <<registry, client, handle, sent, fault>>
    <3>1. NoBuffer \in Buffers /\ NoBuffer.info = "none" /\ Filling(2, NoBuffer, "exit")
      BY BufferOps, FillingMoves DEF Ready, BufferInv
    <3> QED
      BY <1>1, <2>1, <3>1 DEF Ready, ThreadStep, Moving, Move, Pc, Change
  <2>2. CASE (~listed /\ Undefined("list_freed")) \/
               (request = NoRequest /\ Undefined("request_freed"))
    BY <2>2 DEF ThreadStep, Ready, Falling, Cause, Fault
  <2>3. CASE pc[t] = "find" /\ request # NoRequest /\
               Goto(t, Buffer(request, Ceiling(request), 2), "loop")
    <3>1. request \in Requests /\ request.sampling > 0
      BY <1>1, <2>3 DEF Ready, TypeOK, CheckedInv, InUse
    <3>2. Buffer(request, Ceiling(request), 2) \in Buffers /\
            Buffer(request, Ceiling(request), 2).info = "none" /\
              Filling(2, Buffer(request, Ceiling(request), 2), "loop")
      BY <3>1, Quotas, BufferMade
    <3>3. request' = request /\ Opened(Buffer(request, Ceiling(request), 2), request)
      BY <2>3, <3>1, OpenedRounded DEF Goto
    <3> QED
      BY <1>1, <2>3, <3>2, <3>3, GotoStep DEF Pc, Change
  <2> QED
    BY <1>1, <1>3, <2>1, <2>2, <2>3, LinuxCpuSteps, LinuxCpuSame DEF LinuxCpu!CollectSetup
<1>4. CASE LinuxCpu!CollectCheck(t)
  BY <1>4, CheckStep, LinuxCpuSteps DEF LinuxCpu!CollectCheck, Before
<1>5. CASE LinuxCpu!CollectRest(t)
  BY <1>5, SleepStep, RequestTypes, LinuxCpuSteps DEF LinuxCpu!CollectRest, Ready, TypeOK, Awake
<1>6. CASE LinuxCpu!CollectSample(t)
  <2>1. CASE ~running
    <3>1. buf[t] \in Buffers /\ Filling(MetricsOf, buf[t], "exit") /\ pc[t] = "sample"
      BY <1>6, FillingMoves, MetricsAre DEF LinuxCpu!CollectSample, Ready, TypeOK, BufferInv, Pc
    <3> QED
      BY <1>6, <2>1, <3>1, LinuxCpuSteps, GotoStep DEF LinuxCpu!CollectSample, Pc, Change
  <2>2. CASE running
    <3>1. PICK n \in 1 .. 3 :
            \/ Filled(buf[t], n).len > 0 /\ Goto(t, Filled(buf[t], n), "deliver")
            \/ Goto(t, Emptied(Filled(buf[t], n)), "loop")
            \/ ~(Filled(buf[t], n).count >= Filled(buf[t], n).quota) /\
                 Goto(t, Filled(buf[t], n), "loop")
      <4>1. PICK elapsed \in LinuxCpu!Elapsed(buf[t]), n \in 1 .. 3 :
              LinuxCpu!Judge(t, LinuxCpu!Filled(buf[t], n),
                LinuxCpu!CountOrTime(LinuxCpu!Filled(buf[t], n), elapsed),
                             LinuxCpu!Filled(buf[t], n).len > 0,
                               LinuxCpu!Emptied(LinuxCpu!Filled(buf[t], n)), "loop")
        BY <1>1, <1>6, <2>2 DEF LinuxCpu!CollectSample
      <4> QED
        BY <4>1, LinuxCpuSame, LinuxCpuSteps DEF LinuxCpu!Judge, LinuxCpu!CountOrTime
    <3> DEFINE b == Filled(buf[t], n)
    <3>2. pc[t] = "sample" /\ buf[t] \in Buffers /\ n \in Nat
      BY <1>6 DEF LinuxCpu!CollectSample, Ready, BufferInv
    <3>3. b \in Buffers /\ b.len \in Nat /\ b.count \in Nat /\ b.quota \in Nat
      BY <3>2, BufferOps DEF Buffers
    <3>4. n \in Nat /\ "loop" \in {"loop", "rest"} /\ "loop" = After
      BY <1>1 DEF After
    <3>5. \/ b.len > 0 /\ Goto(t, b, "deliver")
          \/ b.count < b.quota /\ Goto(t, b, "loop")
          \/ Goto(t, Emptied(b), "loop")
      BY <3>1, <3>3
    <3> QED
      BY <3>2, <3>4, <3>5, SampleStep
  <2> QED
    BY <2>1, <2>2
<1>7. CASE LinuxCpu!CollectDeliver(t)
  BY <1>7, DeliverStep, LinuxCpuSteps DEF LinuxCpu!CollectDeliver
<1>8. CASE LinuxCpu!CollectReturn(t)
  BY <1>8, ReturnStep, LinuxCpuSteps, LinuxCpuSame DEF LinuxCpu!CollectReturn, After
<1>9. CASE LinuxCpu!CollectEnd(t)
  BY <1>1, <1>9, QuitStep, LinuxCpuSteps, LinuxCpuSame DEF LinuxCpu!CollectEnd, LinuxCpu!GiveUp
<1> QED
  BY <1>2, <1>3, <1>4, <1>5, <1>6, <1>7, <1>8, <1>9 DEF LinuxCpu!Collect

(* The helpers of dsp-npu are those of SamplerSession,                      *)
LEMMA DspNpuSame ==
  /\ DspNpu!NoBuffer = NoBuffer /\ \A b : DspNpu!Elapsed(b) = Elapsed(b)
  /\ \A r, q, m : DspNpu!Buffer(r, q, m) = Buffer(r, q, m)
  /\ \A r : DspNpu!Ceiling(r) = Ceiling(r)
  /\ \A b, n : DspNpu!Filled(b, n) = Filled(b, n)
  /\ \A b : DspNpu!Emptied(b) = Emptied(b)
BY DEF DspNpu!NoBuffer, NoBuffer, DspNpu!Buffer, Buffer, DspNpu!Ceiling, Ceiling,
   DspNpu!AtMost, AtMost,
       DspNpu!Filled, Filled, DspNpu!Emptied, Emptied, DspNpu!Elapsed, Elapsed

(* and so are its steps.                                                    *)
LEMMA DspNpuSteps ==
  /\ \A t, b, at : DspNpu!Goto(t, b, at) <=> Goto(t, b, at)
  /\ \A t, b, at : DspNpu!Move(t, b, at) <=> Move(t, b, at)
  /\ \A f : DspNpu!Undefined(f) <=> Undefined(f)
  /\ \A t, n : DspNpu!Deliver(t, n) <=> Deliver(t, n)
  /\ \A t, ms, at : DspNpu!Sleep(t, ms, at) <=> Sleep(t, ms, at)
  /\ \A t : DspNpu!SetFlag(t) <=> SetFlag(t)
BY DEF DspNpu!Goto, Goto, DspNpu!Move, Move, DspNpu!Undefined, Undefined, DspNpu!Deliver,
   Deliver,
       DspNpu!Sleep, Sleep, DspNpu!SetFlag, SetFlag, DspNpu!Slept, Slept, DspNpu!AtMost, AtMost

(* The sampling thread of dsp-npu.                                          *)
LEMMA DspNpuThread ==
  ASSUME NEW t, Ready(t), kind = "dsp_npu", DspNpu!Collect(t)
  PROVE  ThreadStep(t)
<1>1. Late /\ MetricsOf = 2 /\ DspNpu!Metrics = 2
  BY MetricsAre DEF Late, EagerFlag, Kind, DspNpu!Metrics
<1>2. CASE DspNpu!CollectBegin(t)
  BY <1>1, <1>2, BeginStep, DspNpuSteps DEF DspNpu!CollectBegin
<1>3. CASE DspNpu!CollectSetup(t)
  <2>1. CASE request = NoRequest /\ Undefined("request_freed")
    BY <2>1 DEF ThreadStep, Ready, Falling, Cause, Fault
  <2>2. CASE pc[t] = "find" /\ (DspNpu!GiveUp(t, FALSE) \/ DspNpu!GiveUp(t, running))
    BY <1>1, <2>2, QuitStep, DspNpuSteps, DspNpuSame DEF DspNpu!GiveUp, Ready, TypeOK
  <2>3. CASE /\ pc[t] = "find" /\ request # NoRequest
             /\ Goto(t, [Buffer(request, Ceiling(request), 2) EXCEPT !.info = "held"], "loop")
    <3> DEFINE b == [Buffer(request, Ceiling(request), 2) EXCEPT !.info = "held"]
    <3>1. request \in Requests /\ request.sampling > 0
      BY <1>1, <2>3 DEF Ready, TypeOK, CheckedInv, InUse
    <3>2. b \in Buffers /\ b.info = "held" /\ Filling(2, b, "loop")
      BY <3>1, Quotas, BufferMade
    <3>3. request' = request /\ Opened(b, request)
      BY <2>3, <3>1, OpenedRounded DEF Goto
    <3> QED
      BY <1>1, <2>3, <3>2, <3>3, GotoStep DEF Pc, Change
  <2> QED
    BY <1>1, <1>3, <2>1, <2>2, <2>3, DspNpuSteps, DspNpuSame DEF DspNpu!CollectSetup
<1>4. CASE DspNpu!CollectCheck(t)
  <2>1. CASE running
    BY <1>4, <2>1, CheckStep, DspNpuSteps DEF DspNpu!CollectCheck, Before
  <2>2. CASE ~running
    BY <1>4, <2>2, QuitStep, DspNpuSteps, DspNpuSame DEF DspNpu!CollectCheck, Goto
  <2> QED
    BY <2>1, <2>2
<1>5. CASE DspNpu!CollectSample(t)
  <2>1. CASE provider = "closed" /\ Undefined("provider_closed")
    BY <2>1 DEF ThreadStep, Ready, Falling, Cause, Fault
  <2>2. CASE buf[t].info = "freed" /\ Undefined("list_freed")
    BY <2>2 DEF ThreadStep, Ready, Falling, Cause, Fault
  <2>3. CASE /\ ~(provider = "closed" /\ Undefined("provider_closed"))
             /\ ~(buf[t].info = "freed" /\ Undefined("list_freed"))
    <3>1. dataCallback # "none"
      BY DEF Ready, CheckedInv, InUse
    <3>2. PICK n \in {0, 2} :
            \/ Filled(buf[t], n).len > 0 /\ Goto(t, Filled(buf[t], n), "deliver")
            \/ ~(Filled(buf[t], n).len > 0) /\
                 Goto(t, [Filled(buf[t], n) EXCEPT !.count = 0, !.since = 0], "rest")
            \/ ~(Filled(buf[t], n).count >= Filled(buf[t], n).quota) /\
                 Goto(t, Filled(buf[t], n), "rest")
      <4>1. PICK elapsed \in DspNpu!Elapsed(buf[t]), n \in {0, 2} :
              DspNpu!Judge(t, DspNpu!Filled(buf[t], n),
                DspNpu!CountOrTime(DspNpu!Filled(buf[t], n), elapsed),
                           DspNpu!Filled(buf[t], n).len > 0,
                           [DspNpu!Filled(buf[t], n) EXCEPT !.count = 0, !.since = 0], "rest")
        BY <1>1, <1>5, <2>3, DspNpuSteps DEF DspNpu!CollectSample
      <4> QED
        BY <3>1, <4>1, DspNpuSame, DspNpuSteps DEF DspNpu!Judge, DspNpu!CountOrTime
    <3> DEFINE b == Filled(buf[t], n)
    <3>3. pc[t] = "sample" /\ buf[t] \in Buffers /\ n \in Nat
      BY <1>5 DEF DspNpu!CollectSample, Ready, BufferInv
    <3>4. b \in Buffers /\ b.len \in Nat /\ b.count \in Nat /\ b.quota \in Nat
      BY <3>3, BufferOps DEF Buffers
    <3>5. n \in Nat /\ n <= MetricsOf /\ "rest" \in {"loop", "rest"} /\ "rest" = After
      BY <1>1 DEF After
    <3>6. \/ b.len > 0 /\ Goto(t, b, "deliver")
          \/ b.count < b.quota /\ Goto(t, b, "rest")
          \/ b.len = 0 /\ Goto(t, [b EXCEPT !.count = 0, !.since = 0], "rest")
      BY <3>2, <3>4
    <3> QED
      BY <3>3, <3>5, <3>6, SampleStep
  <2> QED
    BY <2>1, <2>2, <2>3
<1>6. CASE DspNpu!CollectDeliver(t)
  BY <1>6, DeliverStep, DspNpuSteps DEF DspNpu!CollectDeliver
<1>7. CASE DspNpu!CollectReturn(t)
  BY <1>7, ReturnStep, DspNpuSteps, DspNpuSame DEF DspNpu!CollectReturn, After
<1>8. CASE DspNpu!CollectRest(t)
  <2>1. CASE running
    BY <1>8, <2>1, SleepStep, RequestTypes, DspNpuSteps
       DEF DspNpu!CollectRest, DspNpu!SleepIfRunning, Ready, TypeOK, Awake
  <2>2. CASE ~running
    BY <1>8, <2>2, CheckStep, DspNpuSteps DEF DspNpu!CollectRest, DspNpu!SleepIfRunning
  <2> QED
    BY <2>1, <2>2
<1> QED
  BY <1>2, <1>3, <1>4, <1>5, <1>6, <1>7, <1>8 DEF DspNpu!Collect

(* The helpers of linux-thermal are those of SamplerSession,                *)
LEMMA LinuxThermalSame ==
  /\ LinuxThermal!NoBuffer = NoBuffer /\ \A b : LinuxThermal!Elapsed(b) = Elapsed(b)
  /\ \A r, q, m : LinuxThermal!Buffer(r, q, m) = Buffer(r, q, m)
  /\ \A r : LinuxThermal!Ceiling(r) = Ceiling(r)
  /\ \A b, n : LinuxThermal!Filled(b, n) = Filled(b, n)
  /\ \A b : LinuxThermal!Emptied(b) = Emptied(b)
BY DEF LinuxThermal!NoBuffer, NoBuffer, LinuxThermal!Buffer, Buffer, LinuxThermal!Ceiling,
   Ceiling, LinuxThermal!AtMost, AtMost,
       LinuxThermal!Filled, Filled, LinuxThermal!Emptied, Emptied, LinuxThermal!Elapsed, Elapsed

(* and so are its steps.                                                    *)
LEMMA LinuxThermalSteps ==
  /\ \A t, b, at : LinuxThermal!Goto(t, b, at) <=> Goto(t, b, at)
  /\ \A t, b, at : LinuxThermal!Move(t, b, at) <=> Move(t, b, at)
  /\ \A f : LinuxThermal!Undefined(f) <=> Undefined(f)
  /\ \A t, n : LinuxThermal!Deliver(t, n) <=> Deliver(t, n)
  /\ \A t, ms, at : LinuxThermal!Sleep(t, ms, at) <=> Sleep(t, ms, at)
  /\ \A t : LinuxThermal!SetFlag(t) <=> SetFlag(t)
BY DEF LinuxThermal!Goto, Goto, LinuxThermal!Move, Move, LinuxThermal!Undefined, Undefined,
   LinuxThermal!Deliver, Deliver,
       LinuxThermal!Sleep, Sleep, LinuxThermal!SetFlag, SetFlag, LinuxThermal!Slept, Slept,
         LinuxThermal!AtMost, AtMost

(* The sampling thread of linux-thermal.                                    *)
LEMMA LinuxThermalThread ==
  ASSUME NEW t, Ready(t), kind = "linux_thermal", LinuxThermal!Collect(t)
  PROVE  ThreadStep(t)
<1>1. Late /\ MetricsOf = 2 /\ LinuxThermal!Metrics = 2
  BY MetricsAre DEF Late, EagerFlag, Kind, LinuxThermal!Metrics
<1>2. CASE LinuxThermal!CollectBegin(t)
  BY <1>1, <1>2, BeginStep, LinuxThermalSteps DEF LinuxThermal!CollectBegin
<1>3. CASE LinuxThermal!CollectSetup(t)
  <2>1. CASE pc[t] = "find" /\ running' = FALSE /\ Move(t, NoBuffer, "exit") /\
               UNCHANGED <<registry, client, handle, sent, fault>>
    <3>1. NoBuffer \in Buffers /\ NoBuffer.info = "none" /\ Filling(2, NoBuffer, "exit")
      BY BufferOps, FillingMoves DEF Ready, BufferInv
    <3> QED
      BY <1>1, <2>1, <3>1 DEF Ready, ThreadStep, Moving, Move, Pc, Change
  <2>2. CASE (~listed /\ Undefined("list_freed")) \/
               (request = NoRequest /\ Undefined("request_freed"))
    BY <2>2 DEF ThreadStep, Ready, Falling, Cause, Fault
  <2>3. CASE pc[t] = "find" /\ request # NoRequest /\
               Goto(t, Buffer(request, Ceiling(request), 2), "loop")
    <3>1. request \in Requests /\ request.sampling > 0
      BY <1>1, <2>3 DEF Ready, TypeOK, CheckedInv, InUse
    <3>2. Buffer(request, Ceiling(request), 2) \in Buffers /\
            Buffer(request, Ceiling(request), 2).info = "none" /\
              Filling(2, Buffer(request, Ceiling(request), 2), "loop")
      BY <3>1, Quotas, BufferMade
    <3>3. request' = request /\ Opened(Buffer(request, Ceiling(request), 2), request)
      BY <2>3, <3>1, OpenedRounded DEF Goto
    <3> QED
      BY <1>1, <2>3, <3>2, <3>3, GotoStep DEF Pc, Change
  <2> QED
    BY <1>1, <1>3, <2>1, <2>2, <2>3, LinuxThermalSteps, LinuxThermalSame
       DEF LinuxThermal!CollectSetup
<1>4. CASE LinuxThermal!CollectCheck(t)
  BY <1>4, CheckStep, LinuxThermalSteps DEF LinuxThermal!CollectCheck, Before
<1>5. CASE LinuxThermal!CollectSample(t)
  <2>1. CASE buf[t].info = "freed" /\ Undefined("provider_closed")
    BY <2>1 DEF ThreadStep, Ready, Falling, Cause, Fault
  <2> DEFINE With(n, i) == [Filled(buf[t], n) EXCEPT !.info = i]
  <2>2. CASE ~(provider = "closed" /\ buf[t].info = "freed")
    <3>1. PICK n \in 0 .. 2, i \in {"held", buf[t].info} :
            \/ With(n, i).len > 0 /\ Goto(t, With(n, i), "deliver")
            \/ Goto(t, Emptied(With(n, i)), "rest")
            \/ ~(With(n, i).count >= With(n, i).quota) /\ Goto(t, With(n, i), "rest")
      <4> DEFINE info == IF provider = "open" THEN "held" ELSE buf[t].info
      <4>1. \A n : LinuxThermal!Filled(buf[t], n) = Filled(buf[t], n)
        BY LinuxThermalSame
      <4> DEFINE raw(n) == [LinuxThermal!Filled(buf[t],
            n) EXCEPT !.info = IF provider = "open" THEN "held" ELSE @]
      <4>2. \A n \in 0 .. 2 : raw(n) = With(n, info)
        <5> SUFFICES ASSUME NEW n \in 0 .. 2 PROVE raw(n) = With(n, info)
          OBVIOUS
        <5>1. buf[t] \in Buffers /\ n \in Nat
          BY DEF Ready, BufferInv
        <5>2. Filled(buf[t], n) \in Buffers /\ Filled(buf[t], n).info = buf[t].info
          BY <5>1, BufferOps DEF Filled, Buffers
        <5> QED
          BY <4>1, <5>2 DEF Buffers
      <4>3. PICK elapsed \in LinuxThermal!Elapsed(buf[t]),
                 n \in IF provider = "open" THEN 0 .. LinuxThermal!Metrics ELSE {0} :
              LinuxThermal!Judge(t, raw(n), LinuxThermal!CountOrTime(raw(n), elapsed),
                raw(n).len > 0,
                                 LinuxThermal!Emptied(raw(n)), "rest")
        BY <1>5, <2>2 DEF LinuxThermal!CollectSample
      <4>4. n \in 0 .. 2 /\ info \in {"held", buf[t].info} /\ raw(n) = With(n, info)
        BY <1>1, <4>2
      <4> HIDE DEF info, raw
      <4> QED
        BY <4>3, <4>4, LinuxThermalSame, LinuxThermalSteps
           DEF LinuxThermal!Judge, LinuxThermal!CountOrTime
    <3> DEFINE b == With(n, i)
    <3>2. pc[t] = "sample" /\ Filling(2, buf[t], "sample") /\ buf[t] \in Buffers
      BY <1>1, <1>5 DEF LinuxThermal!CollectSample, Ready, BufferInv
    <3>3. Filled(buf[t], n) \in Buffers /\ i \in {"none", "held", "freed"}
      <4>1. n \in Nat /\ buf[t].info \in {"none", "held", "freed"}
        BY <3>2 DEF Buffers
      <4> QED
        BY <3>2, <4>1, BufferOps
    <3>4. b \in Buffers /\ Emptied(b) \in Buffers /\ b.len \in Nat /\ b.count \in Nat /\
            b.quota \in Nat
      BY <3>3, BufferOps DEF Buffers
    <3>5. /\ b.len > 0 => Filling(2, b, "deliver")
          /\ b.count < b.quota => Filling(2, b, "rest")
          /\ Filling(2, Emptied(b), "rest")
      BY <3>2, <3>3, SampleInfo
    <3>6. \/ b.len > 0 /\ Goto(t, b, "deliver")
          \/ Goto(t, Emptied(b), "rest")
          \/ b.count < b.quota /\ Goto(t, b, "rest")
      BY <3>1, <3>4
    <3>7. b.info = i /\ Emptied(b).info = i
      BY <3>3, <3>4, BufferOps DEF Buffers
    <3>8. /\ Sampled(buf[t], b, "deliver")
          /\ b.count < b.quota => Sampled(buf[t], b, "rest")
          /\ Sampled(buf[t], Emptied(b), "rest")
      <4> DEFINE f == Filled(buf[t], n)
      <4>1. /\ f.quota = buf[t].quota /\ f.rate = buf[t].rate /\ f.since = buf[t].since
            /\ f.room = buf[t].room
            /\ f.len = AtMost(buf[t].len + n, f.room)
            /\ f.count = AtMost(buf[t].count + 1, f.quota)
        BY <3>2 DEF Filled, Buffers
      <4>2. /\ b.quota = f.quota /\ b.rate = f.rate /\ b.since = f.since /\ b.len = f.len
            /\ b.count = f.count
        BY <3>3 DEF Buffers
      <4>3. /\ Emptied(b).quota = b.quota /\ Emptied(b).rate = b.rate /\ Emptied(b).since = 0
            /\ Emptied(b).len = 0
        BY <3>4 DEF Buffers, Emptied
      <4>4. /\ buf[t].len \in Nat /\ buf[t].count \in Nat /\ f.room \in Nat /\ f.quota \in Nat
            /\ n \in 0 .. MetricsOf
        BY <1>1, <3>2, <3>3 DEF Buffers
      <4>5. After = "rest" /\ MetricsOf = 2
        BY <1>1 DEF After
      <4> HIDE DEF b, f
      <4>6. f.count < f.quota => f.count = buf[t].count + 1
        BY <4>1, <4>4, <4>5 DEF AtMost
      <4> QED
        BY <4>1, <4>2, <4>3, <4>4, <4>5, <4>6 DEF Sampled
    <3> HIDE DEF b
    <3>9. CASE b.len > 0 /\ Goto(t, b, "deliver")
      BY <1>1, <3>2, <3>4, <3>5, <3>7, <3>8, <3>9, GotoStep DEF Pc, Change
    <3>10. CASE Goto(t, Emptied(b), "rest")
      BY <1>1, <3>2, <3>4, <3>5, <3>7, <3>8, <3>10, GotoStep DEF Pc, Change
    <3>11. CASE b.count < b.quota /\ Goto(t, b, "rest")
      BY <1>1, <3>2, <3>4, <3>5, <3>7, <3>8, <3>11, GotoStep DEF Pc, Change
    <3> QED
      BY <3>6, <3>9, <3>10, <3>11
  <2> QED
    BY <1>5, <2>1, <2>2, LinuxThermalSteps DEF LinuxThermal!CollectSample
<1>6. CASE LinuxThermal!CollectDeliver(t)
  BY <1>6, DeliverStep, LinuxThermalSteps DEF LinuxThermal!CollectDeliver
<1>7. CASE LinuxThermal!CollectReturn(t)
  BY <1>7, ReturnStep, LinuxThermalSteps, LinuxThermalSame DEF LinuxThermal!CollectReturn, After
<1>8. CASE LinuxThermal!CollectRest(t)
  <2>1. CASE running
    BY <1>8, <2>1, SleepStep, RequestTypes, LinuxThermalSteps
       DEF LinuxThermal!CollectRest, LinuxThermal!SleepIfRunning, Ready, TypeOK, Awake
  <2>2. CASE ~running
    BY <1>8, <2>2, CheckStep, LinuxThermalSteps
       DEF LinuxThermal!CollectRest, LinuxThermal!SleepIfRunning
  <2> QED
    BY <2>1, <2>2
<1>9. CASE LinuxThermal!CollectEnd(t)
  BY <1>1, <1>9, QuitStep, LinuxThermalSteps, LinuxThermalSame
     DEF LinuxThermal!CollectEnd, LinuxThermal!GiveUp
<1> QED
  BY <1>2, <1>3, <1>4, <1>5, <1>6, <1>7, <1>8, <1>9 DEF LinuxThermal!Collect

(* The helpers of wos-cpu are those of SamplerSession,                      *)
LEMMA WosCpuSame ==
  /\ WosCpu!NoBuffer = NoBuffer /\ \A b : WosCpu!Elapsed(b) = Elapsed(b)
  /\ \A r, q, m : WosCpu!Buffer(r, q, m) = Buffer(r, q, m)
  /\ \A r : WosCpu!Ceiling(r) = Ceiling(r)
  /\ \A b, n : WosCpu!Filled(b, n) = Filled(b, n)
  /\ \A b : WosCpu!Emptied(b) = Emptied(b)
BY DEF WosCpu!NoBuffer, NoBuffer, WosCpu!Buffer, Buffer, WosCpu!Ceiling, Ceiling,
   WosCpu!AtMost, AtMost,
       WosCpu!Filled, Filled, WosCpu!Emptied, Emptied, WosCpu!Elapsed, Elapsed

(* and so are its steps.                                                    *)
LEMMA WosCpuSteps ==
  /\ \A t, b, at : WosCpu!Goto(t, b, at) <=> Goto(t, b, at)
  /\ \A t, b, at : WosCpu!Move(t, b, at) <=> Move(t, b, at)
  /\ \A f : WosCpu!Undefined(f) <=> Undefined(f)
  /\ \A t, n : WosCpu!Deliver(t, n) <=> Deliver(t, n)
  /\ \A t, ms, at : WosCpu!Sleep(t, ms, at) <=> Sleep(t, ms, at)
  /\ \A t : WosCpu!SetFlag(t) <=> SetFlag(t)
BY DEF WosCpu!Goto, Goto, WosCpu!Move, Move, WosCpu!Undefined, Undefined, WosCpu!Deliver,
   Deliver,
       WosCpu!Sleep, Sleep, WosCpu!SetFlag, SetFlag, WosCpu!Slept, Slept, WosCpu!AtMost, AtMost

(* The sampling thread of wos-cpu.                                          *)
LEMMA WosCpuThread ==
  ASSUME NEW t, Ready(t), kind = "wos_cpu", WosCpu!Collect(t)
  PROVE  ThreadStep(t)
<1>1. ~Late /\ MetricsOf = 2 /\ WosCpu!Metrics = 2
  BY MetricsAre DEF Late, EagerFlag, Kind, WosCpu!Metrics
<1>2. CASE WosCpu!CollectSetup(t)
  <2>1. CASE (~listed /\ Undefined("list_freed")) \/
               (request = NoRequest /\ Undefined("request_freed"))
    BY <2>1 DEF ThreadStep, Ready, Falling, Cause, Fault
  <2>2. CASE pc[t] = "begin" /\ WosCpu!GiveUp(t, running)
    BY <1>1, <2>2, QuitStep, WosCpuSteps, WosCpuSame DEF WosCpu!GiveUp, Ready, TypeOK
  <2> DEFINE r == WosCpu!Mended(request)
             b == Buffer(r, r.streaming \div r.sampling, 2)
  <2>3. CASE request # NoRequest /\ r.sampling = 0 /\ Undefined("divide_by_zero")
    BY <2>3, Mending DEF ThreadStep, Ready, TypeOK, Falling, Cause, Fault
  <2>4. CASE /\ pc[t] = "begin" /\ request # NoRequest /\ r.sampling # 0 /\ request' = r
             /\ Move(t, NoBuffer, "done") \/ Move(t, b, "rest")
             /\ UNCHANGED <<registry, started, appPc, fresh, flag, sent, fault>>
    <3>1. r \in Requests /\ r.sampling > 0
      BY <2>4, Mending, RequestTypes DEF Ready, TypeOK
    <3>2. b \in Buffers /\ b.info = "none" /\ Filling(2, b, "rest")
      BY <3>1, Quotas, BufferMade
    <3>3. NoBuffer \in Buffers /\ NoBuffer.info = "none" /\ Filling(2, NoBuffer, "done")
      BY BufferOps, FillingMoves DEF Ready, BufferInv
    <3>4. Opened(b, r)
      <4>1. r.streaming \div r.sampling \in Nat
        BY <3>1, Quotas
      <4> QED
        BY <3>1, <4>1, OpenedFloored
    <3>5. r # NoRequest
      BY <2>4, RequestKnown DEF Ready, TypeOK
    <3> HIDE DEF b, r
    <3>6. CASE Move(t, NoBuffer, "done")
      BY <1>1, <2>4, <3>3, <3>6 DEF Ready, ThreadStep, Moving, Move, Pc, Change, r
    <3>7. CASE Move(t, b, "rest")
      BY <1>1, <2>4, <3>2, <3>4, <3>5, <3>7 DEF Ready, ThreadStep, Moving, Move, Pc, Change, r
    <3> QED
      BY <2>4, <3>6, <3>7
  <2> QED
    BY <1>1, <1>2, <2>1, <2>2, <2>3, <2>4, WosCpuSteps, WosCpuSame DEF WosCpu!CollectSetup
<1>3. CASE WosCpu!CollectCheck(t)
  <2>1. CASE running
    BY <1>3, <2>1, CheckStep, WosCpuSteps DEF WosCpu!CollectCheck, Before
  <2>2. CASE ~running
    BY <1>3, <2>2, QuitStep, WosCpuSteps, WosCpuSame DEF WosCpu!CollectCheck, Goto
  <2> QED
    BY <2>1, <2>2
<1>4. CASE WosCpu!CollectSample(t)
  <2>1. CASE request = NoRequest /\ Undefined("request_freed")
    BY <2>1 DEF ThreadStep, Ready, Falling, Cause, Fault
  <2>2. CASE ~(request = NoRequest /\ Undefined("request_freed"))
    <3> DEFINE b(n) == WosCpu!Filled(buf[t], n)
               full(n) == b(n).count >= b(n).quota \/ b(n).len >= b(n).room
               dropped(n) == IF b(n).len = 0 THEN [b(n) EXCEPT !.since = 0]
                                             ELSE WosCpu!Emptied(b(n))
    <3>1. PICK n \in {0, 2}, elapsed \in WosCpu!Elapsed(buf[t]) :
            WosCpu!Judge(t, b(n), full(n) \/ elapsed, b(n).len > 0, dropped(n), "rest")
      BY <1>1, <1>4, <2>2, WosCpuSteps DEF WosCpu!CollectSample
    <3>2. \/ b(n).len > 0 /\ WosCpu!Goto(t, b(n), "deliver")
          \/ ~(b(n).count >= b(n).quota) /\ WosCpu!Goto(t, b(n), "rest")
          \/ b(n).len = 0 /\ WosCpu!Goto(t, [b(n) EXCEPT !.since = 0], "rest")
          \/ ~(b(n).len = 0) /\ WosCpu!Goto(t, WosCpu!Emptied(b(n)), "rest")
      BY <3>1 DEF WosCpu!Judge
    <3>3. pc[t] = "sample" /\ buf[t] \in Buffers /\ n \in Nat
      BY <1>4 DEF WosCpu!CollectSample, Ready, BufferInv
    <3>4. b(n) = Filled(buf[t], n) /\ b(n) \in Buffers /\ b(n).count \in Nat /\
            b(n).quota \in Nat
      BY <3>3, BufferOps, WosCpuSame DEF Buffers
    <3>5. n \in Nat /\ n <= MetricsOf /\ "rest" \in {"loop", "rest"} /\ "rest" = After
      BY <1>1 DEF After
    <3> HIDE DEF b
    <3>6. \/ b(n).len > 0 /\ Goto(t, b(n), "deliver")
          \/ b(n).count < b(n).quota /\ Goto(t, b(n), "rest")
          \/ b(n).len = 0 /\ Goto(t, [b(n) EXCEPT !.since = 0], "rest")
          \/ Goto(t, Emptied(b(n)), "rest")
      BY <3>2, <3>4, WosCpuSame, WosCpuSteps
    <3> QED
      BY <3>3, <3>4, <3>5, <3>6, SampleStep
  <2> QED
    BY <2>1, <2>2
<1>5. CASE WosCpu!CollectDeliver(t)
  BY <1>5, DeliverStep, WosCpuSteps DEF WosCpu!CollectDeliver
<1>6. CASE WosCpu!CollectReturn(t)
  BY <1>6, ReturnStep, WosCpuSteps, WosCpuSame DEF WosCpu!CollectReturn, After
<1>7. CASE WosCpu!CollectRest(t)
  BY <1>7, SleepStep, RequestTypes, WosCpuSteps DEF WosCpu!CollectRest, Ready, TypeOK, Awake
<1> QED
  BY <1>2, <1>3, <1>4, <1>5, <1>6, <1>7 DEF WosCpu!Collect

(* The helpers of wos-power are those of SamplerSession,                    *)
LEMMA WosPowerSame ==
  /\ WosPower!NoBuffer = NoBuffer /\ \A b : WosPower!Elapsed(b) = Elapsed(b)
  /\ \A r, q, m : WosPower!Buffer(r, q, m) = Buffer(r, q, m)
  /\ \A r : WosPower!Ceiling(r) = Ceiling(r)
  /\ \A b, n : WosPower!Filled(b, n) = Filled(b, n)
  /\ \A b : WosPower!Emptied(b) = Emptied(b)
BY DEF WosPower!NoBuffer, NoBuffer, WosPower!Buffer, Buffer, WosPower!Ceiling, Ceiling,
   WosPower!AtMost, AtMost,
       WosPower!Filled, Filled, WosPower!Emptied, Emptied, WosPower!Elapsed, Elapsed

(* and so are its steps.                                                    *)
LEMMA WosPowerSteps ==
  /\ \A t, b, at : WosPower!Goto(t, b, at) <=> Goto(t, b, at)
  /\ \A t, b, at : WosPower!Move(t, b, at) <=> Move(t, b, at)
  /\ \A f : WosPower!Undefined(f) <=> Undefined(f)
  /\ \A t, n : WosPower!Deliver(t, n) <=> Deliver(t, n)
  /\ \A t, ms, at : WosPower!Sleep(t, ms, at) <=> Sleep(t, ms, at)
  /\ \A t : WosPower!SetFlag(t) <=> SetFlag(t)
BY DEF WosPower!Goto, Goto, WosPower!Move, Move, WosPower!Undefined, Undefined,
   WosPower!Deliver, Deliver,
       WosPower!Sleep, Sleep, WosPower!SetFlag, SetFlag, WosPower!Slept, Slept,
         WosPower!AtMost, AtMost

(* The sampling thread of wos-power.                                        *)
LEMMA WosPowerThread ==
  ASSUME NEW t, Ready(t), kind = "wos_power", WosPower!Collect(t)
  PROVE  ThreadStep(t)
<1>1. ~Late /\ MetricsOf = 2 /\ WosPower!Metrics = 2
  BY MetricsAre DEF Late, EagerFlag, Kind, WosPower!Metrics
<1>2. CASE WosPower!CollectSetup(t)
  <2>1. CASE request = NoRequest /\ Undefined("request_freed")
    BY <2>1 DEF ThreadStep, Ready, Falling, Cause, Fault
  <2>2. CASE pc[t] = "begin" /\ WosPower!GiveUp(t, running)
    BY <1>1, <2>2, QuitStep, WosPowerSteps, WosPowerSame DEF WosPower!GiveUp, Ready, TypeOK
  <2> DEFINE b(each) == Buffer(request, WosPower!SampleCount(request), each)
  <2>3. CASE /\ pc[t] = "begin" /\ request # NoRequest /\ request' = WosPower!Mended(request)
             /\ Move(t, NoBuffer, "done") \/ \E each \in {0, 2}, at \in {"loop", "rest"} :
                  Move(t, b(each), at)
             /\ UNCHANGED <<registry, started, appPc, fresh, flag, sent, fault>>
    <3>1. /\ request \in Requests /\ WosCpu!Mended(request) \in Requests
          /\ request'= WosCpu!Mended(request)
      BY <2>3, Mending DEF Ready, TypeOK
    <3>2. /\ WosPower!SampleCount(request) \in Nat
          /\ \E x \in Requests : WosPower!SampleCount(request) * 2 <= Most(2, x)
      <4>1. CASE WosPower!Unusable(request)
        <5> DEFINE x == WosCpu!Mended(request)
        <5>1. x \in Requests /\ x.streaming \in Nat /\ x.sampling = x.streaming
          BY <3>1, <4>1, Mending, RequestTypes
        <5>2. 2 <= Most(2, x)
          <6>1. CASE x.streaming = 0
            BY <5>1, <6>1 DEF Most
          <6>2. CASE x.streaming > 0
            <7>1. Ceiling(x) \in Nat /\ 1 <= Ceiling(x)
              <8>1. x.sampling \in Nat \ {0}
                BY <5>1, <6>2
              <8> QED
                BY <5>1, <6>2, <8>1, Rounding DEF Ceiling
            <7> QED
              BY <5>1, <6>2, <7>1 DEF Most
          <6> QED
            BY <5>1, <6>1, <6>2
        <5> QED
          BY <4>1, <5>1, <5>2 DEF WosPower!SampleCount
      <4>2. CASE ~WosPower!Unusable(request)
        <5>1. request.sampling > 0
          BY <3>1, <4>2, RequestTypes DEF WosPower!Unusable
        <5> QED
          BY <3>1, <4>2, <5>1, Quotas DEF WosPower!SampleCount
      <4> QED
        BY <4>1, <4>2
    <3>3. ASSUME NEW each \in {0, 2}, NEW at \in {"loop", "rest"}
          PROVE  b(each) \in Buffers /\ b(each).info = "none" /\ Filling(2, b(each), at)
      <4>1. /\ Buffer(request, WosPower!SampleCount(request), each) \in Buffers
            /\ Buffer(request, WosPower!SampleCount(request), each).info = "none"
            /\ \A x \in {"find", "loop", "rest"} :
                 Filling(2, Buffer(request, WosPower!SampleCount(request), each), x)
        BY ONLY <3>1, <3>2, TwoMetrics, each \in {0, 2}
      <4> QED
        BY <4>1
    <3>4. NoBuffer \in Buffers /\ NoBuffer.info = "none" /\ Filling(2, NoBuffer, "done")
      BY BufferOps, FillingMoves DEF Ready, BufferInv
    <3> HIDE DEF b
    <3>5. CASE Move(t, NoBuffer, "done")
      BY <1>1, <2>3, <3>1, <3>4, <3>5 DEF Ready, ThreadStep, Moving, Move, Pc, Change
    <3>6. ASSUME NEW each \in {0, 2}, NEW at \in {"loop", "rest"}, Move(t, b(each), at)
          PROVE  ThreadStep(t)
      <4>1. Opened(b(each), request') /\ request' # NoRequest
        <5> DEFINE r == WosCpu!Mended(request)
        <5>1. r \in Requests /\ r # NoRequest /\ each \in Nat
          BY <3>1, RequestKnown
        <5>2. b(each) = Buffer(r, WosPower!SampleCount(request), each)
          <6>1. r.streaming = request.streaming
            BY <3>1, Mending
          <6> QED
            BY <6>1 DEF Buffer, b
        <5>3. \/ r.sampling > 0 /\ WosPower!SampleCount(request) = r.streaming \div r.sampling
              \/ WosPower!SampleCount(request) = 1 /\ r.sampling = r.streaming
          <6>1. CASE WosPower!Unusable(request)
            BY <3>1, <6>1, Mending DEF WosPower!SampleCount
          <6>2. CASE ~WosPower!Unusable(request)
            BY <3>1, <6>2, Mending, RequestTypes DEF WosPower!SampleCount, WosPower!Unusable
          <6> QED
            BY <6>1, <6>2
        <5>4. Opened(Buffer(r, WosPower!SampleCount(request), each), r)
          <6> HIDE DEF r
          <6> QED
            BY <3>2, <5>1, <5>3, OpenedFloored
        <5> QED
          BY <3>1, <5>1, <5>2, <5>4
      <4>2. b(each) \in Buffers /\ b(each).info = "none" /\ Filling(2, b(each), at)
        BY <3>3
      <4> DEFINE v == b(each)
      <4>3. Opened(v, request') /\ request' # NoRequest /\ v \in Buffers /\ v.info = "none" /\
              Filling(2, v, at)
        BY <4>1, <4>2
      <4>4. Move(t, v, at)
        BY <3>6
      <4> HIDE DEF v, b
      <4>5. Change(t, v, at)
        BY <2>3, <4>3 DEF Change
      <4>6. Moving(t, v, at)
        BY <1>1, <2>3, <3>1, <4>3, <4>4, <4>5 DEF Ready, Moving
      <4> QED
        BY <1>1, <4>3, <4>6 DEF Ready, ThreadStep, Pc
    <3> QED
      BY <2>3, <3>5, <3>6
  <2> QED
    BY <1>1, <1>2, <2>1, <2>2, <2>3, WosPowerSteps, WosPowerSame DEF WosPower!CollectSetup
<1>3. CASE WosPower!CollectCheck(t)
  <2>1. CASE running
    BY <1>3, <2>1, CheckStep, WosPowerSteps DEF WosPower!CollectCheck, Before
  <2>2. CASE ~running
    BY <1>3, <2>2, QuitStep, WosPowerSteps, WosPowerSame DEF WosPower!CollectCheck, Goto
  <2> QED
    BY <2>1, <2>2
<1>4. CASE WosPower!CollectSample(t)
  <2>1. CASE request = NoRequest /\ Undefined("request_freed")
    BY <2>1 DEF ThreadStep, Ready, Falling, Cause, Fault
  <2>2. CASE ~(request = NoRequest /\ Undefined("request_freed"))
    <3> DEFINE b(n) == WosPower!Filled(buf[t], n)
               full(n) == b(n).count >= b(n).quota \/ b(n).len >= b(n).room
               dropped(n) == IF b(n).len = 0 THEN [b(n) EXCEPT !.since = 0]
                                             ELSE WosPower!Emptied(b(n))
    <3>1. PICK n \in {0, 2}, elapsed \in WosPower!Elapsed(buf[t]) :
            WosPower!Judge(t, b(n), full(n) \/ elapsed, b(n).len > 0, dropped(n), "rest")
      BY <1>1, <1>4, <2>2, WosPowerSteps DEF WosPower!CollectSample
    <3>2. \/ b(n).len > 0 /\ WosPower!Goto(t, b(n), "deliver")
          \/ ~(b(n).count >= b(n).quota) /\ WosPower!Goto(t, b(n), "rest")
          \/ b(n).len = 0 /\ WosPower!Goto(t, [b(n) EXCEPT !.since = 0], "rest")
          \/ ~(b(n).len = 0) /\ WosPower!Goto(t, WosPower!Emptied(b(n)), "rest")
      BY <3>1 DEF WosPower!Judge
    <3>3. pc[t] = "sample" /\ buf[t] \in Buffers /\ n \in Nat
      BY <1>4 DEF WosPower!CollectSample, Ready, BufferInv
    <3>4. b(n) = Filled(buf[t], n) /\ b(n) \in Buffers /\ b(n).count \in Nat /\
            b(n).quota \in Nat
      BY <3>3, BufferOps, WosPowerSame DEF Buffers
    <3>5. n \in Nat /\ n <= MetricsOf /\ "rest" \in {"loop", "rest"} /\ "rest" = After
      BY <1>1 DEF After
    <3> HIDE DEF b
    <3>6. \/ b(n).len > 0 /\ Goto(t, b(n), "deliver")
          \/ b(n).count < b(n).quota /\ Goto(t, b(n), "rest")
          \/ b(n).len = 0 /\ Goto(t, [b(n) EXCEPT !.since = 0], "rest")
          \/ Goto(t, Emptied(b(n)), "rest")
      BY <3>2, <3>4, WosPowerSame, WosPowerSteps
    <3> QED
      BY <3>3, <3>4, <3>5, <3>6, SampleStep
  <2> QED
    BY <2>1, <2>2
<1>5. CASE WosPower!CollectDeliver(t)
  BY <1>5, DeliverStep, WosPowerSteps DEF WosPower!CollectDeliver
<1>6. CASE WosPower!CollectReturn(t)
  BY <1>6, ReturnStep, WosPowerSteps, WosPowerSame DEF WosPower!CollectReturn, After
<1>7. CASE WosPower!CollectRest(t)
  BY <1>7, SleepStep, RequestTypes, WosPowerSteps DEF WosPower!CollectRest, Ready, TypeOK, Awake
<1> QED
  BY <1>2, <1>3, <1>4, <1>5, <1>6, <1>7 DEF WosPower!Collect

(* The helpers of wos-thermal are those of SamplerSession,                  *)
LEMMA WosThermalSame ==
  /\ WosThermal!NoBuffer = NoBuffer /\ \A b : WosThermal!Elapsed(b) = Elapsed(b)
  /\ \A r, q, m : WosThermal!Buffer(r, q, m) = Buffer(r, q, m)
  /\ \A r : WosThermal!Ceiling(r) = Ceiling(r)
  /\ \A b, n : WosThermal!Filled(b, n) = Filled(b, n)
  /\ \A b : WosThermal!Emptied(b) = Emptied(b)
BY DEF WosThermal!NoBuffer, NoBuffer, WosThermal!Buffer, Buffer, WosThermal!Ceiling, Ceiling,
   WosThermal!AtMost, AtMost,
       WosThermal!Filled, Filled, WosThermal!Emptied, Emptied, WosThermal!Elapsed, Elapsed

(* and so are its steps.                                                    *)
LEMMA WosThermalSteps ==
  /\ \A t, b, at : WosThermal!Goto(t, b, at) <=> Goto(t, b, at)
  /\ \A t, b, at : WosThermal!Move(t, b, at) <=> Move(t, b, at)
  /\ \A f : WosThermal!Undefined(f) <=> Undefined(f)
  /\ \A t, n : WosThermal!Deliver(t, n) <=> Deliver(t, n)
  /\ \A t, ms, at : WosThermal!Sleep(t, ms, at) <=> Sleep(t, ms, at)
  /\ \A t : WosThermal!SetFlag(t) <=> SetFlag(t)
BY DEF WosThermal!Goto, Goto, WosThermal!Move, Move, WosThermal!Undefined, Undefined,
   WosThermal!Deliver, Deliver,
       WosThermal!Sleep, Sleep, WosThermal!SetFlag, SetFlag, WosThermal!Slept, Slept,
         WosThermal!AtMost, AtMost

(* The sampling thread of wos-thermal.                                      *)
LEMMA WosThermalThread ==
  ASSUME NEW t, Ready(t), kind = "wos_thermal", WosThermal!Collect(t)
  PROVE  ThreadStep(t)
<1>1. Late /\ MetricsOf = 2 /\ WosThermal!Metrics = 2
  BY MetricsAre DEF Late, EagerFlag, Kind, WosThermal!Metrics
<1>2. CASE WosThermal!CollectBegin(t)
  <2>1. CASE request = NoRequest /\ Undefined("request_freed")
    BY <2>1 DEF ThreadStep, Ready, Falling, Cause, Fault
  <2> DEFINE b(each) == Buffer(request, request.streaming \div request.sampling, each)
  <2>2. CASE /\ pc[t] = "begin" /\ request # NoRequest /\ running' = TRUE
             /\ \E each \in {0, 2} : Move(t, b(each), "find")
             /\ UNCHANGED <<registry, client, handle, sent, fault>>
    <3>1. request \in Requests /\ request.sampling > 0
      BY <1>1, <2>2 DEF Ready, TypeOK, CheckedInv, InUse
    <3>2. ASSUME NEW each \in {0, 2}
          PROVE  b(each) \in Buffers /\ b(each).info = "none" /\ Filling(2, b(each), "find")
      <4>1. /\ request.streaming \div request.sampling \in Nat
            /\ (request.streaming \div request.sampling) * 2 <= Most(2, request)
        BY <3>1, Quotas
      <4>2. /\ Buffer(request, request.streaming \div request.sampling, each) \in Buffers
            /\ Buffer(request, request.streaming \div request.sampling, each).info = "none"
            /\ \A at \in {"find", "loop", "rest"} :
                 Filling(2, Buffer(request, request.streaming \div request.sampling, each), at)
        BY ONLY <3>1, <4>1, TwoMetrics, each \in {0, 2}
      <4> QED
        BY <4>2
    <3> HIDE DEF b
    <3> QED
      BY <1>1, <2>2, <3>2 DEF Ready, ThreadStep, Moving, Move, Pc, Change
  <2> QED
    <3>1. \A zones \in {0, 1} : 2 * zones \in {0, 2}
      OBVIOUS
    <3> QED
      BY <1>1, <1>2, <2>1, <2>2, <3>1, WosThermalSteps, WosThermalSame
         DEF WosThermal!CollectBegin
<1>3. CASE WosThermal!CollectSetup(t)
  <2>1. CASE pc[t] = "find" /\ (WosThermal!GiveUp(t, FALSE) \/ WosThermal!GiveUp(t, running))
    BY <1>1, <2>1, QuitStep, WosThermalSteps, WosThermalSame
       DEF WosThermal!GiveUp, Ready, TypeOK
  <2>2. CASE pc[t] = "find" /\ Goto(t, buf[t], "loop")
    <3>1. buf[t] \in Buffers /\ Filling(MetricsOf, buf[t], "loop")
      BY <2>2, FillingMoves, MetricsAre DEF Ready, TypeOK, BufferInv
    <3> QED
      BY <2>2, <3>1, GotoStep DEF Pc, Change
  <2> QED
    BY <1>3, <2>1, <2>2, WosThermalSteps DEF WosThermal!CollectSetup
<1>4. CASE WosThermal!CollectCheck(t)
  <2>1. CASE running
    BY <1>4, <2>1, CheckStep, WosThermalSteps DEF WosThermal!CollectCheck, Before
  <2>2. CASE ~running
    BY <1>4, <2>2, QuitStep, WosThermalSteps, WosThermalSame DEF WosThermal!CollectCheck, Goto
  <2> QED
    BY <2>1, <2>2
<1>5. CASE WosThermal!CollectSample(t)
  <2> DEFINE b(read) == IF read THEN [WosThermal!Filled(buf[t],
        2) EXCEPT !.said = WosThermal!Filled(buf[t], 2).len] ELSE buf[t]
  <2>1. PICK elapsed \in WosThermal!Elapsed(buf[t]), read \in BOOLEAN :
          WosThermal!Judge(t, b(read), WosThermal!CountOrTime(b(read), elapsed), TRUE,
            WosThermal!Emptied(b(read)), "rest")
    BY <1>1, <1>5 DEF WosThermal!CollectSample
  <2>2. pc[t] = "sample" /\ buf[t] \in Buffers /\ Filling(2, buf[t], "sample")
    BY <1>1, <1>5 DEF WosThermal!CollectSample, Ready, BufferInv
  <2>3. /\ b(read) \in Buffers /\ b(read).info = buf[t].info
        /\ Emptied(b(read)).info = buf[t].info
        /\ Filling(2, b(read), "deliver")
        /\ b(read).count < b(read).quota => Filling(2, b(read), "rest")
        /\ Emptied(b(read)) \in Buffers /\ Filling(2, Emptied(b(read)), "rest")
    <3>1. CASE read
      <4>1. b(read) = [Filled(buf[t], 2) EXCEPT !.said = Filled(buf[t], 2).len]
        BY <3>1, WosThermalSame
      <4>2. 2 \in 0 .. 2
        OBVIOUS
      <4> DEFINE f == Filled(buf[t], 2)
                 c == [f EXCEPT !.said = f.len]
      <4>3. /\ c \in Buffers /\ c.info = buf[t].info /\ Emptied(c).info = buf[t].info
            /\ Filling(2, c, "deliver")
            /\ c.count < c.quota => Filling(2, c, "rest")
            /\ Emptied(c) \in Buffers /\ Filling(2, Emptied(c), "rest")
        <5> SUFFICES Filling(2, buf[t], "sample") /\ buf[t] \in Buffers /\ kind = "wos_thermal"
          BY <4>2, SampleSaid
        <5> QED
          BY <2>2
      <4>4. b(read) = c
        BY <4>1
      <4> HIDE DEF b, c
      <4> QED
        BY ONLY <4>3, <4>4
    <3>2. CASE ~read
      <4>1. b(read) = buf[t]
        BY <3>2
      <4>2. Filling(2, buf[t], "deliver") /\ Filling(2, buf[t], "rest")
        BY <2>2 DEF Filling
      <4>3. Emptied(buf[t]) \in Buffers /\ Emptied(buf[t]).info = buf[t].info /\
              Filling(2, Emptied(buf[t]), "rest")
        BY <2>2, <4>2, BufferOps, FillingMoves
      <4> QED
        BY <2>2, <4>1, <4>2, <4>3
    <3> QED
      BY <3>1, <3>2
  <2> HIDE DEF b
  <2>4. \/ Goto(t, b(read), "deliver")
        \/ Goto(t, Emptied(b(read)), "rest")
        \/ ~(b(read).count >= b(read).quota) /\ Goto(t, b(read), "rest")
    BY <2>1, WosThermalSame, WosThermalSteps DEF WosThermal!Judge, WosThermal!CountOrTime
  <2>5. b(read).count \in Nat /\ b(read).quota \in Nat
    BY <2>3 DEF Buffers
  <2> QED
    BY <1>1, <2>2, <2>3, <2>4, <2>5, GotoStep DEF Pc, Change
<1>6. CASE WosThermal!CollectDeliver(t)
  BY <1>6, DeliverStep, WosThermalSteps DEF WosThermal!CollectDeliver
<1>7. CASE WosThermal!CollectReturn(t)
  BY <1>7, ReturnStep, WosThermalSteps, WosThermalSame DEF WosThermal!CollectReturn, After
<1>8. CASE WosThermal!CollectRest(t)
  <2>1. CASE running
    BY <1>8, <2>1, SleepStep, RequestTypes, WosThermalSteps
       DEF WosThermal!CollectRest, WosThermal!SleepIfRunning, Ready, TypeOK, Awake
  <2>2. CASE ~running
    BY <1>8, <2>2, CheckStep, WosThermalSteps
       DEF WosThermal!CollectRest, WosThermal!SleepIfRunning
  <2> QED
    BY <2>1, <2>2
<1> QED
  BY <1>2, <1>3, <1>4, <1>5, <1>6, <1>7, <1>8 DEF WosThermal!Collect

-----------------------------------------------------------------------------

(* A step is a step of the backend the run is about, and none follows an    *)
(* undefined one.                                                           *)
LEMMA Kinds == kind \in Kind /\ Next =>
  /\ fault = "none"
  /\ \/ kind = "dummy" /\ Dummy!Next
     \/ kind = "linux_cpu" /\ LinuxCpu!Next
     \/ kind = "dsp_npu" /\ DspNpu!Next
     \/ kind = "linux_thermal" /\ LinuxThermal!Next
     \/ kind = "wos_cpu" /\ WosCpu!Next
     \/ kind = "wos_power" /\ WosPower!Next
     \/ kind = "wos_thermal" /\ WosThermal!Next
BY DEF Next

(* Only a live thread takes a step.                                         *)
LEMMA ThreadsLive ==
  /\ \A t : Dummy!Collect(t) => Live(t)
  /\ \A t : LinuxCpu!Collect(t) => Live(t)
  /\ \A t : DspNpu!Collect(t) => Live(t)
  /\ \A t : LinuxThermal!Collect(t) => Live(t)
  /\ \A t : WosCpu!Collect(t) => Live(t)
  /\ \A t : WosPower!Collect(t) => Live(t)
  /\ \A t : WosThermal!Collect(t) => Live(t)
<1> USE DEF Live
<1>1. \A t : Dummy!Collect(t) => Live(t)
  BY DEF Dummy!Collect, Dummy!CollectBegin, Dummy!SetFlag, Dummy!CollectFind,
     Dummy!CollectCheck,
         Dummy!CollectSample, Dummy!CollectDeliver, Dummy!Deliver, Dummy!CollectReturn,
           Dummy!CollectRest
<1>2. \A t : LinuxCpu!Collect(t) => Live(t)
  BY DEF LinuxCpu!Collect, LinuxCpu!CollectBegin, LinuxCpu!SetFlag, LinuxCpu!CollectSetup,
     LinuxCpu!CollectCheck,
         LinuxCpu!CollectSample, LinuxCpu!CollectDeliver, LinuxCpu!Deliver,
           LinuxCpu!CollectReturn,
         LinuxCpu!CollectRest, LinuxCpu!CollectEnd
<1>3. \A t : DspNpu!Collect(t) => Live(t)
  BY DEF DspNpu!Collect, DspNpu!CollectBegin, DspNpu!SetFlag, DspNpu!CollectSetup,
     DspNpu!CollectCheck,
         DspNpu!CollectSample, DspNpu!CollectDeliver, DspNpu!Deliver, DspNpu!CollectReturn,
           DspNpu!CollectRest
<1>4. \A t : LinuxThermal!Collect(t) => Live(t)
  BY DEF LinuxThermal!Collect, LinuxThermal!CollectBegin, LinuxThermal!SetFlag,
     LinuxThermal!CollectSetup,
         LinuxThermal!CollectCheck, LinuxThermal!CollectSample, LinuxThermal!CollectDeliver,
           LinuxThermal!Deliver,
         LinuxThermal!CollectReturn, LinuxThermal!CollectRest, LinuxThermal!CollectEnd
<1>5. \A t : WosCpu!Collect(t) => Live(t)
  BY DEF WosCpu!Collect, WosCpu!CollectSetup, WosCpu!CollectCheck, WosCpu!CollectSample,
     WosCpu!CollectDeliver,
         WosCpu!Deliver, WosCpu!CollectReturn, WosCpu!CollectRest
<1>6. \A t : WosPower!Collect(t) => Live(t)
  BY DEF WosPower!Collect, WosPower!CollectSetup, WosPower!CollectCheck, WosPower!CollectSample,
         WosPower!CollectDeliver, WosPower!Deliver, WosPower!CollectReturn, WosPower!CollectRest
<1>7. \A t : WosThermal!Collect(t) => Live(t)
  BY DEF WosThermal!Collect, WosThermal!CollectBegin, WosThermal!CollectSetup,
     WosThermal!CollectCheck,
         WosThermal!CollectSample, WosThermal!CollectDeliver, WosThermal!Deliver,
           WosThermal!CollectReturn,
         WosThermal!CollectRest
<1> QED
  BY <1>1, <1>2, <1>3, <1>4, <1>5, <1>6, <1>7

(* Every step of every backend is one of these calls or a step of one of    *)
(* its live threads.                                                        *)
LEMMA EveryStep ==
  TypeOK /\ BufferInv /\ CheckedInv /\ Next =>
    fault = "none" /\ (AppStep \/ \E t \in Thread : ThreadStep(t))
<1> SUFFICES ASSUME TypeOK, BufferInv, CheckedInv, Next
             PROVE  fault = "none" /\ (AppStep \/ \E t \in Thread : ThreadStep(t))
  OBVIOUS
<1>1. TypeOK /\ BufferInv /\ CheckedInv /\ kind \in Kind /\ fault = "none"
  BY Kinds DEF TypeOK
<1>2. \A t \in Thread : Live(t) => Ready(t)
  BY <1>1 DEF Ready
<1>3. CASE kind = "dummy" /\ Dummy!Next
  BY <1>1, <1>2, <1>3, DummyCall, DummyThread, ThreadsLive DEF Dummy!Next
<1>4. CASE kind = "linux_cpu" /\ LinuxCpu!Next
  BY <1>1, <1>2, <1>4, LinuxCpuCall, LinuxCpuThread, ThreadsLive DEF LinuxCpu!Next
<1>5. CASE kind = "dsp_npu" /\ DspNpu!Next
  BY <1>1, <1>2, <1>5, DspNpuCall, DspNpuThread, ThreadsLive DEF DspNpu!Next
<1>6. CASE kind = "linux_thermal" /\ LinuxThermal!Next
  BY <1>1, <1>2, <1>6, LinuxThermalCall, LinuxThermalThread, ThreadsLive DEF LinuxThermal!Next
<1>7. CASE kind = "wos_cpu" /\ WosCpu!Next
  BY <1>1, <1>2, <1>7, WosCpuCall, WosCpuThread, ThreadsLive DEF WosCpu!Next
<1>8. CASE kind = "wos_power" /\ WosPower!Next
  BY <1>1, <1>2, <1>8, WosPowerCall, WosPowerThread, ThreadsLive DEF WosPower!Next
<1>9. CASE kind = "wos_thermal" /\ WosThermal!Next
  BY <1>1, <1>2, <1>9, WosThermalCall, WosThermalThread, ThreadsLive DEF WosThermal!Next
<1>10. \/ kind = "dummy" /\ Dummy!Next
       \/ kind = "linux_cpu" /\ LinuxCpu!Next
       \/ kind = "dsp_npu" /\ DspNpu!Next
       \/ kind = "linux_thermal" /\ LinuxThermal!Next
       \/ kind = "wos_cpu" /\ WosCpu!Next
       \/ kind = "wos_power" /\ WosPower!Next
       \/ kind = "wos_thermal" /\ WosThermal!Next
  BY <1>1, Kinds
<1> QED
  BY <1>1, <1>3, <1>4, <1>5, <1>6, <1>7, <1>8, <1>9, <1>10
=============================================================================
