------------------------------ MODULE Samplers ------------------------------
(***************************************************************************)
(* The seven backends that share SamplerSession, one per behaviour: the    *)
(* initial states choose which.  The four over Linux and the dummy leave   *)
(* the running flag to the thread (late flag), as wos-thermal does;        *)
(* wos-cpu and wos-power set it in start (eager flag).                     *)
(***************************************************************************)
EXTENDS SamplerSession

Dummy == INSTANCE DummyBackend
LinuxCpu == INSTANCE LinuxCpuBackend
DspNpu == INSTANCE DspNpuBackend
LinuxThermal == INSTANCE LinuxThermalBackend
WosCpu == INSTANCE WosCpuBackend
WosPower == INSTANCE WosPowerBackend
WosThermal == INSTANCE WosThermalBackend

Init ==
  \/ Dummy!Init \/ LinuxCpu!Init \/ DspNpu!Init \/ LinuxThermal!Init
  \/ WosCpu!Init \/ WosPower!Init \/ WosThermal!Init

(* After an undefined step anything may happen; the model stops there.      *)
Next ==
  /\ fault = "none"
  /\ \/ kind = "dummy" /\ Dummy!Next
     \/ kind = "linux_cpu" /\ LinuxCpu!Next
     \/ kind = "dsp_npu" /\ DspNpu!Next
     \/ kind = "linux_thermal" /\ LinuxThermal!Next
     \/ kind = "wos_cpu" /\ WosCpu!Next
     \/ kind = "wos_power" /\ WosPower!Next
     \/ kind = "wos_thermal" /\ WosThermal!Next

(* A call of the application that has begun goes on.                        *)
AppCall ==
  /\ fault = "none"
  /\ \/ kind = "dummy" /\ Dummy!AppCall
     \/ kind = "linux_cpu" /\ LinuxCpu!AppCall
     \/ kind = "dsp_npu" /\ DspNpu!AppCall
     \/ kind = "linux_thermal" /\ LinuxThermal!AppCall
     \/ kind = "wos_cpu" /\ WosCpu!AppCall
     \/ kind = "wos_power" /\ WosPower!AppCall
     \/ kind = "wos_thermal" /\ WosThermal!AppCall

Collect(t) ==
  /\ fault = "none"
  /\ \/ kind = "dummy" /\ Dummy!Collect(t)
     \/ kind = "linux_cpu" /\ LinuxCpu!Collect(t)
     \/ kind = "dsp_npu" /\ DspNpu!Collect(t)
     \/ kind = "linux_thermal" /\ LinuxThermal!Collect(t)
     \/ kind = "wos_cpu" /\ WosCpu!Collect(t)
     \/ kind = "wos_power" /\ WosPower!Collect(t)
     \/ kind = "wos_thermal" /\ WosThermal!Collect(t)

(* Threads are scheduled; the application need not call anything, but is    *)
(* scheduled inside a call.                                                 *)
Fairness == WF_vars(AppCall) /\ \A t \in Thread : WF_vars(Collect(t))

Spec == Init /\ [][Next]_vars /\ Fairness

-----------------------------------------------------------------------------
EagerFlag == {"wos_cpu", "wos_power"}
Requests == Request \cup {WosCpu!Mended(r) : r \in Request}

TypeOK ==
  /\ kind \in Kind /\ listed \in BOOLEAN /\ offered \in BOOLEAN /\ cut \in BOOLEAN
  /\ dataCallback \in {"none", "mine", "stale"} /\ provider \in {"closed", "open", "stuck"}
  /\ appended \in 0 .. 2
  /\ running \in BOOLEAN /\ started \in BOOLEAN
  /\ handle \in Thread \cup {NoThread} /\ fresh \in Thread \cup {NoThread}
  /\ request \in Requests \cup {NoRequest}
  /\ appPc \in AppPc /\ pc \in [Thread -> Pc]
  /\ \A t \in Thread : /\ buf[t].info \in {"none", "held", "freed"}
                       /\ buf[t].len \in 0 .. buf[t].room /\ buf[t].count \in 0 .. buf[t].quota
                       /\ buf[t].since \in 0 .. 2 * buf[t].rate
  /\ batches \in {0, 1} /\ batch \in Nat \cup {NoBatch}
  /\ fault \in Fault

(* No thread reads freed memory, samples through a closed library or calls  *)
(* a NULL callback: the pointers a sampling thread keeps to the request, to *)
(* the capability list and into its library outlive it.                     *)
NoFault == fault = "none"

(* At most one sampling thread lives, and it is the one whose handle start  *)
(* has stored or is about to store.                                         *)
CollectorOwned == \A t \in Thread : Live(t) => t = IF appPc = "start_store" THEN fresh ELSE handle

(* Once stop has returned, or before a start has succeeded, no sampling     *)
(* thread is left.                                                          *)
QuietUnlessStarted == appPc = "idle" /\ ~started => \A t \in Thread : ~Live(t)

(* The responses of a sample, as the backend lists its metrics.             *)
MetricsOf == CASE kind = "dummy" -> Dummy!MetricCount
               [] kind = "linux_cpu" -> LinuxCpu!Metrics
               [] kind = "dsp_npu" -> DspNpu!Metrics
               [] kind = "linux_thermal" -> LinuxThermal!Metrics
               [] kind = "wos_cpu" -> WosCpu!Metrics
               [] kind = "wos_power" -> WosPower!Metrics
               [] kind = "wos_thermal" -> WosThermal!Metrics

(* A thread that has a buffer has room in it for a whole sample whenever it *)
(* takes one, though batches are sent by count or by time, and samples may  *)
(* be missing.  Not of linux-cpu, whose samples may have more responses     *)
(* than it listed when it allocated: it drops what does not fit.            *)
BufferNeverFull ==
  kind # "linux_cpu" =>
    \A t \in Thread : pc[t] = "sample" /\ buf[t].room > 0 => buf[t].len + MetricsOf <= buf[t].room

(* A batch leaves at the latest one sampling period after its streaming     *)
(* period has passed.  Not of the dummy, which sleeps for the wrong rate,   *)
(* nor of wos-thermal, where a sample that fails does not count.            *)
Timely ==
  kind \notin {"dummy", "wos_thermal"} =>
    \A t \in Thread : pc[t] = "deliver" => buf[t].since <= buf[t].rate + request.sampling

(* Once the application has set its callback in this connection, no data    *)
(* go to the callback of an earlier one.  Not of the dummy and the DSP,     *)
(* whose deinit forgets to clear it and whose setter then refuses the new.  *)
CallbackIsCurrent ==
  (\E t \in Thread : pc[t] = "deliver") /\ offered /\ kind \notin {"dummy", "dsp_npu"}
    => dataCallback = "mine"

(* A start that sets the flag itself needs no patience: as long as sessions *)
(* are stopped and not cut off by a disconnect, one thread lives at a time, *)
(* it touches nothing that is gone, and it is quiet between sessions.  Only *)
(* the request of zero rates still brings wos-cpu down.                     *)
EagerFlagIsSafe ==
  kind \in EagerFlag /\ ~cut =>
    /\ fault \in {"none", "divide_by_zero"}
    /\ CollectorOwned /\ QuietUnlessStarted

(* Between sessions wos-cpu has its telemetry closed, however the last one  *)
(* ended, unless a disconnect cut it off.                                   *)
TelemetryClosed ==
  kind = "wos_cpu" /\ appPc = "idle" /\ ~started /\ ~cut => provider = "closed"

-----------------------------------------------------------------------------
(* The promise of CollectorSession, as the application sees it: one session *)
(* per start that worked, data only inside it, in batches of a size the     *)
(* request calls for, and stops that end.  wos-thermal may send an empty    *)
(* batch.                                                                   *)
session ==
  IF ~started /\ appPc # "start_store" THEN "idle"
  ELSE IF appPc \in {"stop_check", "stop_join", "stop_destroy"} THEN "stopping"
  ELSE IF \E t \in Thread : Live(t) THEN "active" ELSE "dead"

Largest(r) == MetricsOf * IF r.sampling = 0 THEN 1 ELSE Ceiling(r)
Legal(n) == /\ \E r \in Requests : n <= Largest(r)
            /\ n = 0 => kind = "wos_thermal"

Promise == INSTANCE CollectorSession
  WITH BatchSizes <- {1}, batch <- IF batch = NoBatch THEN 0 ELSE IF Legal(batch) THEN 1 ELSE 2
KeepsPromise == Promise!SSpec
=============================================================================
