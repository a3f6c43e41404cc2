-------------------------- MODULE Samplers_proofs ---------------------------
(***************************************************************************)
(* The theorems about the seven sampling backends.  The inductive          *)
(* invariant has a part that holds for any application (SharedInv), one    *)
(* for the backends whose start sets the flag (EagerInv), and two for a    *)
(* patient application: what its thread reads is there (PatientInv), and   *)
(* its batches are in time (TimelyInv).                                    *)
(* Liveness is TLC's: KeepsPromise is proved here without its fairness.    *)
(***************************************************************************)
EXTENDS SamplersSteps_proofs

(***************************************************************************)
(* The requests of the application that a backend can be reading have      *)
(* streaming rates; a careful application also stops before it disconnects *)
(* and waits for its threads.                                              *)
(***************************************************************************)
Patient == StopsFirst /\ AppWaits /\ \A r \in Request : r.streaming # 0

CallbackInv ==
  kind \notin {"dummy", "dsp_npu"} =>
    /\ offered => dataCallback = "mine"
    /\ dataCallback = "stale" =>
         kind = "wos_power" \/ (kind = "wos_thermal" /\ ~listed /\ provider = "stuck")

Equipped == listed /\ request # NoRequest /\ dataCallback # "none"

(* The one thread that may live, by the call the application is in.         *)
Owner(t) ==
  \/ appPc = "start_store" /\ t = fresh
  \/ appPc \in {"idle", "stop_check", "stop_join"} /\ started /\ t = handle
Owned == \A t \in Thread : Live(t) => Owner(t)

EagerInv ==
  ~Late /\ ~cut =>
    /\ fault \in {"none", "divide_by_zero"}
    /\ \A t \in Thread : buf[t].info # "freed"
    /\ appPc \notin {"close_join", "close"}
    /\ appPc \in {"idle", "stop_check"} => (running <=> started)
    /\ appPc \in {"start_create", "start_store"} => running /\ ~started /\ Equipped
    /\ appPc \in {"stop_join", "stop_destroy"} => started /\ ~running
    /\ started => Equipped
    /\ Owned
    /\ kind = "wos_cpu" /\ ~started /\ appPc \notin {"start_create", "start_store"} =>
         provider = "closed"

PatientInv ==
  Patient =>
    /\ ~cut
    /\ request # NoRequest => request.streaming # 0
    /\ fault # "divide_by_zero"
    /\ Late =>
         /\ fault = "none"
         /\ \A t \in Thread : buf[t].info # "freed"
         /\ appPc \in {"start_create", "start_store"} => Equipped
         /\ kind = "dsp_npu" /\ listed => provider = "open"
         /\ Owned
         /\ \A t \in Thread : Live(t) =>
              /\ Equipped
              /\ appPc = "stop_check" => running
              /\ appPc \in {"stop_check", "stop_join"} => pc[t] \notin {"begin", "find"}

(* Counts and clocks of a patient application's thread: full and done are   *)
(* the ms that the samples of a batch, and those it has, take.              *)
Clock(b, at, s, full, done) ==
  /\ full <= b.rate + s
  /\ at \in {"sample"} \cup (IF kind = "linux_cpu" THEN {} ELSE {"loop"}) =>
       b.since <= done + s /\ (b.count = b.quota => b.since <= s)
  /\ at \in {"rest"} \cup (IF kind = "linux_cpu" THEN {"loop"} ELSE {}) =>
       b.since <= done /\ (b.count = b.quota => b.since = 0)
  /\ at = "deliver" => b.since <= b.rate + s
InTime(b, at, s) == Clock(b, at, s, b.quota * s, b.count * s)

TimelyInv ==
  Patient /\ kind \notin {"dummy", "wos_thermal"} =>
    \A t \in Thread : pc[t] \in {"loop", "sample", "rest", "deliver", "callback"} /\
         request # NoRequest =>
      InTime(buf[t], pc[t], request.sampling)

SharedInv == TypeOK /\ BufferInv /\ CheckedInv /\ CallbackInv
SamplersInv == SharedInv /\ EagerInv /\ PatientInv /\ TimelyInv

-----------------------------------------------------------------------------
USE DEF registry, client, flag, threads, sent,
        Dummy!registry, Dummy!client, Dummy!flag, Dummy!threads, Dummy!sent,
        LinuxCpu!registry, LinuxCpu!client, LinuxCpu!flag, LinuxCpu!threads, LinuxCpu!sent,
        DspNpu!registry, DspNpu!client, DspNpu!flag, DspNpu!threads, DspNpu!sent,
        LinuxThermal!registry, LinuxThermal!client, LinuxThermal!flag, LinuxThermal!threads,
          LinuxThermal!sent,
        WosCpu!registry, WosCpu!client, WosCpu!flag, WosCpu!threads, WosCpu!sent,
        WosPower!registry, WosPower!client, WosPower!flag, WosPower!threads, WosPower!sent,
        WosThermal!registry, WosThermal!client, WosThermal!flag, WosThermal!threads,
          WosThermal!sent

-----------------------------------------------------------------------------
(* The invariant of any application.                                        *)

Flags == listed \in BOOLEAN /\ offered \in BOOLEAN /\ cut \in BOOLEAN /\
  running \in BOOLEAN /\ started \in BOOLEAN
Ranges ==
  /\ kind \in Kind /\ dataCallback \in {"none", "mine", "stale"}
  /\ provider \in {"closed", "open", "stuck"}
  /\ appended \in 0 .. 2
  /\ handle \in Thread \cup {NoThread} /\ fresh \in Thread \cup {NoThread}
  /\ request \in Requests \cup {NoRequest}
  /\ appPc \in AppPc /\ pc \in [Thread -> Pc]
  /\ batches \in {0, 1} /\ batch \in Nat \cup {NoBatch}
  /\ fault \in Fault

(* The type invariant in two parts, one of them Boolean; what it says of    *)
(* the buffers follows from BufferInv.                                      *)
LEMMA TypeParts == BufferInv => (TypeOK <=> Flags /\ Ranges)
<1>1. BufferInv => \A t \in Thread : /\ buf[t].info \in {"none", "held", "freed"}
                       /\ buf[t].len \in 0 .. buf[t].room /\ buf[t].count \in 0 .. buf[t].quota
                       /\ buf[t].since \in 0 .. 2 * buf[t].rate
  <2> SUFFICES ASSUME BufferInv, NEW t \in Thread
               PROVE  /\ buf[t].info \in {"none", "held", "freed"}
                      /\ buf[t].len \in 0 .. buf[t].room /\ buf[t].count \in 0 .. buf[t].quota
                      /\ buf[t].since \in 0 .. 2 * buf[t].rate
    OBVIOUS
  <2>1. buf[t] \in Buffers /\ Filling(MetricsOf, buf[t], pc[t])
    BY DEF BufferInv
  <2>2. buf[t].len <= buf[t].room /\ buf[t].count <= buf[t].quota /\
          buf[t].since <= 2 * buf[t].rate
    BY <2>1 DEF Filling
  <2> QED
    BY <2>1, <2>2 DEF Buffers
<1> QED
  BY <1>1 DEF TypeOK, Flags, Ranges

(* Calls keep the flags Boolean.                                            *)
LEMMA CallFlags == Flags /\ AppStep => Flags'
<1> USE DEF Flags
<1> SUFFICES ASSUME Flags, AppStep PROVE Flags'
  OBVIOUS
<1>1. CASE AllocRequest \/ FreeRequest \/ CallStop \/ StoreHandle
  BY <1>1 DEF AllocRequest, FreeRequest, CallStop, StoreHandle
<1>2. CASE Connecting \/ Installing \/ Disconnecting
  BY <1>2 DEF Connecting, Installing, Install, Disconnecting, Disconnect
<1>3. CASE Starting \/ Creating
  BY <1>3 DEF Starting, BeginStart, Creating, CreateThread
<1>4. CASE CheckFlag \/ Joining \/ Destroying
  BY <1>4 DEF CheckFlag, Joining, JoinThread, Destroying, DestroyThread
<1>5. CASE Closing
  BY <1>5 DEF Closing, WosThermal!Deinit, WosThermal!DeinitJoin, WosThermal!DeinitClose
<1> QED
  BY <1>1, <1>2, <1>3, <1>4, <1>5 DEF AppStep

(* Calls keep the rest of the state in its ranges.                          *)
LEMMA CallRanges == Ranges /\ AppStep => Ranges'
<1> USE DEF Ranges
<1> SUFFICES ASSUME Ranges, AppStep PROVE Ranges'
  OBVIOUS
<1>1. CASE AllocRequest \/ FreeRequest \/ CallStop \/ StoreHandle
  BY <1>1 DEF AllocRequest, FreeRequest, CallStop, StoreHandle, Requests, AppPc
<1>2. CASE Connecting \/ Installing
  BY <1>2 DEF Connecting, Installing, Install
<1>3. CASE Disconnecting
  BY <1>3 DEF Disconnecting, Disconnect, Forgotten, Kept
<1>4. CASE Starting
  BY <1>4 DEF Starting, BeginStart, AppPc
<1>5. CASE Creating
  BY <1>5 DEF Creating, CreateThread, AppPc, Pc
<1>6. CASE CheckFlag \/ Joining \/ Destroying
  BY <1>6 DEF CheckFlag, Joining, JoinThread, Destroying, DestroyThread, AppPc
<1>7. CASE Closing
  BY <1>7
     DEF Closing, WosThermal!Deinit, WosThermal!DeinitJoin, WosThermal!DeinitClose,
     WosThermal!Kept, AppPc
<1> QED
  BY <1>1, <1>2, <1>3, <1>4, <1>5, <1>6, <1>7 DEF AppStep

(* So do the steps of threads.                                              *)
LEMMA ThreadTypes == ASSUME NEW t \in Thread, Flags, Ranges, BufferInv,
  ThreadStep(t) PROVE Flags' /\ Ranges'
<1>1. CASE Falling(t)
  BY <1>1 DEF Falling, Undefined, Flags, Ranges
<1>2. CASE \E b \in Buffers, at \in Pc : Moving(t, b, at)
  <2>1. PICK b \in Buffers, at \in Pc : Moving(t, b, at)
    BY <1>2
  <2>2. Flags'
    BY <2>1 DEF Moving, Flags
  <2>3. buf[t].said \in Nat /\ buf[t].len \in Nat
    BY DEF BufferInv, Buffers
  <2> QED
    BY <2>1, <2>2, <2>3, RequestTypes DEF Moving, Move, Ranges
<1> QED
  BY <1>1, <1>2 DEF ThreadStep

(* What a call does to the threads' places and buffers.                     *)
LEMMA CallThreads ==
  ASSUME Flags, Ranges, AppStep
  PROVE  /\ kind' = kind /\ fault' = fault /\ sent' = sent
         /\ \/ pc' = pc /\ (buf' = buf \/ (buf' = Dropped /\ Disconnecting))
            \/ buf' = buf /\ Creating /\ \E t \in Thread : ~Live(t) /\
                 pc' = [pc EXCEPT ![t] = "begin"]
<1>1. CASE AllocRequest \/ FreeRequest \/ CallStop \/ StoreHandle
  BY <1>1 DEF AllocRequest, FreeRequest, CallStop, StoreHandle
<1>2. CASE Connecting \/ Installing
  BY <1>2 DEF Connecting, Installing, Install
<1>3. CASE Disconnecting
  BY <1>3 DEF Disconnecting, Disconnect
<1>4. CASE Starting
  BY <1>4 DEF Starting, BeginStart
<1>5. CASE Creating
  BY <1>5 DEF Creating, CreateThread
<1>6. CASE CheckFlag \/ Joining \/ Destroying
  BY <1>6 DEF CheckFlag, Joining, JoinThread, Destroying, DestroyThread
<1>7. CASE Closing
  BY <1>7 DEF Closing, WosThermal!Deinit, WosThermal!DeinitJoin, WosThermal!DeinitClose
<1> QED
  BY <1>1, <1>2, <1>3, <1>4, <1>5, <1>6, <1>7 DEF AppStep

(* Calls leave the buffers fit for where their threads are.                 *)
LEMMA CallBuffers == ASSUME Flags, Ranges, BufferInv, AppStep PROVE BufferInv'
<1>1. kind' = kind /\ MetricsOf' = MetricsOf /\ MetricsOf \in {2, 5}
  BY CallThreads, MetricsAre DEF MetricsOf, Ranges
<1>0. buf' \in [Thread -> Buffers]
  <2>1. \A u \in Thread : buf[u] \in Buffers /\ [buf[u] EXCEPT !.info = "freed"] \in Buffers
    BY DEF BufferInv, Buffers
  <2> QED
    BY <2>1, CallThreads DEF BufferInv, Dropped
<1> SUFFICES ASSUME NEW t \in Thread PROVE Filling(MetricsOf, buf[t], pc[t])'
  BY <1>0, <1>1 DEF BufferInv
<1>2. buf[t] \in Buffers /\ Filling(MetricsOf, buf[t], pc[t])
  BY DEF BufferInv
<1>3. \A b, at : Filling(MetricsOf, b, at)' <=> Filling(MetricsOf, b, at)
  BY <1>1 DEF Filling, Requests, Most
<1>4. CASE pc' = pc /\ buf' = buf
  BY <1>1, <1>2, <1>3, <1>4 DEF BufferInv
<1>5. CASE pc' = pc /\ buf' = Dropped
  <2>1. \A u \in Thread : buf[u] \in Buffers /\ [buf[u] EXCEPT !.info = "freed"] \in Buffers
    BY DEF BufferInv, Buffers
  <2>2. CASE buf[t].info = "held"
    <3> DEFINE b == [buf[t] EXCEPT !.info = "freed"]
    <3>1. b.quota = buf[t].quota /\ b.room = buf[t].room /\ b.rate = buf[t].rate /\
            b.len = buf[t].len
          /\ b.count = buf[t].count /\ b.since = buf[t].since /\ b.said = buf[t].said
      BY <1>2 DEF Buffers
    <3>2. Filling(MetricsOf, b, pc[t])
      <4> HIDE DEF b
      <4> QED
        BY <1>2, <2>2, <3>1 DEF Filling
    <3> QED
      BY <1>3, <1>5, <2>1, <2>2, <3>2 DEF Dropped
  <2>3. CASE buf[t].info # "held"
    BY <1>2, <1>3, <1>5, <2>1, <2>3 DEF Dropped
  <2> QED
    BY <2>2, <2>3
<1>6. CASE buf' = buf /\ \E u \in Thread : ~Live(u) /\ pc' = [pc EXCEPT ![u] = "begin"]
  <2>1. PICK u \in Thread : ~Live(u) /\ pc' = [pc EXCEPT ![u] = "begin"]
    BY <1>6
  <2>2. CASE u = t
    <3>1. pc[t] \in {"none", "done"} /\ pc'[t] = "begin"
      BY <2>1, <2>2 DEF Live, Ranges
    <3>2. Filling(MetricsOf, buf[t], "begin")
      BY <1>2, <3>1 DEF Filling
    <3> QED
      BY <1>3, <1>6, <3>1, <3>2 DEF BufferInv
  <2>3. CASE u # t
    BY <1>2, <1>3, <1>6, <2>1, <2>3 DEF BufferInv, Ranges
  <2> QED
    BY <2>2, <2>3
<1> QED
  BY <1>4, <1>5, <1>6, CallThreads

(* So do the steps of threads.                                              *)
LEMMA ThreadBuffers == ASSUME NEW t \in Thread, Flags, Ranges, BufferInv,
  ThreadStep(t) PROVE BufferInv'
<1>1. kind' = kind /\ MetricsOf' = MetricsOf
  BY DEF ThreadStep, Falling, Undefined, Moving, MetricsOf
<1>2. \A b, at : Filling(MetricsOf, b, at)' <=> Filling(MetricsOf, b, at)
  BY <1>1 DEF Filling, Requests, Most
<1>3. CASE Falling(t)
  BY <1>1, <1>2, <1>3 DEF Falling, Undefined, BufferInv
<1>4. CASE \E b \in Buffers, at \in Pc : Moving(t, b, at)
  <2>1. PICK b \in Buffers, at \in Pc : Moving(t, b, at)
    BY <1>4
  <2>2. /\ buf' = [buf EXCEPT ![t] = b] /\ pc' = [pc EXCEPT ![t] = at]
        /\ Filling(MetricsOf, b, at)
    BY <2>1 DEF Moving, Move
  <2>3. buf' \in [Thread -> Buffers]
    BY <2>2 DEF BufferInv
  <2> SUFFICES ASSUME NEW u \in Thread PROVE Filling(MetricsOf, buf[u], pc[u])'
    BY <1>1, <2>3 DEF BufferInv
  <2> QED
    BY <1>2, <2>2 DEF BufferInv, Ranges
<1> QED
  BY <1>3, <1>4 DEF ThreadStep

(* What start has checked is not undone by a call while a thread runs.      *)
LEMMA CallChecked == ASSUME Flags, Ranges, CheckedInv, AppStep PROVE CheckedInv'
<1> USE DEF CheckedInv, InUse, Live, Late, EagerFlag, Ranges
<1>1. CASE AllocRequest \/ FreeRequest \/ CallStop \/ StoreHandle
  BY <1>1, SamplerAssumption DEF AllocRequest, FreeRequest, CallStop, StoreHandle
<1>2. CASE Connecting
  BY <1>2 DEF Connecting
<1>3. CASE Installing
  BY <1>3 DEF Installing, Install
<1>4. CASE Disconnecting
  BY <1>4 DEF Disconnecting, Disconnect, Kept
<1>5. CASE Starting
  BY <1>5 DEF Starting, BeginStart
<1>6. CASE Creating
  BY <1>6 DEF Creating, CreateThread
<1>7. CASE CheckFlag \/ Joining \/ Destroying
  BY <1>7 DEF CheckFlag, Joining, JoinThread, Destroying, DestroyThread
<1>8. CASE Closing
  BY <1>8 DEF Closing, WosThermal!Deinit, WosThermal!DeinitJoin, WosThermal!DeinitClose
<1> QED
  BY <1>1, <1>2, <1>3, <1>4, <1>5, <1>6, <1>7, <1>8 DEF AppStep

(* Nor by a step of a thread.                                               *)
LEMMA ThreadChecked == ASSUME NEW t \in Thread, Flags, Ranges, CheckedInv,
  ThreadStep(t) PROVE CheckedInv'
<1> USE DEF CheckedInv, InUse, Late, EagerFlag
<1>1. CASE Falling(t)
  BY <1>1 DEF Falling, Undefined, Live
<1>2. CASE \E b \in Buffers, at \in Pc : Moving(t, b, at)
  <2>1. PICK b \in Buffers, at \in Pc : Moving(t, b, at)
    BY <1>2
  <2>2. InUse
    BY DEF ThreadStep
  <2>3. kind' = kind /\ dataCallback' = dataCallback /\ (Late => request' = request)
    BY <2>1 DEF Moving
  <2> QED
    BY <2>2, <2>3
<1> QED
  BY <1>1, <1>2 DEF ThreadStep

(* The data callback belongs to the connection the application has set it   *)
(* in.                                                                      *)
LEMMA CallbackStep ==
  ASSUME Flags, Ranges, CallbackInv, AppStep \/ \E t \in Thread : ThreadStep(t)
  PROVE  CallbackInv'
<1> USE DEF CallbackInv
<1>1. CASE AllocRequest \/ FreeRequest \/ CallStop \/ StoreHandle
  BY <1>1 DEF AllocRequest, FreeRequest, CallStop, StoreHandle
<1>2. CASE Connecting
  BY <1>2 DEF Connecting, Ranges
<1>3. CASE Installing
  BY <1>3 DEF Installing, Install, Ranges
<1>4. CASE Disconnecting
  BY <1>4 DEF Disconnecting, Disconnect, Kept, Forgotten, Ranges, Kind
<1>5. CASE Starting
  BY <1>5 DEF Starting, BeginStart, Late, EagerFlag
<1>6. CASE Creating
  BY <1>6 DEF Creating, CreateThread, Late, EagerFlag
<1>7. CASE CheckFlag \/ Joining \/ Destroying
  BY <1>7 DEF CheckFlag, Joining, JoinThread, Destroying, DestroyThread, Late, EagerFlag
<1>8. CASE Closing
  BY <1>8
     DEF Closing, WosThermal!Deinit, WosThermal!DeinitJoin, WosThermal!DeinitClose,
     WosThermal!Kept
<1>9. CASE \E t \in Thread : ThreadStep(t)
  BY <1>9 DEF ThreadStep, Falling, Undefined, Moving
<1> QED
  BY <1>1, <1>2, <1>3, <1>4, <1>5, <1>6, <1>7, <1>8, <1>9 DEF AppStep

(* Initially nothing has been called.                                       *)
LEMMA InitShared == Init => SharedInv /\ SessionInit
<1> SUFFICES ASSUME Init PROVE SharedInv /\ SessionInit
  OBVIOUS
<1>1. kind \in Kind /\ SessionInit
  BY DEF Init, Kind, SessionInit, NoBuffer, Dummy!Init, Dummy!SessionInit, Dummy!NoBuffer,
         LinuxCpu!Init, LinuxCpu!SessionInit, LinuxCpu!NoBuffer, DspNpu!Init,
           DspNpu!SessionInit, DspNpu!NoBuffer,
         LinuxThermal!Init, LinuxThermal!SessionInit, LinuxThermal!NoBuffer,
         WosCpu!Init, WosCpu!SessionInit, WosCpu!NoBuffer, WosPower!Init,
           WosPower!SessionInit, WosPower!NoBuffer,
         WosThermal!Init, WosThermal!SessionInit, WosThermal!NoBuffer, NoBatch, Dummy!NoBatch,
           LinuxCpu!NoBatch,
         DspNpu!NoBatch, LinuxThermal!NoBatch, WosCpu!NoBatch, WosPower!NoBatch,
           WosThermal!NoBatch
<1>2. Flags /\ Ranges
  <2>1. Flags
    BY <1>1 DEF SessionInit, Flags
  <2>2. Ranges
    BY <1>1 DEF SessionInit, Ranges, AppPc, Pc, Fault
  <2> QED
    BY <2>1, <2>2
<1>3. BufferInv
  <2>1. NoBuffer \in Buffers /\ Filling(MetricsOf, NoBuffer, "none")
    <3>1. MetricsOf \in Nat
      BY <1>1, MetricsAre
    <3> QED
      BY <3>1 DEF NoBuffer, Buffers, Filling
  <2> QED
    BY <1>1, <2>1 DEF BufferInv, SessionInit
<1>4. CheckedInv /\ CallbackInv
  BY <1>1 DEF SessionInit, CheckedInv, CallbackInv, InUse, Live
<1> QED
  BY <1>1, <1>2, <1>3, <1>4, TypeParts DEF SharedInv

(* Every step keeps the invariant of any application.                       *)
LEMMA SharedStep == SharedInv /\ [Next]_vars => SharedInv'
<1> SUFFICES ASSUME SharedInv, [Next]_vars PROVE SharedInv'
  OBVIOUS
<1>1. Flags /\ Ranges /\ BufferInv /\ CheckedInv /\ CallbackInv
  BY TypeParts DEF SharedInv
<1>2. CASE AppStep
  <2>1. Flags' /\ Ranges' /\ BufferInv' /\ CheckedInv' /\ CallbackInv'
    BY <1>1, <1>2, CallFlags, CallRanges, CallBuffers, CallChecked, CallbackStep
  <2> QED
    BY <2>1, TypeParts, PTL DEF SharedInv
<1>3. CASE \E t \in Thread : ThreadStep(t)
  <2>1. Flags' /\ Ranges' /\ BufferInv' /\ CheckedInv' /\ CallbackInv'
    BY <1>1, <1>3, ThreadTypes, ThreadBuffers, ThreadChecked, CallbackStep
  <2> QED
    BY <2>1, TypeParts, PTL DEF SharedInv
<1>4. CASE UNCHANGED vars
  <2>1. Flags' /\ Ranges' /\ CheckedInv' /\ CallbackInv'
    BY <1>1, <1>4 DEF vars, Flags, Ranges, CheckedInv, CallbackInv, InUse, Live, Late
  <2>2. MetricsOf' = MetricsOf /\ \A m, b, at : Filling(m, b, at)' <=> Filling(m, b, at)
    BY <1>4 DEF vars, MetricsOf, Filling, Requests, Most
  <2>3. BufferInv'
    BY <1>1, <1>4, <2>2 DEF vars, BufferInv
  <2> QED
    BY <2>1, <2>3, TypeParts, PTL DEF SharedInv
<1> QED
  BY <1>2, <1>3, <1>4, EveryStep DEF SharedInv

-----------------------------------------------------------------------------
(* The invariant of the backends whose start sets the flag itself.          *)

(* No buffer of a thread that is not live points anywhere.                  *)
LEMMA NothingDropped ==
  ASSUME BufferInv, pc \in [Thread -> Pc], \A t \in Thread : ~Live(t)
  PROVE  \A t \in Thread : Dropped[t] = buf[t] /\ buf[t].info = "none"
BY DEF BufferInv, Filling, Live, Dropped

(* Calls keep the invariant of the eager flag, up to the disconnect that    *)
(* cuts a session off.                                                      *)
LEMMA EagerCalls ==
  ASSUME Flags, Ranges, BufferInv, EagerInv, AppStep, ~Late, ~cut'
  PROVE  EagerInv'
<1>1. ~cut /\ ~Late' /\ kind' = kind /\ fault' = fault /\ kind # "wos_thermal"
  <2>1. kind' = kind /\ fault' = fault
    BY CallThreads
  <2>2. CASE Disconnecting
    BY <2>1, <2>2 DEF Disconnecting, Disconnect, Late, EagerFlag, Flags
  <2>3. CASE ~Disconnecting
    BY <2>1, <2>3
       DEF AppStep, Late, EagerFlag, AllocRequest, FreeRequest, Connecting, Installing, Install,
         Starting, BeginStart, Creating, CreateThread, StoreHandle, CallStop, CheckFlag,
           Joining, JoinThread,
         Destroying, DestroyThread, Closing
  <2> QED
    BY <2>2, <2>3
<1> USE DEF EagerInv
<1>2. CASE AllocRequest
  BY <1>1, <1>2, RequestKnown DEF AllocRequest, Owned, Owner, Live, Equipped, Requests
<1>3. CASE FreeRequest
  BY <1>1, <1>3 DEF FreeRequest, Owned, Owner, Live, Equipped
<1>4. CASE Connecting
  BY <1>1, <1>4 DEF Connecting, Owned, Owner, Live, Equipped
<1>5. CASE Installing
  BY <1>1, <1>5 DEF Installing, Install, Owned, Owner, Live, Equipped
<1>6. CASE Disconnecting
  <2>1. ~started /\ appPc = "idle" /\ buf' = Dropped /\ pc' = pc
    BY <1>1, <1>6 DEF Disconnecting, Disconnect, MayDisconnect
  <2>2. \A t \in Thread : ~Live(t)
    BY <1>1, <2>1 DEF Owned, Owner
  <2>3. \A t \in Thread : buf'[t].info # "freed"
    BY <2>1, <2>2, NothingDropped DEF Ranges
  <2> QED
    BY <1>1, <1>6, <2>1, <2>2, <2>3 DEF Disconnecting, Disconnect, Owned, Owner, Live, Equipped
<1>7. CASE Starting
  BY <1>1, <1>7 DEF Starting, BeginStart, MayCall, Owned, Owner, Live, Equipped
<1>8. CASE Creating
  <2>1. \A t \in Thread : ~Live(t)
    BY <1>1, <1>8 DEF Creating, CreateThread, Owned, Owner
  <2>2. CASE pc' = pc
    BY <1>1, <1>8, <2>1, <2>2 DEF Creating, CreateThread, Owned, Owner, Live, Equipped
  <2>3. CASE pc' # pc
    BY <1>1, <1>8, <2>1, <2>3 DEF Creating, CreateThread, Owned, Owner, Live, Equipped, Ranges
  <2> QED
    BY <2>2, <2>3
<1>9. CASE StoreHandle
  BY <1>1, <1>9 DEF StoreHandle, Owned, Owner, Live, Equipped
<1>10. CASE CallStop
  BY <1>1, <1>10 DEF CallStop, MayCall, Owned, Owner, Live, Equipped
<1>11. CASE CheckFlag
  BY <1>1, <1>11 DEF CheckFlag, Owned, Owner, Live, Equipped
<1>12. CASE Joining
  BY <1>1, <1>12, SamplerAssumption DEF Joining, JoinThread, Owned, Owner, Live, Equipped
<1>13. CASE Destroying
  BY <1>1, <1>13 DEF Destroying, DestroyThread, Owned, Owner, Live, Equipped
<1> QED
  BY <1>1, <1>2, <1>3, <1>4, <1>5, <1>6, <1>7, <1>8, <1>9, <1>10, <1>11, <1>12, <1>13
     DEF AppStep, Closing

(* So do the steps of a thread: it reads only what is there.                *)
LEMMA EagerThreads ==
  ASSUME Flags, Ranges, BufferInv, EagerInv, NEW t \in Thread, ThreadStep(t), ~Late, ~cut'
  PROVE  EagerInv'
<1> USE DEF EagerInv
<1>1. ~cut /\ Live(t) /\ Owner(t) /\ buf[t].info # "freed"
  BY DEF ThreadStep, Falling, Undefined, Moving, Owned
<1>2. Equipped /\ kind # "dsp_npu"
  BY <1>1 DEF Owner, Late, EagerFlag
<1>3. CASE Falling(t)
  BY <1>1, <1>2, <1>3 DEF Falling, Undefined, Cause, Equipped, Owned, Owner, Live, Late
<1>4. CASE \E b \in Buffers, at \in Pc : Moving(t, b, at)
  <2>1. PICK b \in Buffers, at \in Pc : Moving(t, b, at)
    BY <1>4
  <2>2. /\ buf' = [buf EXCEPT ![t] = b] /\ pc' = [pc EXCEPT ![t] = at] /\ b.info # "freed"
        /\ running' = running /\ UNCHANGED <<registry, started, appPc, fresh, handle, fault>>
        /\ request # NoRequest => request' # NoRequest
    <3>1. request \in Requests => WosCpu!Mended(request) # NoRequest
      BY RequestKnown
    <3> QED
      BY <1>1, <2>1, <3>1 DEF Moving, Move, Ranges
  <2>3. \A u \in Thread : buf'[u].info # "freed"
    BY <1>1, <2>2 DEF BufferInv
  <2>4. \A u \in Thread : Live(u)' => Live(u)
    BY <1>1, <2>2 DEF Live, Ranges
  <2>5. Equipped'
    BY <1>2, <2>2 DEF Equipped
  <2> QED
    BY <1>1, <2>2, <2>3, <2>4, <2>5 DEF Owned, Owner, Late
<1> QED
  BY <1>3, <1>4 DEF ThreadStep

(* Every step keeps the invariant of the eager flag.                        *)
LEMMA EagerStep == SharedInv /\ EagerInv /\ [Next]_vars => EagerInv'
<1> SUFFICES ASSUME SharedInv, EagerInv, [Next]_vars PROVE EagerInv'
  OBVIOUS
<1>1. Flags /\ Ranges /\ BufferInv
  BY TypeParts DEF SharedInv
<1>2. CASE UNCHANGED vars
  BY <1>2 DEF vars, EagerInv, Owned, Owner, Live, Equipped, Late
<1>4. CASE Late' \/ cut'
  BY <1>4 DEF EagerInv
<1>5. CASE ~Late' /\ ~cut' /\ (AppStep \/ \E t \in Thread : ThreadStep(t))
  <2>1. ~Late
    BY <1>1, <1>5, CallThreads DEF Late, ThreadStep, Falling, Undefined, Moving
  <2> QED
    BY <1>1, <1>5, <2>1, EagerCalls, EagerThreads
<1> QED
  BY <1>2, <1>4, <1>5, EveryStep DEF SharedInv

-----------------------------------------------------------------------------
(* The invariant of a patient application.                                  *)

(* What holds of every kind, and what holds of those whose thread sets the  *)
(* flag.                                                                    *)
Streaming == ~cut /\ (request # NoRequest => request.streaming # 0) /\ fault # "divide_by_zero"
LateInv ==
  Late =>
    /\ fault = "none"
    /\ \A t \in Thread : buf[t].info # "freed"
    /\ appPc \in {"start_create", "start_store"} => Equipped
    /\ kind = "dsp_npu" /\ listed => provider = "open"
    /\ Owned
    /\ \A t \in Thread : Live(t) =>
         /\ Equipped
         /\ appPc = "stop_check" => running
         /\ appPc \in {"stop_check", "stop_join"} => pc[t] \notin {"begin", "find"}

(* The invariant of a patient application in two parts.                     *)
LEMMA PatientParts == PatientInv <=> (Patient => Streaming /\ LateInv)
BY DEF PatientInv, Streaming, LateInv

(* The application asks for a streaming rate and cuts no session off.       *)
LEMMA StreamingCalls == ASSUME Flags, Ranges, Patient, Streaming, AppStep PROVE Streaming'
<1> USE DEF Streaming
<1>1. CASE AllocRequest
  BY <1>1 DEF AllocRequest, Patient
<1>2. CASE FreeRequest \/ CallStop \/ StoreHandle
  BY <1>2 DEF FreeRequest, CallStop, StoreHandle
<1>3. CASE Connecting \/ Installing
  BY <1>3 DEF Connecting, Installing, Install
<1>4. CASE Disconnecting
  BY <1>4 DEF Disconnecting, Disconnect, MayDisconnect, Patient, Flags
<1>5. CASE Starting
  BY <1>5 DEF Starting, BeginStart
<1>6. CASE Creating
  BY <1>6 DEF Creating, CreateThread
<1>7. CASE CheckFlag \/ Joining \/ Destroying
  BY <1>7 DEF CheckFlag, Joining, JoinThread, Destroying, DestroyThread
<1>8. CASE Closing
  BY <1>8 DEF Closing, WosThermal!Deinit, WosThermal!MayDisconnect, WosThermal!DeinitJoin,
              WosThermal!DeinitClose, Patient, Flags
<1> QED
  BY <1>1, <1>2, <1>3, <1>4, <1>5, <1>6, <1>7, <1>8 DEF AppStep

(* A thread that mends the request keeps its streaming rate.                *)
LEMMA StreamingThreads ==
  ASSUME Flags, Ranges, Patient, Streaming, NEW t \in Thread, ThreadStep(t)
  PROVE  Streaming'
<1> USE DEF Streaming
<1>1. CASE Falling(t)
  BY <1>1 DEF Falling, Undefined, Cause
<1>2. CASE \E b \in Buffers, at \in Pc : Moving(t, b, at)
  <2>1. PICK b \in Buffers, at \in Pc : Moving(t, b, at)
    BY <1>2
  <2>2. request' = request \/ (request \in Requests /\ request' = WosCpu!Mended(request))
    BY <2>1 DEF Moving, Ranges
  <2>3. request' # NoRequest => request # NoRequest /\ request'.streaming = request.streaming
    BY <2>2, Mending, RequestKnown
  <2> QED
    BY <2>1, <2>3 DEF Moving
<1> QED
  BY <1>1, <1>2 DEF ThreadStep

(* Calls keep the invariant of the late flag, as the application waits for  *)
(* its thread before it starts or stops.                                    *)
LEMMA LateCalls ==
  ASSUME Flags, Ranges, BufferInv, Patient, LateInv, AppStep, Late
  PROVE  LateInv'
<1> USE DEF LateInv
<1>1. Late' /\ kind' = kind /\ fault' = fault
  BY CallThreads DEF Late
<1>0. StopsFirst /\ AppWaits
  BY DEF Patient
<1>2. CASE AllocRequest
  BY <1>1, <1>2 DEF AllocRequest, Owned, Owner, Live, Equipped
<1>3. CASE FreeRequest
  BY <1>1, <1>3 DEF FreeRequest, Owned, Owner, Live, Equipped
<1>4. CASE Connecting
  <2>1. \A t \in Thread : ~Live(t)
    BY <1>4 DEF Connecting, Equipped
  <2> QED
    BY <1>1, <1>4, <2>1 DEF Connecting, Owned, Owner, Live, Equipped
<1>5. CASE Installing
  BY <1>1, <1>5 DEF Installing, Install, Owned, Owner, Live, Equipped
<1>6. CASE Disconnecting
  <2>1. ~started /\ appPc = "idle" /\ buf' = Dropped /\ pc' = pc
    BY <1>0, <1>6 DEF Disconnecting, Disconnect, MayDisconnect
  <2>2. \A t \in Thread : ~Live(t)
    BY <2>1 DEF Owned, Owner
  <2>3. \A t \in Thread : buf'[t].info # "freed"
    BY <2>1, <2>2, NothingDropped DEF Ranges
  <2> QED
    BY <1>1, <1>6, <2>1, <2>2, <2>3 DEF Disconnecting, Disconnect, Owned, Owner, Live, Equipped
<1>7. CASE Starting
  <2>1. \A t \in Thread : ~Live(t)
    BY <1>0, <1>7 DEF Starting, BeginStart, MayCall, Settled
  <2>2. listed /\ dataCallback # "none" /\ request # NoRequest /\ provider' = provider
    BY <1>7 DEF Starting, BeginStart
  <2> QED
    BY <1>1, <1>7, <2>1, <2>2 DEF Starting, BeginStart, Owned, Owner, Live, Equipped
<1>8. CASE Creating
  <2>1. \A t \in Thread : ~Live(t)
    BY <1>8 DEF Creating, CreateThread, Owned, Owner
  <2>2. provider' = provider
    BY <1>8 DEF Creating, CreateThread
  <2>3. CASE pc' = pc
    BY <1>1, <1>8, <2>1, <2>2, <2>3 DEF Creating, CreateThread, Owned, Owner, Live, Equipped
  <2>4. CASE pc' # pc
    BY <1>1, <1>8, <2>1, <2>2, <2>4
       DEF Creating, CreateThread, Owned, Owner, Live, Equipped, Ranges
  <2> QED
    BY <2>3, <2>4
<1>9. CASE StoreHandle
  BY <1>1, <1>9 DEF StoreHandle, Owned, Owner, Live, Equipped
<1>10. CASE CallStop
  BY <1>0, <1>1, <1>10 DEF CallStop, MayCall, Settled, Owned, Owner, Live, Equipped
<1>11. CASE CheckFlag
  BY <1>1, <1>11 DEF CheckFlag, Owned, Owner, Live, Equipped
<1>12. CASE Joining
  BY <1>1, <1>12, SamplerAssumption DEF Joining, JoinThread, Owned, Owner, Live, Equipped
<1>13. CASE Destroying
  BY <1>1, <1>13 DEF Destroying, DestroyThread, Owned, Owner, Live, Equipped
<1>14. CASE Closing
  <2>1. \A t \in Thread : ~Live(t)
    BY <1>0, <1>14
       DEF Closing, WosThermal!Deinit, WosThermal!MayDisconnect, WosThermal!DeinitJoin,
                 WosThermal!DeinitClose, Owned, Owner
  <2> QED
    BY <1>1, <1>14, <2>1
       DEF Closing, WosThermal!Deinit, WosThermal!DeinitJoin, WosThermal!DeinitClose,
                             Owned, Owner, Live, Equipped
<1> QED
  BY <1>2, <1>3, <1>4, <1>5, <1>6, <1>7, <1>8, <1>9, <1>10, <1>11, <1>12, <1>13, <1>14
     DEF AppStep

(* So do the steps of the one thread there is.                              *)
LEMMA LateThreads ==
  ASSUME Flags, Ranges, BufferInv, LateInv, NEW t \in Thread, ThreadStep(t), Late
  PROVE  LateInv'
<1> USE DEF LateInv
<1>1. Live(t) /\ Owner(t) /\ buf[t].info # "freed" /\ Equipped
  BY DEF ThreadStep, Owned
<1>2. ~Falling(t)
  BY <1>1 DEF Falling, Cause, Equipped, Fault, Late, EagerFlag
<1>3. PICK b \in Buffers, at \in Pc : Moving(t, b, at)
  BY <1>2 DEF ThreadStep
<1>4. /\ buf' = [buf EXCEPT ![t] = b] /\ pc' = [pc EXCEPT ![t] = at] /\ b.info # "freed"
      /\ UNCHANGED <<registry, request, started, appPc, fresh, handle, fault>>
  BY <1>1, <1>3 DEF Moving, Move
<1>5. \A u \in Thread : buf'[u].info # "freed"
  BY <1>4 DEF BufferInv
<1>6. \A u \in Thread : Live(u)' => u = t
  <2>1. \A u \in Thread : Live(u) => u = t
    BY <1>1 DEF Owned, Owner
  <2> QED
    BY <1>4, <2>1 DEF Live, Ranges
<1>7. Live(t)' => /\ appPc = "stop_check" => running'
                  /\ appPc \in {"stop_check", "stop_join"} => at \notin {"begin", "find"}
  BY <1>1, <1>3, <1>4 DEF Moving, Live, Ranges
<1> QED
  BY <1>1, <1>4, <1>5, <1>6, <1>7 DEF Owned, Owner, Equipped, Late, Ranges

(* Every step keeps the invariant of a patient application.                 *)
LEMMA PatientStep == SharedInv /\ PatientInv /\ [Next]_vars => PatientInv'
<1> SUFFICES ASSUME SharedInv, PatientInv, [Next]_vars, Patient PROVE Streaming' /\ LateInv'
  BY PatientParts DEF PatientInv, Patient, Streaming, LateInv
<1>1. Flags /\ Ranges /\ BufferInv /\ Streaming /\ LateInv
  BY TypeParts, PatientParts DEF SharedInv
<1>2. CASE UNCHANGED vars
  BY <1>1, <1>2 DEF vars, Streaming, LateInv, Owned, Owner, Live, Equipped, Late
<1>3. CASE ~Late /\ (AppStep \/ \E t \in Thread : ThreadStep(t))
  <2>1. ~Late'
    BY <1>1, <1>3, CallThreads DEF Late, ThreadStep, Falling, Undefined, Moving
  <2> QED
    BY <1>1, <1>3, <2>1, StreamingCalls, StreamingThreads DEF LateInv
<1>4. CASE Late /\ (AppStep \/ \E t \in Thread : ThreadStep(t))
  BY <1>1, <1>4, StreamingCalls, StreamingThreads, LateCalls, LateThreads
<1> QED
  BY <1>2, <1>3, <1>4, EveryStep DEF SharedInv

-----------------------------------------------------------------------------
(* The clock of a patient application's thread.                             *)

Looping == {"loop", "sample", "rest", "deliver", "callback"}

(* A patient application has one thread at a time, with all it reads in     *)
(* place.                                                                   *)
LEMMA PatientOwned ==
  Patient /\ PatientInv /\ EagerInv =>
    ~cut /\ Owned /\ \A t \in Thread : Live(t) => Equipped
<1> SUFFICES ASSUME Patient, PatientInv, EagerInv
             PROVE  ~cut /\ Owned /\ \A t \in Thread : Live(t) => Equipped
  OBVIOUS
<1>1. CASE Late
  BY <1>1 DEF PatientInv
<1>2. CASE ~Late
  <2>1. ~cut /\ Owned
    BY <1>2 DEF PatientInv, EagerInv
  <2> QED
    BY <1>2, <2>1 DEF EagerInv, Owned, Owner
<1> QED
  BY <1>1, <1>2

(* A call leaves a thread in its loop, with its buffer and its request.     *)
LEMMA LoopsKept ==
  ASSUME Flags, Ranges, Patient, Owned, AppStep,
         NEW t \in Thread, pc'[t] \in Looping, request' # NoRequest
  PROVE  /\ pc'[t] = pc[t] /\ buf'[t] = buf[t] /\ request' = request /\ kind' = kind
         /\ Late /\ running' => running
<1>1. kind' = kind /\ pc'[t] = pc[t] /\ Live(t)
  <2>1. kind' = kind /\ (pc' = pc \/ \E u \in Thread : pc' = [pc EXCEPT ![u] = "begin"])
    BY CallThreads
  <2> QED
    BY <2>1 DEF Ranges, Looping, Live
<1>2. appPc = "idle" => started
  BY <1>1 DEF Owned, Owner
<1>3. ~Disconnecting
  BY <1>2 DEF Disconnecting, Disconnect, MayDisconnect, Patient
<1>4. buf' = buf
  BY <1>3, CallThreads
<1>5. request' = request /\ (Late /\ running' => running)
  <2>1. CASE AllocRequest
    BY <1>1, <2>1 DEF AllocRequest
  <2>2. CASE FreeRequest \/ CallStop \/ StoreHandle
    BY <2>2 DEF FreeRequest, CallStop, StoreHandle
  <2>3. CASE Connecting \/ Installing
    BY <2>3 DEF Connecting, Installing, Install
  <2>4. CASE Starting
    BY <2>4 DEF Starting, BeginStart
  <2>5. CASE Creating
    BY <2>5 DEF Creating, CreateThread
  <2>6. CASE CheckFlag \/ Joining \/ Destroying
    BY <2>6 DEF CheckFlag, Joining, JoinThread, Destroying, DestroyThread, Flags
  <2>7. CASE Closing
    BY <2>7 DEF Closing, WosThermal!Deinit, WosThermal!DeinitJoin, WosThermal!DeinitClose
  <2> QED
    BY <1>3, <2>1, <2>2, <2>3, <2>4, <2>5, <2>6, <2>7 DEF AppStep
<1> QED
  BY <1>1, <1>4, <1>5

(* The arithmetic of the clocks.                                            *)
LEMMA Products ==
  \A c, d, s \in Nat : /\ c * s \in Nat /\ (c + 1) * s = c * s + s
                       /\ c <= d => c * s <= d * s
                       /\ c < d => c * s + s <= d * s
OBVIOUS

(* A step of a thread that is timed keeps its clock.                        *)
Timed == {"linux_cpu", "dsp_npu", "linux_thermal", "wos_cpu", "wos_power"}

(* A step of a thread that is timed keeps its clock.                        *)
LEMMA ClockStep ==
  ASSUME BufferInv, NEW t \in Thread, kind \in Timed, NEW b \in Buffers, NEW at \in Looping,
         request \in Requests, request' \in Requests,
         request' = request \/ pc[t] = "begin", Change(t, b, at), Filling(MetricsOf, b, at),
         pc[t] \in Looping => InTime(buf[t], pc[t], request.sampling)
  PROVE  InTime(b, at, request'.sampling)
<1> DEFINE a == buf[t]
           s == request'.sampling
           aq == a.quota * s
           ac == a.count * s
           bq == b.quota * s
           bc == b.count * s
<1>1. /\ a \in Buffers /\ Filling(MetricsOf, a, pc[t]) /\ s \in Nat
      /\ kind # "wos_thermal" /\ kind # "dummy"
  BY RequestTypes DEF BufferInv, Timed
<1>2. /\ a.quota \in Nat /\ a.rate \in Nat /\ a.len \in Nat /\ a.count \in Nat
      /\ a.since \in Nat
      /\ b.quota \in Nat /\ b.rate \in Nat /\ b.len \in Nat /\ b.count \in Nat
      /\ b.since \in Nat
      /\ a.count <= a.quota /\ b.count <= b.quota
  BY <1>1 DEF Buffers, Filling
<1>3. /\ aq \in Nat /\ ac \in Nat /\ bq \in Nat /\ bc \in Nat
      /\ a.count < a.quota => ac + s <= aq
      /\ b.quota = a.quota => bq = aq
      /\ b.count = a.count => bc = ac
      /\ b.count = a.count + 1 => bc = ac + s
  <2>1. aq \in Nat /\ ac \in Nat /\ bq \in Nat /\ bc \in Nat
    BY <1>1, <1>2, Products
  <2>2. a.count < a.quota => ac + s <= aq
    BY <1>1, <1>2, Products
  <2>3. b.count = a.count + 1 => bc = ac + s
    BY <1>1, <1>2, Products
  <2> QED
    BY <2>1, <2>2, <2>3
<1>5. pc[t] \in Looping => Clock(a, pc[t], s, aq, ac)
  BY DEF Looping, InTime
<1>13. Opened(b, request') => bq <= b.rate + s /\ b.since = 0
  BY DEF Opened
<1>14. SUFFICES Clock(b, at, s, bq, bc)
  BY DEF InTime
<1>15. s = request.sampling \/ pc[t] = "begin"
  OBVIOUS
<1> HIDE DEF a, s, aq, ac, bq, bc
<1>4. CASE pc[t] \in {"begin", "find"} /\ Opened(b, request')
  BY <1>1, <1>2, <1>3, <1>4, <1>13 DEF Clock, Looping
<1>6. CASE pc[t] = "loop" /\ at = Before /\ b = a
  BY <1>1, <1>2, <1>3, <1>5, <1>6 DEF Clock, Looping, Before
<1>7. CASE pc[t] = "rest" /\ at = "loop" /\ kind # "linux_cpu" /\ b = a
  BY <1>1, <1>2, <1>3, <1>5, <1>7 DEF Clock, Looping
<1>8. CASE pc[t] = "rest" /\ at = Awake /\ b = Slept(a, s)
  <2>1. /\ b.quota = a.quota /\ b.rate = a.rate /\ b.count = a.count
        /\ b.since = AtMost(a.since + s, 2 * a.rate)
    BY <1>1, <1>8 DEF Slept, Buffers
  <2>2. b.since <= a.since + s
    BY <1>1, <1>2, <2>1 DEF AtMost
  <2>3. aq <= a.rate + s /\ a.since <= ac /\ (a.count = a.quota => a.since = 0)
    BY <1>5, <1>8 DEF Clock, Looping
  <2>4. b.since <= bc + s /\ (b.count = b.quota => b.since <= s) /\ bq <= b.rate + s
    BY <1>1, <1>2, <1>3, <2>1, <2>2, <2>3
  <2> QED
    BY <1>8, <2>4 DEF Clock, Awake
<1>9. CASE pc[t] = "sample" /\ Sampled(a, b, at)
  <2>1. aq <= a.rate + s /\ a.since <= ac + s /\ (a.count = a.quota => a.since <= s)
    BY <1>5, <1>9 DEF Clock, Looping
  <2>2. a.since <= a.rate + s
    BY <1>1, <1>2, <1>3, <2>1
  <2>3. b.quota = a.quota /\ b.rate = a.rate
    BY <1>9 DEF Sampled
  <2>4. CASE at = "deliver" /\ b.since = a.since
    BY <1>3, <2>1, <2>2, <2>3, <2>4 DEF Clock
  <2>5. CASE at = After /\ b.since = 0
    BY <1>1, <1>2, <1>3, <2>1, <2>3, <2>5 DEF Clock, After
  <2>6. CASE at = After /\ b.count = a.count + 1 /\ b.count < b.quota /\ b.since = a.since
    BY <1>1, <1>2, <1>3, <2>1, <2>3, <2>6 DEF Clock, After
  <2> QED
    BY <1>9, <2>4, <2>5, <2>6 DEF Sampled
<1>10. CASE pc[t] = "deliver" /\ at = "callback" /\ b = a
  BY <1>3, <1>5, <1>10 DEF Clock, Looping
<1>11. CASE pc[t] = "callback" /\ at = After /\ b = Emptied(a)
  <2>1. b.quota = a.quota /\ b.rate = a.rate /\ b.count = 0 /\ b.since = 0
    BY <1>1, <1>11 DEF Emptied, Buffers
  <2>2. aq <= a.rate + s
    BY <1>5, <1>11 DEF Clock, Looping
  <2> QED
    BY <1>1, <1>2, <1>3, <1>11, <2>1, <2>2 DEF Clock, After
<1> QED
  BY <1>1, <1>4, <1>6, <1>7, <1>8, <1>9, <1>10, <1>11, <1>15 DEF Change, Looping, a

(* A step of a patient application's thread, in its loop.                   *)
LEMMA LoopStep ==
  ASSUME Flags, Ranges, BufferInv, Patient, PatientInv, EagerInv, NEW t \in Thread,
           ThreadStep(t),
         NEW u \in Thread, pc'[u] \in Looping, kind \notin {"wos_thermal"}
  PROVE  /\ kind' = kind
         /\ \/ pc'[u] = pc[u] /\ buf'[u] = buf[u] /\ request' = request /\ running' = running
            \/ /\ u = t /\ request \in Requests /\ request' \in Requests
               /\ request' = request \/ (~Late /\ pc[t] = "begin")
               /\ running' = running \/ ~running' \/ pc[t] = "begin"
               /\ \E b \in Buffers, at \in Looping :
                    /\ Change(t, b, at) /\ Filling(MetricsOf, b, at)
                    /\ pc'[u] = at /\ buf'[u] = b
<1>1. Live(t) /\ Owned /\ Equipped
  BY PatientOwned DEF ThreadStep
<1>2. \A v \in Thread : Live(v) => v = t
  BY <1>1 DEF Owned, Owner
<1>3. CASE Falling(t)
  BY <1>3 DEF Falling, Undefined
<1>4. CASE \E b \in Buffers, at \in Pc : Moving(t, b, at)
  <2>1. PICK b \in Buffers, at \in Pc : Moving(t, b, at)
    BY <1>4
  <2>2. /\ pc' = [pc EXCEPT ![t] = at] /\ buf' = [buf EXCEPT ![t] = b] /\ kind' = kind
        /\ Change(t, b, at) /\ Filling(MetricsOf, b, at)
    BY <2>1 DEF Moving, Move
  <2>3. u = t
    BY <1>2, <2>2 DEF Live, Looping, Ranges
  <2>4. pc'[u] = at /\ buf'[u] = b
    BY <2>2, <2>3 DEF Ranges, BufferInv
  <2>5. /\ request \in Requests /\ request' \in Requests
        /\ request' = request \/ (~Late /\ pc[t] = "begin")
    <3>1. request \in Requests
      BY <1>1 DEF Equipped, Ranges
    <3> QED
      BY <2>1, <3>1, RequestTypes DEF Moving
  <2>6. running' = running \/ ~running' \/ pc[t] = "begin"
    BY <2>1 DEF Moving
  <2> QED
    BY <2>2, <2>3, <2>4, <2>5, <2>6
<1> QED
  BY <1>3, <1>4 DEF ThreadStep

(* Every step keeps the clocks of a patient application's threads.          *)
LEMMA TimelyStep ==
  SharedInv /\ PatientInv /\ EagerInv /\ TimelyInv /\ [Next]_vars => TimelyInv'
<1> SUFFICES ASSUME SharedInv, PatientInv, EagerInv, TimelyInv, [Next]_vars, Patient,
                    NEW u \in Thread, kind' \notin {"dummy", "wos_thermal"},
                    pc'[u] \in Looping, request' # NoRequest
             PROVE  InTime(buf[u], pc[u], request.sampling)'
  BY DEF TimelyInv, Patient, Looping
<1>1. Flags /\ Ranges /\ BufferInv /\ Owned
  BY TypeParts, PatientOwned DEF SharedInv
<1>2. CASE UNCHANGED vars
  BY <1>2 DEF vars, TimelyInv, InTime, Clock, Looping
<1>3. CASE AppStep
  BY <1>1, <1>3, LoopsKept DEF TimelyInv, InTime, Clock, Looping
<1>4. CASE \E t \in Thread : ThreadStep(t)
  <2>1. PICK t \in Thread : ThreadStep(t)
    BY <1>4
  <2>2. kind' = kind
    BY <2>1 DEF ThreadStep, Falling, Undefined, Moving
  <2>3. CASE pc'[u] = pc[u] /\ buf'[u] = buf[u] /\ request' = request
    BY <2>2, <2>3 DEF TimelyInv, InTime, Clock, Looping
  <2>4. CASE ~(pc'[u] = pc[u] /\ buf'[u] = buf[u] /\ request' = request)
    <3>1. PICK b \in Buffers, at \in Looping :
            /\ u = t /\ request \in Requests /\ request' \in Requests
            /\ request' = request \/ pc[t] = "begin"
            /\ Change(t, b, at) /\ Filling(MetricsOf, b, at)
            /\ pc'[u] = at /\ buf'[u] = b
      BY <1>1, <2>1, <2>2, <2>4, LoopStep
    <3>2. kind \in Timed /\ request # NoRequest
      BY <1>1, <2>2, <3>1, RequestKnown DEF Ranges, Kind, Timed
    <3>3. pc[t] \in Looping => InTime(buf[t], pc[t], request.sampling)
      BY <2>2, <3>2 DEF TimelyInv, Looping
    <3>4. InTime(b, at, request'.sampling)
      BY <1>1, <3>1, <3>2, <3>3, ClockStep
    <3> QED
      BY <2>2, <3>1, <3>4 DEF InTime, Clock
  <2> QED
    BY <2>3, <2>4
<1> QED
  BY <1>2, <1>3, <1>4, EveryStep DEF SharedInv

-----------------------------------------------------------------------------
(* The theorems.                                                            *)

(* The invariant holds initially.                                           *)
LEMMA InitInv == Init => SamplersInv
<1> SUFFICES ASSUME Init PROVE SamplersInv
  OBVIOUS
<1>1. SharedInv /\ SessionInit
  BY InitShared
<1>2. \A t \in Thread : ~Live(t) /\ pc[t] = "none" /\ buf[t].info = "none"
  BY <1>1 DEF SessionInit, Live, NoBuffer
<1>3. EagerInv
  BY <1>1, <1>2 DEF SessionInit, EagerInv, Owned
<1>4. PatientInv
  BY <1>1, <1>2 DEF SessionInit, PatientInv, Owned, Late
<1>5. TimelyInv
  BY <1>2 DEF TimelyInv
<1> QED
  BY <1>1, <1>3, <1>4, <1>5 DEF SamplersInv

(* The inductive invariant holds in every reachable state of every backend. *)
THEOREM SamplersInvariant == Spec => []SamplersInv
<1>1. SamplersInv /\ [Next]_vars => SamplersInv'
  BY SharedStep, EagerStep, PatientStep, TimelyStep DEF SamplersInv
<1> QED
  BY InitInv, <1>1, PTL DEF Spec

(* Every variable has its type and every buffer its bounds (all seven       *)
(* backends, any application).                                              *)
THEOREM SamplersTypeOK == Spec => []TypeOK
<1>1. SamplersInv => TypeOK
  BY DEF SamplersInv, SharedInv
<1> QED
  BY SamplersInvariant, <1>1, PTL

(* A thread that takes a sample has room for it.                            *)
LEMMA RoomLeft ==
  ASSUME NEW m \in {2, 5}, NEW b \in Buffers, Filling(m, b, "sample"), b.room > 0,
         kind # "linux_cpu"
  PROVE  b.len + m <= b.room
<1>1. /\ b.quota \in Nat /\ b.count \in Nat /\ b.room \in Nat /\ b.len \in Nat
      /\ b.room = b.quota * m
      /\ b.len = 0 \/ (b.len <= b.count * m /\ b.count < b.quota)
  BY DEF Filling, Buffers
<1>2. CASE m = 2
  <2>1. b.room = b.quota * 2 /\ (b.len = 0 \/ (b.len <= b.count * 2 /\ b.count < b.quota))
    BY <1>1, <1>2
  <2> QED
    BY <1>1, <1>2, <2>1
<1>3. CASE m = 5
  <2>1. b.room = b.quota * 5 /\ (b.len = 0 \/ (b.len <= b.count * 5 /\ b.count < b.quota))
    BY <1>1, <1>3
  <2> QED
    BY <1>1, <1>3, <2>1
<1> QED
  BY <1>2, <1>3

(* A thread that takes a sample has room for all the responses its backend  *)
(* lists: the count and the time that send a batch empty it soon enough     *)
(* (any application, any request; not linux-cpu).                           *)
THEOREM SamplersBufferNeverFull == Spec => []BufferNeverFull
<1>1. SamplersInv => BufferNeverFull
  <2> SUFFICES ASSUME SamplersInv, kind # "linux_cpu", NEW t \in Thread,
                      pc[t] = "sample", buf[t].room > 0
               PROVE  buf[t].len + MetricsOf <= buf[t].room
    BY DEF BufferNeverFull
  <2>1. MetricsOf \in {2, 5} /\ buf[t] \in Buffers /\ Filling(MetricsOf, buf[t], "sample")
    BY MetricsAre DEF SamplersInv, SharedInv, TypeOK, BufferInv
  <2> QED
    BY <2>1, RoomLeft
<1> QED
  BY SamplersInvariant, <1>1, PTL

(* Data go to the callback of this connection once one was offered, except  *)
(* in the dummy and the DSP, which keep a stale one (any application).      *)
THEOREM SamplersCallbackIsCurrent == Spec => []CallbackIsCurrent
<1>1. SamplersInv => CallbackIsCurrent
  BY DEF SamplersInv, SharedInv, CallbackInv, CallbackIsCurrent
<1> QED
  BY SamplersInvariant, <1>1, PTL

(* A thread that has an owner is the collector, and is quiet between        *)
(* sessions.                                                                *)
LEMMA OwnedSafe == Owned => CollectorOwned /\ QuietUnlessStarted
BY DEF Owned, Owner, CollectorOwned, QuietUnlessStarted

(* The backends whose start sets the flag have one thread at a time, which  *)
(* reads nothing that is gone and is quiet between sessions, as long as no  *)
(* disconnect cuts a session off (any application).                         *)
THEOREM SamplersEagerFlagIsSafe == Spec => []EagerFlagIsSafe
<1>1. SamplersInv => EagerFlagIsSafe
  BY OwnedSafe DEF SamplersInv, EagerInv, EagerFlagIsSafe, Late
<1> QED
  BY SamplersInvariant, <1>1, PTL

(* wos-cpu has its telemetry closed between sessions, however start or stop *)
(* ended (any application).                                                 *)
THEOREM SamplersTelemetryClosed == Spec => []TelemetryClosed
<1>1. SamplersInv => TelemetryClosed
  BY DEF SamplersInv, EagerInv, TelemetryClosed, Late, EagerFlag
<1> QED
  BY SamplersInvariant, <1>1, PTL

(* No thread of a patient application reads freed memory, uses a closed     *)
(* library, calls a NULL callback or divides by zero, in any of the seven   *)
(* backends.                                                                *)
THEOREM SamplersNoFault == Patient => (Spec => []NoFault)
<1> SUFFICES ASSUME Patient PROVE Spec => []NoFault
  OBVIOUS
<1>1. SamplersInv => NoFault
  BY DEF SamplersInv, EagerInv, PatientInv, NoFault
<1> QED
  BY SamplersInvariant, <1>1, PTL

(* After stop has returned to a patient application, and before a start has *)
(* succeeded, no sampling thread is left.                                   *)
THEOREM SamplersQuietUnlessStarted == Patient => (Spec => []QuietUnlessStarted)
<1> SUFFICES ASSUME Patient PROVE Spec => []QuietUnlessStarted
  OBVIOUS
<1>1. SamplersInv => QuietUnlessStarted
  BY PatientOwned, OwnedSafe DEF SamplersInv
<1> QED
  BY SamplersInvariant, <1>1, PTL

(* A batch leaves a patient application's thread at the latest one sampling *)
(* period after its streaming period, except in the dummy and in            *)
(* wos-thermal.                                                             *)
THEOREM SamplersTimely == Patient => (Spec => []Timely)
<1> SUFFICES ASSUME Patient PROVE Spec => []Timely
  OBVIOUS
<1>1. SamplersInv => Timely
  <2> SUFFICES ASSUME SamplersInv, kind \notin {"dummy", "wos_thermal"}, NEW t \in Thread,
                        pc[t] = "deliver"
               PROVE  buf[t].since <= buf[t].rate + request.sampling
    BY DEF Timely
  <2>1. request # NoRequest
    BY PatientOwned DEF SamplersInv, Equipped, Live
  <2>2. InTime(buf[t], "deliver", request.sampling)
    BY <2>1 DEF SamplersInv, TimelyInv
  <2> QED
    BY <2>2 DEF InTime, Clock
<1> QED
  BY SamplersInvariant, <1>1, PTL

-----------------------------------------------------------------------------
(* The promise of CollectorSession, without its liveness.                   *)

shown == IF batch = NoBatch THEN 0 ELSE IF Legal(batch) THEN 1 ELSE 2

(* What a callback is given is of a size that some request calls for.       *)
LEMMA SentLegal ==
  ASSUME NEW b \in Buffers, NEW m \in {2, 5}, m = MetricsOf, NEW r \in Requests,
           r.sampling > 0 \/ kind # "wos_thermal",
         Filling(m, b, "deliver"), NEW n, n = IF kind = "wos_thermal" THEN b.said ELSE b.len
  PROVE  Legal(n) /\ n # NoBatch
<1>1. n \in Nat /\ n <= b.room /\ (n = 0 => kind = "wos_thermal")
  BY DEF Filling, Buffers
<1>2. \A x : Largest(x) = Most(m, x)
  BY DEF Largest, Most
<1>3. CASE n = 0
  <2>1. kind = "wos_thermal" /\ r.sampling > 0
    BY <1>1, <1>3
  <2>2. Ceiling(r) * m \in Nat /\ Ceiling(r) * m <= Most(m, r)
    <3>1. Ceiling(r) \in Nat /\ Ceiling(r) * m <= Most(m, r)
      BY <2>1, Quotas
    <3> QED
      BY <3>1, Products
  <2>3. Most(m, r) \in Nat
    <3>1. Ceiling(r) \in Nat
      BY <2>1, Quotas
    <3>2. r.sampling # 0
      BY <2>1
    <3> QED
      BY <3>1, <3>2 DEF Most
  <2>4. n <= Largest(r)
    BY <1>2, <1>3, <2>3
  <2> QED
    BY <1>3, <2>1, <2>4 DEF Legal, NoBatch
<1>4. CASE n > 0
  <2>1. b.quota \in Nat /\ b.room \in Nat /\ b.room = b.quota * m /\ b.quota > 0
    <3>1. b.quota \in Nat /\ b.room \in Nat /\ b.room > 0 /\ b.room = b.quota * m
      BY <1>1, <1>4 DEF Filling, Buffers
    <3>2. b.quota # 0
      BY <3>1
    <3> QED
      BY <3>1, <3>2
  <2>2. PICK x \in Requests : b.quota * m <= Most(m, x)
    BY <2>1 DEF Filling
  <2>3. n <= Largest(x)
    <3>1. Largest(x) \in Int
      BY <1>2, <2>2, RequestTypes DEF Most, Ceiling
    <3> QED
      BY <1>1, <1>2, <2>1, <2>2, <3>1
  <2> QED
    BY <1>1, <1>4, <2>3 DEF Legal, NoBatch
<1> QED
  BY <1>1, <1>3, <1>4

(* A call starts or stops the session, or leaves it as it is.               *)
LEMMA CallsPromised ==
  ASSUME Flags, Ranges, Patient, Owned, AppStep
  PROVE  \/ session' = session
         \/ session \in {"idle", "dead"} /\ session' = "active"
         \/ session \in {"active", "dead"} /\ session' = "stopping"
         \/ session = "stopping" /\ session' = "idle"
<1> USE DEF session, Live
<1>1. CASE AllocRequest \/ FreeRequest
  BY <1>1 DEF AllocRequest, FreeRequest
<1>2. CASE Connecting \/ Installing
  BY <1>2 DEF Connecting, Installing, Install
<1>3. CASE Disconnecting
  BY <1>3 DEF Disconnecting, Disconnect
<1>4. CASE Starting
  BY <1>4 DEF Starting, BeginStart, MayCall
<1>5. CASE Creating
  <2>1. \A t \in Thread : ~Live(t)
    BY <1>5 DEF Creating, CreateThread, Owned, Owner
  <2>2. CASE appPc' = "idle" /\ pc' = pc /\ started' = started
    BY <1>5, <2>1, <2>2 DEF Creating, CreateThread
  <2>3. CASE appPc' = "start_store" /\ \E t \in Thread : pc' = [pc EXCEPT ![t] = "begin"]
    <3>1. session' = "active"
      BY <2>3 DEF Ranges
    <3>2. session \in {"idle", "dead"}
      BY <1>5, <2>1 DEF Creating, CreateThread
    <3> QED
      BY <3>1, <3>2
  <2> QED
    BY <1>5, <2>2, <2>3 DEF Creating, CreateThread
<1>6. CASE StoreHandle
  BY <1>6 DEF StoreHandle
<1>7. CASE CallStop
  BY <1>7 DEF CallStop, MayCall
<1>8. CASE CheckFlag
  BY <1>8 DEF CheckFlag
<1>9. CASE Joining \/ Destroying
  BY <1>9 DEF Joining, JoinThread, Destroying, DestroyThread
<1>10. CASE Closing
  BY <1>10 DEF Closing, WosThermal!Deinit, WosThermal!MayDisconnect, WosThermal!DeinitJoin,
               WosThermal!DeinitClose, Patient
<1> QED
  BY <1>1, <1>2, <1>3, <1>4, <1>5, <1>6, <1>7, <1>8, <1>9, <1>10 DEF AppStep

(* A thread delivers in a session that is active or stopping, or ends it.   *)
LEMMA ThreadsPromised ==
  ASSUME Flags, Ranges, BufferInv, CheckedInv, Patient, Owned, \A u \in Thread : Live(u) =>
           Equipped,
         NEW t \in Thread, ThreadStep(t)
  PROVE  \/ session' = session /\ UNCHANGED sent
         \/ session = "active" /\ session' = "dead" /\ UNCHANGED sent
         \/ /\ session \in {"active", "stopping"} /\ session' = session
            /\ batches' = 1 - batches /\ Legal(batch') /\ batch' # NoBatch
<1>1. Live(t) /\ Owner(t) /\ Equipped
  BY DEF ThreadStep, Owned
<1>2. session \in {"active", "stopping"}
  BY <1>1 DEF session, Owner
<1>3. CASE Falling(t)
  BY <1>3 DEF Falling, Undefined, session, Live
<1>4. CASE \E b \in Buffers, at \in Pc : Moving(t, b, at)
  <2>1. PICK b \in Buffers, at \in Pc : Moving(t, b, at)
    BY <1>4
  <2>2. pc' = [pc EXCEPT ![t] = at] /\ started' = started /\ appPc' = appPc
    BY <2>1 DEF Moving, Move
  <2>3. session' = session \/ (session = "active" /\ session' = "dead")
    BY <1>1, <1>2, <2>2 DEF session, Owner
  <2>4. CASE pc[t] = "deliver"
    <3>1. at = "callback" /\ batches' = 1 - batches
          /\ batch' = IF kind = "wos_thermal" THEN buf[t].said ELSE buf[t].len
      BY <2>1, <2>4 DEF Moving
    <3>2. session' = session
      BY <1>1, <1>2, <2>2, <2>4, <3>1 DEF session, Live, Ranges
    <3>3. /\ buf[t] \in Buffers /\ Filling(MetricsOf, buf[t], "deliver") /\ MetricsOf \in {2, 5}
          /\ request \in Requests /\ (kind = "wos_thermal" => request.sampling > 0)
      BY <1>1, <2>4, MetricsAre
         DEF BufferInv, Ranges, Equipped, CheckedInv, InUse, Late, EagerFlag
    <3>4. Legal(batch') /\ batch' # NoBatch
      BY <3>1, <3>3, SentLegal
    <3> QED
      BY <1>2, <3>1, <3>2, <3>4
  <2>5. CASE pc[t] # "deliver"
    BY <2>1, <2>3, <2>5 DEF Moving
  <2> QED
    BY <2>4, <2>5
<1> QED
  BY <1>3, <1>4 DEF ThreadStep

(* The safety part of KeepsPromise: for a patient application every backend *)
(* implements CollectorSession, step by step. That a stop ends needs        *)
(* fairness and stays with TLC.                                             *)
THEOREM SamplersKeepPromise ==
  Patient => (Spec => Promise!SInit /\ [][Promise!SNext]_(Promise!sVars))
<1> SUFFICES ASSUME Patient PROVE Spec => Promise!SInit /\ [][Promise!SNext]_(Promise!sVars)
  OBVIOUS
<1>1. Init => Promise!SInit
  BY InitShared DEF SessionInit, Promise!SInit, session
<1>2. SamplersInv /\ [Next]_vars => [Promise!SNext]_(Promise!sVars)
  <2> SUFFICES ASSUME SamplersInv, [Next]_vars PROVE [Promise!SNext]_(Promise!sVars)
    OBVIOUS
  <2>1. /\ Flags /\ Ranges /\ BufferInv /\ CheckedInv /\ Owned
        /\ \A u \in Thread : Live(u) => Equipped
    BY TypeParts, PatientOwned DEF SamplersInv, SharedInv
  <2>2. CASE UNCHANGED vars
    <3>1. session' = session /\ batches' = batches /\ shown' = shown
      BY <2>2 DEF vars, session, shown, Live, Legal, Largest, MetricsOf, Requests
    <3> QED
      BY <3>1 DEF Promise!sVars, shown
  <2>3. kind' = kind => \A n : Legal(n)' <=> Legal(n)
    BY DEF Legal, Largest, MetricsOf, Requests
  <2>4. CASE AppStep
    <3>1. kind' = kind /\ batches' = batches /\ shown' = shown
      BY <2>1, <2>3, <2>4, CallThreads DEF shown
    <3> QED
      BY <2>1, <2>4, <3>1, CallsPromised
         DEF shown, Promise!sVars, Promise!SNext, Promise!Start, Promise!Stop, Promise!Stopped
  <2>5. CASE \E t \in Thread : ThreadStep(t)
    <3>1. PICK t \in Thread : ThreadStep(t)
      BY <2>5
    <3>2. kind' = kind
      BY <3>1 DEF ThreadStep, Falling, Undefined, Moving
    <3>3. CASE UNCHANGED sent /\
                 (session' = session \/ (session = "active" /\ session' = "dead"))
      <4>1. batches' = batches /\ shown' = shown
        BY <2>3, <3>2, <3>3 DEF shown
      <4> QED
        BY <3>3, <4>1 DEF shown, Promise!sVars, Promise!SNext, Promise!Die
    <3>4. CASE /\ session \in {"active", "stopping"} /\ session' = session
               /\ batches' = 1 - batches /\ Legal(batch') /\ batch' # NoBatch
      <4>1. shown' = 1
        BY <2>3, <3>2, <3>4 DEF shown
      <4> QED
        BY <3>4, <4>1 DEF shown, Promise!SNext, Promise!Deliver
    <3> QED
      BY <2>1, <3>1, <3>3, <3>4, ThreadsPromised
  <2> QED
    BY <2>2, <2>4, <2>5, EveryStep DEF SamplersInv, SharedInv
<1> QED
  BY <1>1, <1>2, SamplersInvariant, PTL DEF Spec
=============================================================================
