-------------------------- MODULE Providers_proofs --------------------------
(***************************************************************************)
(* Proofs about Providers, for any machine, tables and bounds: what is     *)
(* listed and sent, how the libraries answer, the sizes of their arrays,   *)
(* and with ProvidersMemory_proofs the invariant of which the properties   *)
(* follow.                                                                 *)
(***************************************************************************)
EXTENDS ProvidersMemory_proofs

Ids == 0 .. LastId

(* All that is used of the last id.                                         *)
LEMMA LastIdIs == LastId \in Nat /\ 1 <= LastId
BY DEF LastId

ListInv ==
  /\ listed \subseteq Ids
  /\ lib = "linux_cpu_metrics" =>
       /\ isOpen => Metric!Totals \cup Metric!All(metricsOf) \subseteq listed
       /\ DOMAIN metricsOf \subseteq 0 .. MaxCores - 1
       /\ sent \subseteq listed \cup Metric!Limits(DOMAIN metricsOf)
  /\ lib = "wos_power_metrics" =>
       Metric!All(metricsOf) \subseteq listed /\ sent \subseteq listed
  /\ lib = "wos_thermal_metrics" =>
       Metric!Known(metricsOf) \subseteq listed /\ sent \subseteq listed \cup {0}
  /\ lib \notin Catalogued => sent = {}

(* What a backend that is not initialized lists: nothing.                   *)
LEMMA NothingListed ==
  ASSUME Metric!Lists({}, Metric!Nothing), ~isOpen'
  PROVE  ListInv'
<1>1. listed' = {} /\ sent' = {} /\ DOMAIN metricsOf' = {} /\ Metric!All(metricsOf') = {}
  BY DEF Metric!Lists, Metric!Nothing, Metric!All, Metric!Range
<1> QED BY <1>1 DEF ListInv, Metric!Known

(* The ids of qcom-linux-cpu for the cores that it may have.                *)
LEMMA CoreIds ==
  /\ Metric!Totals \subseteq Ids
  /\ \A c \in 0 .. MaxCores - 1 : Metric!PerCore(c) \subseteq Ids /\ Metric!Limit(c) \in Ids
<1>1. MaxCores \in Nat /\ 1 + 5 * MaxCores <= LastId
  BY SizesAssumption
<1>2. ASSUME NEW c \in 0 .. MaxCores - 1
      PROVE  Metric!PerCore(c) \subseteq Ids /\ Metric!Limit(c) \in Ids
  <2>1. c \in Nat /\ 5 * c + 5 <= 5 * MaxCores
    BY <1>1
  <2>2. Metric!Base(c) \in Nat /\ Metric!Base(c) + 4 <= LastId
    BY <1>1, <2>1, LastIdIs DEF Metric!Base
  <2> DEFINE base == Metric!Base(c)
  <2>3. base \in Nat /\ base + 4 <= LastId
    BY <2>2
  <2> HIDE DEF base
  <2>4. base .. base + 3 \subseteq 0 .. LastId /\ base + 4 \in 0 .. LastId
    <3>1. ASSUME NEW i \in base .. base + 3 PROVE i \in 0 .. LastId
      BY <2>3, LastIdIs
    <3>2. base + 4 \in 0 .. LastId
      BY <2>3, LastIdIs
    <3> QED BY <3>1, <3>2
  <2> QED BY <2>4 DEF Metric!PerCore, Metric!Limit, Ids, base
<1>3. Metric!Totals \subseteq Ids
  BY LastIdIs DEF Metric!Totals, Ids
<1> QED BY <1>2, <1>3

(* What qcom-linux-cpu sends it listed, but for limits.                     *)
LEMMA LinuxCpuLists ==
  ASSUME lib = "linux_cpu_metrics", ListInv, Metric!Next
  PROVE  ListInv'
<1> USE DEF Metric!Answer, Metric!Opened, Metric!Emptied, Metric!Failed, Metric!Closed,
        Metric!PastEnd, Metric!Used, Metric!OpenFails, Metric!Delivers, Metric!MayOpen,
        Metric!MayClose
<1>1. CASE Metric!LinuxCpuInit
  <2>1. CASE Metric!Lists({}, Metric!Nothing) /\ ~isOpen'
    BY <2>1, NothingListed
  <2>2. ASSUME NEW cores \in Metric!CoreCounts, NEW limited \in SUBSET (0 .. cores - 1),
               NEW f, f = [c \in 0 .. cores - 1 |-> Metric!PerCore(c)],
               Metric!Lists(Metric!Totals \cup Metric!All(f) \cup Metric!Limits(limited), f),
               UNCHANGED lib
        PROVE  ListInv'
    <3>1. cores \in Nat /\ cores <= MaxCores /\ 0 .. cores - 1 \subseteq 0 .. MaxCores - 1
      BY SizesAssumption DEF Metric!CoreCounts
    <3>2. /\ listed' = Metric!Totals \cup Metric!All(f) \cup Metric!Limits(limited)
          /\ metricsOf' = f /\ sent' = {} /\ DOMAIN f = 0 .. cores - 1
      BY <2>2 DEF Metric!Lists
    <3>3. Metric!All(f) \subseteq Ids
      BY <2>2, <3>1, CoreIds DEF Metric!All, Metric!Range
    <3>4. Metric!Limits(limited) \subseteq Ids
      BY <2>2, <3>1, CoreIds DEF Metric!Limits
    <3>5. listed' \subseteq Ids
      BY <3>2, <3>3, <3>4, CoreIds
    <3> QED BY <2>2, <3>1, <3>2, <3>5 DEF ListInv, Catalogued
  <2>3. \/ Metric!Lists({}, Metric!Nothing) /\ ~isOpen'
        \/ \E cores \in Metric!CoreCounts : \E limited \in SUBSET (0 .. cores - 1) :
             LET f == [c \in 0 .. cores - 1 |-> Metric!PerCore(c)] IN
             Metric!Lists(Metric!Totals \cup Metric!All(f) \cup Metric!Limits(limited), f)
               /\ UNCHANGED lib
    BY <1>1 DEF Metric!LinuxCpuInit
  <2> QED BY <2>1, <2>2, <2>3
<1>2. CASE Metric!LinuxCpuBatch \/ Metric!Start
  <2>0. UNCHANGED <<lib, isOpen, listed, metricsOf>> /\ isOpen
    BY <1>2 DEF Metric!LinuxCpuBatch, Metric!Start
  <2>1. sent' \subseteq listed \cup Metric!Limits(DOMAIN metricsOf)
    <3>1. CASE Metric!Start
      BY <3>1 DEF Metric!Start
    <3>2. CASE Metric!LinuxCpuBatch
      <4>1. PICK limited \in SUBSET DOMAIN metricsOf :
              LET b == Metric!Totals \cup Metric!All(metricsOf) \cup Metric!Limits(limited)
              IN sent' = b \/ sent' = Metric!Lowest(b, size.used)
        BY <3>2 DEF Metric!LinuxCpuBatch
      <4>2. sent' \subseteq Metric!Totals \cup Metric!All(metricsOf) \cup Metric!Limits(limited)
        BY <4>1 DEF Metric!Lowest
      <4>3. Metric!Limits(limited) \subseteq Metric!Limits(DOMAIN metricsOf)
        BY DEF Metric!Limits
      <4>4. Metric!Totals \cup Metric!All(metricsOf) \subseteq listed
        BY <2>0 DEF ListInv
      <4> QED BY <4>2, <4>3, <4>4
    <3> QED BY <1>2, <3>1, <3>2
  <2> QED BY <2>0, <2>1 DEF ListInv, Catalogued
<1>3. CASE Metric!Deinit
  BY <1>3, NothingListed DEF Metric!Deinit
<1> QED BY <1>1, <1>2, <1>3
        DEF Metric!Next, Metric!WosPowerInit, Metric!WosPowerBatch, Metric!WosThermalInit,
            Metric!WosThermalBatch

(* The rail that start asks for is one of the metric it was asked for.      *)
LEMMA RailRoundTrip ==
  ASSUME NEW rail \in 0 .. MaxRails - 1, NEW system \in {SystemRail, Metric!Sys}
  PROVE  /\ Metric!MetricOf(rail) \in 0 .. MaxRails - 1
         /\ Metric!MetricOf(Metric!RailOf(Metric!MetricOf(rail), system)) = Metric!MetricOf(rail)
<1>1. MaxRails \in Nat /\ SystemRail \in Nat /\ 1 <= SystemRail /\ SystemRail <= MaxRails - 1
  BY SizesAssumption
<1> QED BY <1>1 DEF Metric!MetricOf, Metric!RailOf, Metric!Sys

(* What wos-power sends it listed, through rails and back.                  *)
LEMMA WosPowerLists ==
  ASSUME lib = "wos_power_metrics", ListInv, Metric!Next
  PROVE  ListInv'
<1> USE DEF Metric!Answer, Metric!Opened, Metric!Emptied, Metric!Failed, Metric!Closed,
        Metric!PastEnd, Metric!Used, Metric!OpenFails, Metric!Delivers, Metric!MayOpen,
        Metric!MayClose
<1>1. CASE Metric!WosPowerInit
  <2>1. CASE Metric!Lists({}, Metric!Nothing) /\ ~isOpen'
    BY <2>1, NothingListed
  <2>2. ASSUME NEW rails \in SUBSET (0 .. MaxRails - 1), NEW system \in {SystemRail, Metric!Sys},
               NEW l, l = {Metric!MetricOf(r) : r \in rails},
               NEW asked, asked = {Metric!RailOf(i, system) : i \in l},
               Metric!Lists(l, [r \in asked |-> {Metric!MetricOf(r)}]), UNCHANGED lib
        PROVE  ListInv'
    <3>1. listed' = l /\ sent' = {} /\ metricsOf' = [r \in asked |-> {Metric!MetricOf(r)}]
      BY <2>2 DEF Metric!Lists
    <3>2. \A i \in l : i \in 0 .. MaxRails - 1 /\ Metric!MetricOf(Metric!RailOf(i, system)) = i
      BY <2>2, RailRoundTrip
    <3>3. \A r \in asked : Metric!MetricOf(r) \in l
      BY <2>2, <3>2
    <3>4. Metric!All(metricsOf') \subseteq listed'
      BY <3>1, <3>3 DEF Metric!All, Metric!Range
    <3>5. 0 .. MaxRails - 1 \subseteq Ids
      <4>1. MaxRails \in Nat /\ MaxRails - 1 <= LastId
        BY SizesAssumption
      <4>2. ASSUME NEW i \in 0 .. MaxRails - 1 PROVE i \in 0 .. LastId
        BY <4>1, LastIdIs
      <4> QED BY <4>2 DEF Ids
    <3> QED BY <2>2, <3>1, <3>2, <3>4, <3>5 DEF ListInv, Catalogued
  <2>3. \/ Metric!Lists({}, Metric!Nothing) /\ ~isOpen'
        \/ \E rails \in SUBSET (0 .. MaxRails - 1) :
             LET l == {Metric!MetricOf(r) : r \in rails}
                 system == IF SystemRail \in rails THEN SystemRail ELSE Metric!Sys
                 asked == {Metric!RailOf(i, system) : i \in l}
             IN Metric!Lists(l, [r \in asked |-> {Metric!MetricOf(r)}]) /\ UNCHANGED lib
    BY <1>1 DEF Metric!WosPowerInit
  <2>4. ASSUME NEW rails \in SUBSET (0 .. MaxRails - 1),
               LET l == {Metric!MetricOf(r) : r \in rails}
                   system == IF SystemRail \in rails THEN SystemRail ELSE Metric!Sys
                   asked == {Metric!RailOf(i, system) : i \in l}
               IN Metric!Lists(l, [r \in asked |-> {Metric!MetricOf(r)}]) /\ UNCHANGED lib
        PROVE  ListInv'
    <3>1. PICK system \in {SystemRail, Metric!Sys} :
            system = IF SystemRail \in rails THEN SystemRail ELSE Metric!Sys
      OBVIOUS
    <3>2. PICK l : l = {Metric!MetricOf(r) : r \in rails}
      OBVIOUS
    <3>3. PICK asked : asked = {Metric!RailOf(i, system) : i \in l}
      OBVIOUS
    <3> QED BY <2>2, <2>4, <3>1, <3>2, <3>3
  <2> QED BY <2>1, <2>3, <2>4
<1>2. CASE Metric!WosPowerBatch \/ Metric!Start
  <2>0. UNCHANGED <<lib, isOpen, listed, metricsOf>> /\ isOpen
    BY <1>2 DEF Metric!WosPowerBatch, Metric!Start
  <2>1. sent' \subseteq listed
    <3>1. CASE Metric!Start
      BY <3>1 DEF Metric!Start
    <3>2. CASE Metric!WosPowerBatch
      <4>1. PICK rails \in SUBSET DOMAIN metricsOf :
                 sent' = Metric!All(Metric!Restrict(metricsOf, rails))
        BY <3>2 DEF Metric!WosPowerBatch
      <4>2. sent' \subseteq Metric!All(metricsOf)
        BY <4>1 DEF Metric!All, Metric!Range, Metric!Restrict
      <4> QED BY <4>2 DEF ListInv
    <3> QED BY <1>2, <3>1, <3>2
  <2> QED BY <2>0, <2>1 DEF ListInv, Catalogued
<1>3. CASE Metric!Deinit
  BY <1>3, NothingListed DEF Metric!Deinit
<1> QED BY <1>1, <1>2, <1>3
        DEF Metric!Next, Metric!LinuxCpuInit, Metric!LinuxCpuBatch, Metric!WosThermalInit,
            Metric!WosThermalBatch

(* The ids of wos-thermal for the zones that have names.                    *)
LEMMA ZoneIds ==
  /\ Metric!EveryZone \subseteq Ids
  /\ \A f \in Metric!ZoneMaps : Metric!All(f) \ {Metric!NoMetric} \subseteq Ids
<1>1. KnownZones \in Nat /\ 2 * KnownZones - 1 <= LastId
  BY SizesAssumption
<1>2. ASSUME NEW n \in 0 .. KnownZones - 1 PROVE Metric!ZoneMetrics(n) \subseteq Ids
  <2>1. n \in Nat /\ 2 * n + 2 <= 2 * KnownZones
    BY <1>1
  <2>2. 2 * n \in 0 .. LastId /\ 2 * n + 1 \in 0 .. LastId
    BY <1>1, <2>1, LastIdIs
  <2> QED BY <2>2 DEF Metric!ZoneMetrics, Ids
<1>3. ASSUME NEW f \in Metric!ZoneMaps PROVE Metric!All(f) \ {Metric!NoMetric} \subseteq Ids
  <2>1. \A z \in DOMAIN f : f[z] \in {Metric!ZoneMetrics(n) : n \in 0 .. KnownZones - 1}
        \cup {{Metric!NoMetric}}
    BY DEF Metric!ZoneMaps
  <2> QED BY <1>2, <2>1 DEF Metric!All, Metric!Range
<1>4. Metric!EveryZone \subseteq Ids
  <2>1. ASSUME NEW i \in 0 .. 2 * KnownZones - 1 PROVE i \in 0 .. LastId
    BY <1>1, LastIdIs
  <2> QED BY <2>1 DEF Metric!EveryZone, Ids
<1> QED BY <1>3, <1>4

(* What wos-thermal sends it listed, but for zeros.                         *)
LEMMA WosThermalLists ==
  ASSUME lib = "wos_thermal_metrics", ListInv, Metric!Next
  PROVE  ListInv'
<1> USE DEF Metric!Answer, Metric!Opened, Metric!Emptied, Metric!Failed, Metric!Closed,
        Metric!PastEnd, Metric!Used, Metric!OpenFails, Metric!Delivers, Metric!MayOpen,
        Metric!MayClose
<1>1. CASE Metric!WosThermalInit
  <2>1. CASE Metric!Lists({}, Metric!Nothing) /\ ~isOpen'
    BY <2>1, NothingListed
  <2>2. CASE UNCHANGED <<listed, metricsOf, sent, lib>>
    BY <2>2 DEF ListInv, Catalogued
  <2>3. ASSUME NEW f \in Metric!ZoneMaps, UNCHANGED lib,
               \/ Named(f) = {} /\ Metric!Lists(Metric!EveryZone, f)
               \/ Metric!Lists(Metric!All(f) \ {Metric!NoMetric}, f)
        PROVE  ListInv'
    <3>1. sent' = {} /\ metricsOf' = f /\ listed' \subseteq Ids
      BY <2>3, ZoneIds DEF Metric!Lists
    <3>2. Metric!Known(f) \subseteq listed'
      <4>1. CASE Named(f) = {}
        BY <4>1 DEF Named, Metric!Known, Metric!All, Metric!Range
      <4>2. CASE Named(f) # {}
        BY <2>3, <4>2 DEF Metric!Known, Metric!Lists
      <4> QED BY <4>1, <4>2
    <3> QED BY <2>3, <3>1, <3>2 DEF ListInv, Catalogued
  <2>4. \/ Metric!Lists({}, Metric!Nothing) /\ ~isOpen'
        \/ UNCHANGED <<listed, metricsOf, sent, lib>>
        \/ \E f \in Metric!ZoneMaps :
             /\ UNCHANGED lib
             /\ \/ Named(f) = {} /\ Metric!Lists(Metric!EveryZone, f)
                \/ Metric!Lists(Metric!All(f) \ {Metric!NoMetric}, f)
    <3> HIDE DEF Metric!Lists
    <3> QED BY <1>1 DEF Metric!WosThermalInit, Named, Metric!catalogue
  <2> QED BY <2>1, <2>2, <2>3, <2>4
<1>2. CASE Metric!WosThermalBatch \/ Metric!Start
  <2>0. UNCHANGED <<lib, isOpen, listed, metricsOf>> /\ isOpen
    BY <1>2 DEF Metric!WosThermalBatch, Metric!Start
  <2>1. sent' \subseteq listed \cup {0}
    BY <1>2 DEF Metric!WosThermalBatch, Metric!Start, ListInv
  <2> QED BY <2>0, <2>1 DEF ListInv, Catalogued
<1>3. CASE Metric!Deinit
  BY <1>3, NothingListed DEF Metric!Deinit
<1> QED BY <1>1, <1>2, <1>3
        DEF Metric!Next, Metric!LinuxCpuInit, Metric!LinuxCpuBatch, Metric!WosPowerInit,
            Metric!WosPowerBatch

(* A call leaves the library what it is, and has an answer.                 *)
TypedStep == /\ UNCHANGED lib /\ (isOpen \in BOOLEAN => isOpen' \in BOOLEAN)
             /\ answer \in Answers => answer' \in Answers

(* What a call may answer.                                                  *)
LEMMA AnswersAre ==
  \A a \in {"success", "failed", "already", "not_open"} :
    <<"open", a>> \in Answers /\ <<"use", a>> \in Answers /\ <<"close", a>> \in Answers
BY DEF Answers

(* The calls of cpu-telemetry change no kind.                               *)
LEMMA CpuTyped == Cpu!Next => TypedStep
<1> USE AnswersAre DEF TypedStep, Cpu!Answer, Cpu!Opened, Cpu!Emptied, Cpu!Failed, Cpu!Closed,
        Cpu!PastEnd, Cpu!Used
<1>1. CASE Cpu!NtQueryInit
  BY <1>1 DEF Cpu!NtQueryInit
<1>2. CASE Cpu!PdhInit
  BY <1>2 DEF Cpu!PdhInit
<1>3. CASE Cpu!Collect
  BY <1>3 DEF Cpu!Collect
<1>4. CASE Cpu!NtQueryDestroy
  BY <1>4 DEF Cpu!NtQueryDestroy
<1>5. CASE Cpu!PdhDestroy
  BY <1>5 DEF Cpu!PdhDestroy
<1> QED BY <1>1, <1>2, <1>3, <1>4, <1>5 DEF Cpu!Next

(* The calls of power-telemetry change no kind.                             *)
LEMMA PowerTyped == Power!Next => TypedStep
<1> USE AnswersAre DEF TypedStep, Power!Answer, Power!Opened, Power!Emptied, Power!Failed,
    Power!Closed,
        Power!PastEnd, Power!Used
<1>1. CASE Power!RailsGetSupported
  BY <1>1 DEF Power!RailsGetSupported
<1>2. CASE Power!RailsInit
  BY <1>2 DEF Power!RailsInit
<1>3. CASE Power!RailsGetInfo
  BY <1>3 DEF Power!RailsGetInfo
<1>4. CASE Power!RailsDestroy
  BY <1>4 DEF Power!RailsDestroy
<1> QED BY <1>1, <1>2, <1>3, <1>4 DEF Power!Next

(* The calls of the PDH queries change no kind.                             *)
LEMMA PdhTyped == Pdh!Next => TypedStep
<1> USE AnswersAre DEF TypedStep, Pdh!Answer, Pdh!Opened, Pdh!Emptied, Pdh!Failed, Pdh!Closed,
        Pdh!PastEnd, Pdh!Used
<1>1. CASE Pdh!CoolingInit
  BY <1>1 DEF Pdh!CoolingInit
<1>2. CASE Pdh!CoolingGetInfo
  BY <1>2 DEF Pdh!CoolingGetInfo
<1>3. CASE Pdh!CoolingCleanup
  BY <1>3 DEF Pdh!CoolingCleanup
<1>4. CASE Pdh!CpuInit
  BY <1>4 DEF Pdh!CpuInit
<1>5. CASE Pdh!CpuGetNumCores
  BY <1>5 DEF Pdh!CpuGetNumCores
<1>6. CASE Pdh!CpuGetInfo
  BY <1>6 DEF Pdh!CpuGetInfo
<1>7. CASE Pdh!CpuCleanup
  BY <1>7 DEF Pdh!CpuCleanup
<1> QED BY <1>1, <1>2, <1>3, <1>4, <1>5, <1>6, <1>7 DEF Pdh!Next

(* The calls of the DSP session change no kind.                             *)
LEMMA DspTyped == Dsp!Next => TypedStep
<1> USE AnswersAre DEF TypedStep, Dsp!Answer, Dsp!Opened, Dsp!Emptied, Dsp!Failed, Dsp!Closed,
        Dsp!PastEnd, Dsp!Used
<1>1. CASE Dsp!DspInit
  BY <1>1 DEF Dsp!DspInit
<1>2. CASE Dsp!DspGetProfData
  BY <1>2 DEF Dsp!DspGetProfData
<1>3. CASE Dsp!DspDeinit
  BY <1>3 DEF Dsp!DspDeinit
<1> QED BY <1>1, <1>2, <1>3 DEF Dsp!Next

(* The calls of a device handle change no kind.                             *)
LEMMA IoctlTyped == Ioctl!Next => TypedStep
<1> USE AnswersAre DEF TypedStep, Ioctl!Answer, Ioctl!Opened, Ioctl!Emptied, Ioctl!Failed,
    Ioctl!Closed,
        Ioctl!PastEnd, Ioctl!Used
<1>1. CASE Ioctl!GetDeviceHandle
  BY <1>1 DEF Ioctl!GetDeviceHandle
<1>2. CASE Ioctl!FreeDeviceHandle
  BY <1>2 DEF Ioctl!FreeDeviceHandle
<1> QED BY <1>1, <1>2 DEF Ioctl!Next

(* The calls of a condition variable change no kind.                        *)
LEMMA CvTyped == Cv!Next => TypedStep
<1> USE AnswersAre DEF TypedStep, Cv!Answer, Cv!Opened, Cv!Emptied, Cv!Failed, Cv!Closed,
    Cv!PastEnd,
        Cv!Used, Cv!Waiting
<1>1. CASE Cv!CvCreate
  BY <1>1 DEF Cv!CvCreate
<1>2. CASE Cv!CvWait
  BY <1>2 DEF Cv!CvWait
<1>3. CASE Cv!CvTimeout
  BY <1>3 DEF Cv!CvTimeout
<1>4. CASE Cv!CvNotify
  BY <1>4 DEF Cv!CvNotify
<1>5. CASE Cv!CvNotifyAll
  BY <1>5 DEF Cv!CvNotifyAll
<1>6. CASE Cv!CvDestroy
  BY <1>6 DEF Cv!CvDestroy
<1> QED BY <1>1, <1>2, <1>3, <1>4, <1>5, <1>6 DEF Cv!Next

(* The calls of the catalogued backends change no kind.                     *)
LEMMA MetricTyped == Metric!Next => TypedStep
<1> USE AnswersAre DEF TypedStep, Metric!Answer, Metric!Opened, Metric!Emptied, Metric!Failed,
        Metric!Closed, Metric!PastEnd, Metric!Used, Metric!OpenFails, Metric!Delivers,
        Metric!MayClose, Metric!MayOpen
<1>1. CASE Metric!LinuxCpuInit
  BY <1>1 DEF Metric!LinuxCpuInit
<1>2. CASE Metric!LinuxCpuBatch
  <2>1. isOpen /\ \E b : Metric!Delivers(b)
    <3> HIDE DEF Metric!Delivers
    <3> QED BY <1>2 DEF Metric!LinuxCpuBatch
  <2> QED BY <2>1
<1>3. CASE Metric!WosPowerInit
  BY <1>3 DEF Metric!WosPowerInit
<1>4. CASE Metric!WosPowerBatch
  BY <1>4 DEF Metric!WosPowerBatch
<1>5. CASE Metric!WosThermalInit
  <2>1. \/ \E m : Metric!OpenFails(m)
        \/ Metric!PastEnd("metrics")
        \/ \E m, s : Metric!Opened(m, s)
    <3> HIDE DEF Metric!OpenFails, Metric!PastEnd, Metric!Opened
    <3> QED BY <1>5 DEF Metric!WosThermalInit
  <2> QED BY <2>1
<1>6. CASE Metric!WosThermalBatch
  <2>1. isOpen /\ \E b : Metric!Delivers(b)
    <3> HIDE DEF Metric!Delivers
    <3> QED BY <1>6 DEF Metric!WosThermalBatch
  <2> QED BY <2>1
<1>7. CASE Metric!Start
  BY <1>7 DEF Metric!Start
<1>8. CASE Metric!Deinit
  BY <1>8 DEF Metric!Deinit
<1> QED BY <1>1, <1>2, <1>3, <1>4, <1>5, <1>6, <1>7, <1>8 DEF Metric!Next

(* The calls of linux-thermal change no kind.                               *)
LEMMA ThermalTyped == Next => TypedStep
<1> USE AnswersAre DEF TypedStep, Answer, Opened, Emptied, Failed, Closed, PastEnd, Used
<1>1. CASE LibInit
  <2>1. \/ isOpen /\ Answer("open", "already")
        \/ \E m : Failed(m)
        \/ \E m, s : Opened(m, s)
    <3> HIDE DEF Answer, Failed, Opened
    <3> QED BY <1>1 DEF LibInit
  <2>2. CASE isOpen /\ Answer("open", "already")
    BY <2>2
  <2>3. CASE \E m : Failed(m)
    BY <2>3
  <2>4. CASE \E m, s : Opened(m, s)
    BY <2>4
  <2> QED BY <2>1, <2>2, <2>3, <2>4
<1>2. ASSUME NEW side \in Side, Discover(side) PROVE TypedStep
  BY <1>2 DEF Discover
<1>3. CASE Info
  BY <1>3 DEF Info
<1>4. CASE Cleanup
  BY <1>4 DEF Cleanup
<1> QED BY <1>1, <1>2, <1>3, <1>4 DEF Next

(* The arrays that the libraries keep are never fuller than they are long.  *)
SizedStep == Sized => Sized'

(* No array is not too full.                                                *)
LEMMA NoSizeIs == \A s : s = [room |-> 0, used |-> 0] =>
                          s \in [room : Nat, used : Nat] /\ s.used <= s.room
OBVIOUS

(* An array may be full.                                                    *)
LEMMA FullIs ==
  ASSUME NEW s, NEW room \in Nat, NEW used \in Nat, used <= room,
         s = [room |-> room, used |-> used]
  PROVE  s \in [room : Nat, used : Nat] /\ s.used <= s.room
OBVIOUS

(* What is used stays within the room.                                      *)
LEMMA UsedIs ==
  ASSUME Sized, NEW n \in 0 .. size.room, size' = [size EXCEPT !.used = n]
  PROVE  Sized'
<1>1. size.room \in Nat /\ size'.room = size.room /\ size'.used = n
  BY DEF Sized
<1>2. size' \in [room : Nat, used : Nat]
  BY <1>1 DEF Sized
<1> QED BY <1>1, <1>2 DEF Sized

(* An array that is kept, or dropped.                                       *)
LEMMA SameSize == size' \in {size, [room |-> 0, used |-> 0]} => SizedStep
BY NoSizeIs DEF SizedStep, Sized

(* The cores that are read have room.                                       *)
LEMMA CpuSized == Cpu!Next => SizedStep
<1> USE DEF Cpu!Answer, Cpu!Opened, Cpu!Emptied, Cpu!Failed, Cpu!Closed, Cpu!Used
<1>1. Cpu!Next => size' \in {size, [room |-> 0, used |-> 0]} \/ size' = Cpu!Sized
  BY DEF Cpu!Next, Cpu!NtQueryInit, Cpu!PdhInit, Cpu!Collect, Cpu!NtQueryDestroy, Cpu!PdhDestroy,
         Cpu!NoSize
<1>2. MaxCores \in Nat /\ Cpu!Cores \in Nat /\ Cpu!Cores <= MaxCores
  BY SizesAssumption DEF Cpu!Cores
<1>3. size' = Cpu!Sized => Sized'
  BY <1>2, FullIs DEF Cpu!Sized, Sized
<1> QED BY <1>1, <1>3, SameSize DEF SizedStep

(* The rails that were added were asked for.                                *)
LEMMA PowerSized == Power!Next => SizedStep
<1> USE DEF Power!Answer, Power!Emptied, Power!Failed, Power!Closed, Power!Used,
            Power!PastEnd, Power!NoSize
<1>1. CASE Power!RailsInit
  <2>1. \/ size' \in {size, [room |-> 0, used |-> 0]}
        \/ \E asked \in 1 .. MaxRails : \E added \in 0 .. asked : \E m :
             Power!Opened(m, [room |-> asked, used |-> added])
    <3> HIDE DEF Power!Opened
    <3> QED BY <1>1 DEF Power!RailsInit
  <2>2. ASSUME NEW asked \in 1 .. MaxRails, NEW added \in 0 .. asked, NEW m,
               Power!Opened(m, [room |-> asked, used |-> added])
        PROVE  Sized'
    <3>1. asked \in Nat /\ added \in Nat /\ added <= asked
      BY SizesAssumption
    <3> QED BY <2>2, <3>1, FullIs DEF Power!Opened, Sized
  <2> QED BY <2>1, <2>2, SameSize DEF SizedStep
<1>2. CASE Power!RailsGetSupported \/ Power!RailsGetInfo \/ Power!RailsDestroy
  BY <1>2, SameSize DEF Power!RailsGetSupported, Power!RailsGetInfo, Power!RailsDestroy
<1> QED BY <1>1, <1>2 DEF Power!Next

(* The zones and cores fill their lists.                                    *)
LEMMA PdhSized == Pdh!Next => SizedStep
<1> USE DEF Pdh!Answer, Pdh!Emptied, Pdh!Failed, Pdh!Closed, Pdh!Used, Pdh!NoSize
<1>1. CASE Pdh!CoolingInit \/ Pdh!CpuInit
  <2>1. \/ size' \in {size, [room |-> 0, used |-> 0]}
        \/ \E n \in 1 .. MaxZones \cup Pdh!UpdatedCores : \E m :
             Pdh!Opened(m, [room |-> n, used |-> n])
    <3> HIDE DEF Pdh!Opened
    <3> QED BY <1>1 DEF Pdh!CoolingInit, Pdh!CpuInit
  <2>2. ASSUME NEW n \in 1 .. MaxZones \cup Pdh!UpdatedCores, NEW m,
               Pdh!Opened(m, [room |-> n, used |-> n])
        PROVE  Sized'
    <3>1. n \in Nat /\ n <= n
      BY SizesAssumption DEF Pdh!UpdatedCores
    <3> QED BY <2>2, <3>1, FullIs DEF Pdh!Opened, Sized
  <2> QED BY <2>1, <2>2, SameSize DEF SizedStep
<1>2. CASE Pdh!CoolingGetInfo \/ Pdh!CoolingCleanup \/ Pdh!CpuGetNumCores \/ Pdh!CpuGetInfo
           \/ Pdh!CpuCleanup
  BY <1>2, SameSize DEF Pdh!CoolingGetInfo, Pdh!CoolingCleanup, Pdh!CpuGetNumCores,
                        Pdh!CpuGetInfo, Pdh!CpuCleanup
<1> QED BY <1>1, <1>2 DEF Pdh!Next

(* The DSP session keeps no array.                                          *)
LEMMA DspSized == Dsp!Next => SizedStep
BY SameSize DEF Dsp!Next, Dsp!DspInit, Dsp!DspGetProfData, Dsp!DspDeinit,
   Dsp!Answer, Dsp!Opened, Dsp!Emptied, Dsp!Failed, Dsp!Closed, Dsp!NoSize

(* A device handle keeps no array.                                          *)
LEMMA IoctlSized == Ioctl!Next => SizedStep
BY SameSize DEF Ioctl!Next, Ioctl!GetDeviceHandle, Ioctl!FreeDeviceHandle,
   Ioctl!Opened, Ioctl!Emptied, Ioctl!Failed, Ioctl!Closed, Ioctl!NoSize

(* No more threads wait than may, and none is woken twice.                  *)
LEMMA CvSized == Cv!Next => SizedStep
<1> USE DEF Cv!Answer, Cv!Opened, Cv!Emptied, Cv!Failed, Cv!Closed, Cv!NoSize, Cv!Waiting
<1>1. CASE Cv!CvCreate
  <2>1. size' \in {size, [room |-> 0, used |-> 0]} \/ size' = [room |-> MaxWaiters, used |-> 0]
    BY <1>1 DEF Cv!CvCreate
  <2>2. MaxWaiters \in Nat /\ 0 \in Nat /\ 0 <= MaxWaiters
    BY SizesAssumption
  <2>3. size' = [room |-> MaxWaiters, used |-> 0] => Sized'
    BY <2>2, FullIs DEF Sized
  <2> QED BY <2>1, <2>3, SameSize DEF SizedStep
<1>2. ASSUME Sized, Cv!CvWait \/ Cv!CvTimeout \/ Cv!CvNotify \/ Cv!CvNotifyAll
      PROVE  Sized'
  <2>1. size' = size \/ \E n \in {0, size.used + 1, size.used - 1} :
          /\ size' = [size EXCEPT !.used = n]
          /\ n = size.used + 1 => size.used < size.room
          /\ n = size.used - 1 => size.used # 0
    <3>0. size.used \in Nat /\ size.room \in Nat
      BY <1>2 DEF Sized
    <3>1. CASE Cv!CvWait
      BY <3>0, <3>1 DEF Cv!CvWait
    <3>2. CASE Cv!CvTimeout
      BY <3>0, <3>2 DEF Cv!CvTimeout
    <3>3. CASE Cv!CvNotify
      BY <3>0, <3>3 DEF Cv!CvNotify
    <3>4. CASE Cv!CvNotifyAll
      BY <3>0, <3>4 DEF Cv!CvNotifyAll
    <3> QED BY <1>2, <3>1, <3>2, <3>3, <3>4
  <2>2. CASE size' = size
    BY <1>2, <2>2 DEF Sized
  <2>3. ASSUME NEW n \in {0, size.used + 1, size.used - 1},
               size' = [size EXCEPT !.used = n],
               n = size.used + 1 => size.used < size.room,
               n = size.used - 1 => size.used # 0
        PROVE  Sized'
    <3>1. size.used \in Nat /\ size.room \in Nat /\ size.used <= size.room
      BY <1>2 DEF Sized
    <3>2. n \in 0 .. size.room
      BY <2>3, <3>1
    <3> QED BY <1>2, <2>3, <3>2, UsedIs
  <2> QED BY <2>1, <2>2, <2>3
<1>3. CASE Cv!CvDestroy
  BY <1>3, SameSize DEF Cv!CvDestroy
<1> QED BY <1>1, <1>2, <1>3 DEF Cv!Next, SizedStep

(* linux-thermal keeps no array but its domains'.                           *)
LEMMA ThermalSized == Next => SizedStep
<1> USE DEF Answer, Opened, Emptied, Failed, Closed, NoSize
<1>1. CASE LibInit
  <2>1. size' \in {size, [room |-> 0, used |-> 0]}
    <3>1. \/ Answer("open", "already")
          \/ \E m : Failed(m)
          \/ \E m : Opened(m, NoSize)
      <4> HIDE DEF Answer, Failed, Opened, NoSize
      <4> QED BY <1>1 DEF LibInit
    <3> QED BY <3>1
  <2> QED BY <2>1, SameSize
<1>2. ASSUME NEW side \in Side, Discover(side) PROVE SizedStep
  BY <1>2, SameSize DEF Discover
<1>3. CASE Info \/ Cleanup
  BY <1>3, SameSize DEF Info, Cleanup
<1> QED BY <1>1, <1>2, <1>3 DEF Next

(* The lists of the catalogued backends have room for what they list.       *)
LEMMA Bounded ==
  ASSUME NEW n \in Nat, NEW S \in SUBSET (0 .. n - 1)
  PROVE  Cardinality(S) \in Nat /\ Cardinality(S) <= n
<1>1. IsFiniteSet(0 .. n - 1) /\ Cardinality(0 .. n - 1) = n
  <2>1. 0 \in Int /\ n - 1 \in Int /\ (IF 0 > n - 1 THEN 0 ELSE (n - 1) - 0 + 1) = n
    OBVIOUS
  <2> QED BY <2>1, FS_Interval
<1>2. IsFiniteSet(S) /\ Cardinality(S) <= n
  BY <1>1, FS_Subset
<1> QED BY <1>2, FS_CardinalityType

(* The ids that qcom-linux-cpu lists are below its room.                    *)
LEMMA LinuxCpuRoom ==
  ASSUME NEW cores \in Metric!CoreCounts, NEW limited \in SUBSET (0 .. cores - 1),
         NEW f, f = [c \in 0 .. cores - 1 |-> Metric!PerCore(c)]
  PROVE  Metric!Totals \cup Metric!All(f) \cup Metric!Limits(limited)
           \subseteq 0 .. (2 + 5 * cores) - 1
<1>1. cores \in Nat /\ 2 + 5 * cores \in Nat
  BY SizesAssumption DEF Metric!CoreCounts
<1>2. ASSUME NEW c \in 0 .. cores - 1
      PROVE  /\ Metric!PerCore(c) \subseteq 0 .. (2 + 5 * cores) - 1
             /\ Metric!Limit(c) \in 0 .. (2 + 5 * cores) - 1
  <2>1. c \in Nat /\ 5 * c + 5 <= 5 * cores
    BY <1>1
  <2> DEFINE base == Metric!Base(c)
  <2>2. base \in Nat /\ base + 4 <= (2 + 5 * cores) - 1
    BY <1>1, <2>1 DEF Metric!Base
  <2> HIDE DEF base
  <2>3. ASSUME NEW i \in base .. base + 3 PROVE i \in 0 .. (2 + 5 * cores) - 1
    BY <1>1, <2>2
  <2>4. base + 4 \in 0 .. (2 + 5 * cores) - 1
    BY <1>1, <2>2
  <2> QED BY <2>3, <2>4 DEF base, Metric!PerCore, Metric!Limit
<1>3. Metric!Totals \subseteq 0 .. (2 + 5 * cores) - 1
  BY <1>1 DEF Metric!Totals
<1>4. Metric!All(f) \subseteq 0 .. (2 + 5 * cores) - 1
  BY <1>2 DEF Metric!All, Metric!Range
<1>5. Metric!Limits(limited) \subseteq 0 .. (2 + 5 * cores) - 1
  BY <1>2 DEF Metric!Limits
<1> QED BY <1>3, <1>4, <1>5

(* A list that has room for what it lists.                                  *)
LEMMA OpenedFull ==
  ASSUME NEW room \in Nat, NEW used \in Nat, used <= room, NEW m,
         Metric!Opened(m, Metric!Full(room, used))
  PROVE  Sized'
BY FullIs DEF Metric!Opened, Metric!Full, Sized

(* The capability lists are not filled past their room.                     *)
LEMMA MetricSized == Metric!Next => SizedStep
<1> USE DEF Metric!Answer, Metric!Emptied, Metric!Failed, Metric!Closed, Metric!PastEnd,
            Metric!NoSize, Metric!OpenFails, Metric!Delivers
<1>1. CASE Metric!LinuxCpuInit
  <2>1. ASSUME NEW cores \in Metric!CoreCounts, NEW limited \in SUBSET (0 .. cores - 1),
               NEW l, NEW f, NEW m,
               f = [c \in 0 .. cores - 1 |-> Metric!PerCore(c)],
               l = Metric!Totals \cup Metric!All(f) \cup Metric!Limits(limited),
               Metric!Opened(m, Metric!Full(2 + 5 * cores, Metric!Cardinality(l)))
        PROVE  Sized'
    <3>1. l \subseteq 0 .. (2 + 5 * cores) - 1
      BY <2>1, LinuxCpuRoom
    <3>2. 2 + 5 * cores \in Nat
      BY SizesAssumption DEF Metric!CoreCounts
    <3>3. Metric!Cardinality(l) \in Nat /\ Metric!Cardinality(l) <= 2 + 5 * cores
      BY <3>1, <3>2, Bounded, SameCardinality
    <3> QED BY <2>1, <3>2, <3>3, OpenedFull
  <2>2. \/ \E m : Metric!OpenFails(m)
        \/ \E cores \in Metric!CoreCounts : \E limited \in SUBSET (0 .. cores - 1) :
             LET f == [c \in 0 .. cores - 1 |-> Metric!PerCore(c)]
                 l == Metric!Totals \cup Metric!All(f) \cup Metric!Limits(limited)
             IN \E m : Metric!Opened(m, Metric!Full(2 + 5 * cores, Metric!Cardinality(l)))
    <3> HIDE DEF Metric!OpenFails
    <3> QED BY <1>1 DEF Metric!LinuxCpuInit
  <2>3. CASE \E m : Metric!OpenFails(m)
    BY <2>3, SameSize
  <2>4. CASE \E cores \in Metric!CoreCounts : \E limited \in SUBSET (0 .. cores - 1) :
             LET f == [c \in 0 .. cores - 1 |-> Metric!PerCore(c)]
                 l == Metric!Totals \cup Metric!All(f) \cup Metric!Limits(limited)
             IN \E m : Metric!Opened(m, Metric!Full(2 + 5 * cores, Metric!Cardinality(l)))
    BY <2>1, <2>4 DEF SizedStep
  <2> QED BY <2>2, <2>3, <2>4
<1>2. CASE Metric!WosPowerInit
  <2>1. ASSUME NEW rails \in SUBSET (0 .. MaxRails - 1), NEW m,
               Metric!Opened(m, Metric!Full(MaxRails + 2, Metric!Cardinality(rails)))
        PROVE  Sized'
    <3>1. MaxRails \in Nat
      BY SizesAssumption
    <3>2. Cardinality(rails) \in Nat /\ Cardinality(rails) <= MaxRails
      BY <3>1, Bounded
    <3>3. MaxRails + 2 \in Nat /\ Metric!Cardinality(rails) \in Nat
          /\ Metric!Cardinality(rails) <= MaxRails + 2
      BY <3>1, <3>2, SameCardinality
    <3> QED BY <2>1, <3>3, OpenedFull
  <2>2. \/ \E m : Metric!OpenFails(m)
        \/ \E rails \in SUBSET (0 .. MaxRails - 1) : \E m :
             Metric!Opened(m, Metric!Full(MaxRails + 2, Metric!Cardinality(rails)))
    <3> HIDE DEF Metric!OpenFails
    <3> QED BY <1>2 DEF Metric!WosPowerInit
  <2>3. CASE \E m : Metric!OpenFails(m)
    BY <2>3, SameSize
  <2> QED BY <2>1, <2>2, <2>3 DEF SizedStep
<1>3. CASE Metric!WosThermalInit
  <2>0. KnownZones \in Nat
    BY SizesAssumption
  <2>1. ASSUME NEW f \in Metric!ZoneMaps, NEW used \in {KnownZones,
               Metric!Cardinality(Named(f))}, NEW m,
               ~(Metric!Cardinality(Named(f)) > KnownZones),
               Metric!Opened(m, Metric!Full(2 * KnownZones, 2 * used))
        PROVE  Sized'
    <3>1. Metric!Cardinality(Named(f)) \in Nat
      BY KnownCount
    <3>2. used \in Nat /\ used <= KnownZones
      BY <2>0, <2>1, <3>1
    <3>3. 2 * KnownZones \in Nat /\ 2 * used \in Nat /\ 2 * used <= 2 * KnownZones
      BY <2>0, <3>2
    <3> QED BY <2>1, <3>3, OpenedFull
  <2>2. \/ \E m : Metric!OpenFails(m)
        \/ Metric!PastEnd("metrics")
        \/ \E f \in Metric!ZoneMaps : \E used \in {KnownZones,
          Metric!Cardinality(Named(f))} : \E m :
             /\ ~(Metric!Cardinality(Named(f)) > KnownZones)
             /\ Metric!Opened(m, Metric!Full(2 * KnownZones, 2 * used))
    <3> HIDE DEF Metric!OpenFails, Metric!PastEnd
    <3> QED BY <1>3 DEF Metric!WosThermalInit, Named
  <2>3. CASE (\E m : Metric!OpenFails(m)) \/ Metric!PastEnd("metrics")
    BY <2>3, SameSize
  <2> QED BY <2>1, <2>2, <2>3 DEF SizedStep
<1>4. CASE Metric!LinuxCpuBatch \/ Metric!WosPowerBatch \/ Metric!WosThermalBatch \/ Metric!Start
  <2>1. size' = size
    BY <1>4 DEF Metric!LinuxCpuBatch, Metric!WosPowerBatch, Metric!WosThermalBatch, Metric!Start
  <2> QED BY <2>1, SameSize
<1>5. CASE Metric!Deinit
  BY <1>5, SameSize DEF Metric!Deinit
<1> QED BY <1>1, <1>2, <1>3, <1>4, <1>5 DEF Metric!Next

-----------------------------------------------------------------------------
Typed ==
  /\ lib \in Small \cup Catalogued \cup {"linux_thermal"}
  /\ isOpen \in BOOLEAN /\ answer \in Answers

MemoryInv ==
  /\ CpuInv /\ PowerInv /\ PdhInv /\ DspInv /\ IoctlInv /\ CvInv
  /\ ThermalInv /\ MetricInv

(* The inductive invariant: what each library owns in each of its states,   *)
(* its sizes, and how its tables relate.                                    *)
ProvidersInv == Typed /\ Sized /\ ThermalTypes /\ MemoryInv /\ ListInv

(* A closed library satisfies the invariant.                                *)
LEMMA SessionBegins ==
  ASSUME isOpen = FALSE, mem = NoMemory, size = NoSize, answer = <<"none", "none">>,
         Metric!CatalogueInit, len = [d \in Domain |-> 0], discovered = {},
         lib \in Small \cup Catalogued \cup {"linux_thermal"}
  PROVE  ProvidersInv
<1>1. mem = Owned({}) /\ Owned({}) = Memory({}, {}, {}, {}, {})
  BY DEF NoMemory, Owned, Memory
<1>2. OwnedOpen({}) /\ \A R : OwnedOpen(R)
  BY <1>1 DEF OwnedOpen
<1>3. \A D, T : Dangling(mem, {}, D, T)
  <2>1. \A D, T : {} \subseteq {} /\ {} \ D \subseteq {} /\ {} \subseteq T
    OBVIOUS
  <2> QED BY <1>1, <2>1 DEF Dangling
<1>4. CpuInv /\ IoctlInv
  BY <1>2 DEF CpuInv, IoctlInv
<1>5. PowerInv
  BY <1>3 DEF PowerInv
<1>6. PdhInv
  BY <1>3 DEF PdhInv
<1>7. DspInv
  <2>1. Dangling(mem, {}, {"symbols"}, {}) /\ {} # DspThings /\ ~isOpen
    BY <1>3 DEF DspThings
  <2> QED BY <1>2, <2>1 DEF DspInv
<1>8. CvInv
  BY <1>1, <1>2 DEF CvInv
<1>9. ThermalTypes /\ ThermalInv
  <2>1. 0 \in 0 .. MaxNames
    BY EntryAssumption
  <2>2. ThermalTypes
    BY <2>1 DEF ThermalTypes
  <2> QED BY <1>1, <2>2, NothingHeld DEF ThermalInv
<1>10. MetricInv
  BY <1>1, <1>2 DEF MetricInv
<1>11. ListInv
  <2>1. listed = {} /\ sent = {} /\ DOMAIN metricsOf = {} /\ Metric!All(metricsOf) = {}
    BY DEF Metric!CatalogueInit, Metric!Nothing, Metric!All, Metric!Range
  <2> QED BY <2>1 DEF ListInv, Metric!Known
<1>12. Sized
  BY NoSizeIs DEF Sized, NoSize
<1>13. Typed
  BY DEF Typed, Answers
<1> QED BY <1>4, <1>5, <1>6, <1>7, <1>8, <1>9, <1>10, <1>11, <1>12, <1>13
        DEF ProvidersInv, MemoryInv

(* It holds of every library at first.                                      *)
LEMMA Begins == ProvidersInit => ProvidersInv
<1> SUFFICES ASSUME ProvidersInit PROVE ProvidersInv
  OBVIOUS
<1> USE DEF ProvidersInit, Small, Catalogued
<1>1. CASE Init
  BY <1>1, SessionBegins DEF Init, SessionInit
<1>2. CASE Cpu!Init
  <2>1. len = [d \in Domain |-> 0] /\ discovered = {}
    BY <1>2 DEF Init, Cpu!Init
  <2> QED BY <1>2, <2>1, SessionBegins DEF Cpu!Init, Cpu!SessionInit, Cpu!NoMemory, Cpu!NoSize,
          NoMemory, NoSize
<1>3. CASE Power!Init
  <2>1. len = [d \in Domain |-> 0] /\ discovered = {}
    BY <1>3 DEF Init, Power!Init
  <2> QED BY <1>3, <2>1, SessionBegins
          DEF Power!Init, Power!SessionInit, Power!NoMemory, Power!NoSize, NoMemory, NoSize
<1>4. CASE Pdh!Init
  <2>1. len = [d \in Domain |-> 0] /\ discovered = {}
    BY <1>4 DEF Init, Pdh!Init
  <2> QED BY <1>4, <2>1, SessionBegins
          DEF Pdh!Init, Pdh!SessionInit, Pdh!NoMemory, Pdh!NoSize, NoMemory, NoSize
<1>5. CASE Dsp!Init
  <2>1. len = [d \in Domain |-> 0] /\ discovered = {}
    BY <1>5 DEF Init, Dsp!Init
  <2> QED BY <1>5, <2>1, SessionBegins
          DEF Dsp!Init, Dsp!SessionInit, Dsp!NoMemory, Dsp!NoSize, NoMemory, NoSize
<1>6. CASE Ioctl!Init
  <2>1. len = [d \in Domain |-> 0] /\ discovered = {}
    BY <1>6 DEF Init, Ioctl!Init
  <2> QED BY <1>6, <2>1, SessionBegins
          DEF Ioctl!Init, Ioctl!SessionInit, Ioctl!NoMemory, Ioctl!NoSize, NoMemory, NoSize
<1>7. CASE Cv!Init
  <2>1. len = [d \in Domain |-> 0] /\ discovered = {}
    BY <1>7 DEF Init, Cv!Init
  <2> QED BY <1>7, <2>1, SessionBegins
          DEF Cv!Init, Cv!SessionInit, Cv!NoMemory, Cv!NoSize, NoMemory, NoSize
<1>8. CASE Metric!Init
  <2>1. len = [d \in Domain |-> 0] /\ discovered = {}
    BY <1>8 DEF Init, Metric!Init
  <2> QED BY <1>8, <2>1, SessionBegins
          DEF Metric!Init, Metric!SessionInit, Metric!NoMemory, Metric!NoSize, NoMemory, NoSize
<1> QED BY <1>1, <1>2, <1>3, <1>4, <1>5, <1>6, <1>7, <1>8

(* The invariants of the libraries that this one is not.                    *)
LEMMA Elsewhere ==
  ASSUME UNCHANGED lib
  PROVE  /\ lib \notin {"cpu_ntquery", "cpu_pdh"} => CpuInv'
         /\ lib # "power_telemetry" => PowerInv'
         /\ lib \notin {"passive_cooling", "etw_cpu"} => PdhInv'
         /\ lib \notin {"dsp_linux", "dsp_windows"} => DspInv'
         /\ lib # "ioctl" => IoctlInv'
         /\ lib \notin {"cv_linux", "cv_windows"} => CvInv'
         /\ lib # "linux_thermal" => ThermalInv'
         /\ lib \notin Catalogued => MetricInv'
BY DEF CpuInv, PowerInv, PdhInv, DspInv, IoctlInv, CvInv, ThermalInv, MetricInv, Catalogued

(* What the libraries without a catalogue leave alone.                      *)
LEMMA StepFrom ==
  ASSUME ProvidersInv, UNCHANGED <<thermal, tables>>, lib \notin Catalogued,
         TypedStep, SizedStep, MemoryInv'
  PROVE  ProvidersInv'
<1>1. Typed'
  BY DEF ProvidersInv, Typed, TypedStep
<1>2. Sized'
  BY DEF ProvidersInv, SizedStep
<1>3. ThermalTypes'
  BY DEF ProvidersInv, ThermalTypes, thermal
<1>4. ListInv'
  BY DEF ProvidersInv, ListInv, tables, Catalogued, TypedStep
<1> QED BY <1>1, <1>2, <1>3, <1>4 DEF ProvidersInv

(* Every step of every library without a catalogue keeps it.                *)
LEMMA LibraryKeeps == ProvidersInv /\ Sound /\ LibraryNext /\ UNCHANGED tables => ProvidersInv'
<1> SUFFICES ASSUME ProvidersInv, Sound, LibraryNext, UNCHANGED tables PROVE ProvidersInv'
  OBVIOUS
<1> USE DEF Catalogued
<1>1. CASE lib = "linux_thermal" /\ Next
  <2>1. TypedStep /\ UNCHANGED lib
    BY <1>1, ThermalTyped DEF TypedStep
  <2>2. SizedStep
    BY <1>1, ThermalSized
  <2>3. ThermalInv'
    BY <1>1, ThermalOwns DEF ProvidersInv, MemoryInv
  <2>4. MemoryInv'
    BY <1>1, <2>1, <2>3, Elsewhere DEF MemoryInv
  <2>5. Typed'
    BY <2>1 DEF ProvidersInv, Typed, TypedStep
  <2>6. Sized' /\ ThermalTypes'
    BY <1>1, <2>1, <2>2, <2>3 DEF ProvidersInv, SizedStep, ThermalInv
  <2>7. ListInv'
    BY <1>1, <2>1 DEF ProvidersInv, ListInv, tables
  <2> QED BY <2>4, <2>5, <2>6, <2>7 DEF ProvidersInv
<1>2. CASE UNCHANGED <<thermal, tables>> /\ lib \in {"cpu_ntquery", "cpu_pdh"} /\ Cpu!Next
  <2>1. TypedStep /\ UNCHANGED lib
    BY <1>2, CpuTyped DEF TypedStep
  <2>2. SizedStep
    BY <1>2, CpuSized
  <2>3. CpuInv'
    BY <1>2, CpuOwns DEF ProvidersInv, MemoryInv
  <2>4. MemoryInv'
    BY <1>2, <2>1, <2>3, Elsewhere DEF MemoryInv
  <2> QED BY <1>2, <2>1, <2>2, <2>4, StepFrom
<1>3. CASE UNCHANGED <<thermal, tables>> /\ lib \in {"power_telemetry"} /\ Power!Next
  <2>1. TypedStep /\ UNCHANGED lib
    BY <1>3, PowerTyped DEF TypedStep
  <2>2. SizedStep
    BY <1>3, PowerSized
  <2>3. PowerInv'
    BY <1>3, PowerOwns DEF ProvidersInv, MemoryInv
  <2>4. MemoryInv'
    BY <1>3, <2>1, <2>3, Elsewhere DEF MemoryInv
  <2> QED BY <1>3, <2>1, <2>2, <2>4, StepFrom
<1>4. CASE UNCHANGED <<thermal, tables>> /\ lib \in {"passive_cooling", "etw_cpu"} /\ Pdh!Next
  <2>1. TypedStep /\ UNCHANGED lib
    BY <1>4, PdhTyped DEF TypedStep
  <2>2. SizedStep
    BY <1>4, PdhSized
  <2>3. PdhInv'
    BY <1>4, CoolingOwns, EtwCpuOwns DEF ProvidersInv, MemoryInv
  <2>4. MemoryInv'
    BY <1>4, <2>1, <2>3, Elsewhere DEF MemoryInv
  <2> QED BY <1>4, <2>1, <2>2, <2>4, StepFrom
<1>5. CASE UNCHANGED <<thermal, tables>> /\ lib \in {"dsp_linux", "dsp_windows"} /\ Dsp!Next
  <2>1. TypedStep /\ UNCHANGED lib
    BY <1>5, DspTyped DEF TypedStep
  <2>2. SizedStep
    BY <1>5, DspSized
  <2>3. DspInv'
    BY <1>5, DspLinuxOwns, DspWindowsOwns DEF ProvidersInv, MemoryInv
  <2>4. MemoryInv'
    BY <1>5, <2>1, <2>3, Elsewhere DEF MemoryInv
  <2> QED BY <1>5, <2>1, <2>2, <2>4, StepFrom
<1>6. CASE UNCHANGED <<thermal, tables>> /\ lib \in {"ioctl"} /\ Ioctl!Next
  <2>1. TypedStep /\ UNCHANGED lib
    BY <1>6, IoctlTyped DEF TypedStep
  <2>2. SizedStep
    BY <1>6, IoctlSized
  <2>3. IoctlInv'
    BY <1>6, IoctlOwns DEF ProvidersInv, MemoryInv
  <2>4. MemoryInv'
    BY <1>6, <2>1, <2>3, Elsewhere DEF MemoryInv
  <2> QED BY <1>6, <2>1, <2>2, <2>4, StepFrom
<1>7. CASE UNCHANGED <<thermal, tables>> /\ lib \in {"cv_linux", "cv_windows"} /\ Cv!Next
  <2>1. TypedStep /\ UNCHANGED lib
    BY <1>7, CvTyped DEF TypedStep
  <2>2. SizedStep
    BY <1>7, CvSized
  <2>3. CvInv'
    BY <1>7, CvLinuxOwns, CvWindowsOwns DEF ProvidersInv, MemoryInv
  <2>4. MemoryInv'
    BY <1>7, <2>1, <2>3, Elsewhere DEF MemoryInv
  <2> QED BY <1>7, <2>1, <2>2, <2>4, StepFrom
<1> QED BY <1>1, <1>2, <1>3, <1>4, <1>5, <1>6, <1>7 DEF LibraryNext

(* So does every step of one with a catalogue.                              *)
LEMMA MetricKeeps ==
  ProvidersInv /\ Sound /\ UNCHANGED thermal /\ lib \in Catalogued /\ Metric!Next => ProvidersInv'
<1> SUFFICES ASSUME ProvidersInv, Sound, UNCHANGED thermal, lib \in Catalogued, Metric!Next
             PROVE  ProvidersInv'
  OBVIOUS
<1> USE DEF Catalogued
<1>1. TypedStep /\ UNCHANGED lib
  BY MetricTyped DEF TypedStep
<1>2. SizedStep
  BY MetricSized
<1>3. MetricInv'
  BY LinuxCpuOwns, WosPowerOwns, WosThermalOwns DEF ProvidersInv, MemoryInv
<1>4. MemoryInv'
  BY <1>1, <1>3, Elsewhere DEF MemoryInv
<1>5. ListInv'
  BY LinuxCpuLists, WosPowerLists, WosThermalLists DEF ProvidersInv
<1>6. Typed'
  BY <1>1 DEF ProvidersInv, Typed, TypedStep
<1>7. Sized' /\ ThermalTypes'
  BY <1>2 DEF ProvidersInv, SizedStep, ThermalTypes, thermal
<1> QED BY <1>4, <1>5, <1>6, <1>7 DEF ProvidersInv

(* So does every step.                                                      *)
LEMMA Keeps == ProvidersInv /\ [ProvidersNext]_<<provider, thermal, tables>> => ProvidersInv'
<1> SUFFICES ASSUME ProvidersInv, [ProvidersNext]_<<provider, thermal, tables>>
             PROVE  ProvidersInv'
  OBVIOUS
<1>1. CASE Sound /\ LibraryNext /\ UNCHANGED tables
  BY <1>1, LibraryKeeps
<1>3. CASE Sound /\ UNCHANGED thermal /\ lib \in Catalogued /\ Metric!Next
  BY <1>3, MetricKeeps
<1>2. CASE UNCHANGED <<provider, thermal, tables>>
  <2>1. UNCHANGED <<lib, isOpen, mem, size, answer, len, discovered, listed, metricsOf, sent>>
    BY <1>2 DEF provider, session, thermal, tables
  <2>2. Typed' /\ Sized' /\ ThermalTypes'
    BY <2>1 DEF ProvidersInv, Typed, Sized, ThermalTypes
  <2>3. CpuInv' /\ IoctlInv' /\ DspInv' /\ CvInv' /\ MetricInv'
    BY <2>1 DEF ProvidersInv, MemoryInv, CpuInv, IoctlInv, DspInv, CvInv, MetricInv, OwnedOpen
  <2>4. PowerInv' /\ PdhInv'
    BY <2>1 DEF ProvidersInv, MemoryInv, PowerInv, PdhInv, Dangling, MayMisfree
  <2>5. ThermalInv'
    BY <2>1 DEF ProvidersInv, MemoryInv, ThermalInv, ThermalTypes, Held
  <2>6. ListInv'
    BY <2>1 DEF ProvidersInv, ListInv
  <2> QED BY <2>2, <2>3, <2>4, <2>5, <2>6 DEF ProvidersInv, MemoryInv
<1> QED BY <1>1, <1>2, <1>3 DEF ProvidersNext, Ended

(* The libraries whose memory is exactly what they own.                     *)
Plain == {"cpu_ntquery", "cpu_pdh", "ioctl", "dsp_linux", "cv_windows", "linux_cpu_metrics",
          "wos_power_metrics", "linux_thermal"}
LEMMA PlainIs ==
  ASSUME ProvidersInv, lib \in Plain
  PROVE  mem.lost = {} /\ mem.misfreed = {} /\ mem.overrun = {}
<1>1. \A R : Owned(R).lost = {} /\ Owned(R).misfreed = {} /\ Owned(R).overrun = {}
  BY FieldsAre DEF Owned
<1>2. \E R : mem = Owned(R)
  BY DEF Plain, ProvidersInv, MemoryInv, CpuInv, IoctlInv, DspInv, CvInv, MetricInv, ThermalInv,
         OwnedOpen
<1> QED BY <1>1, <1>2

(* What was given back wrongly.                                             *)
LEMMA MisfreedAre == ProvidersInv => mem.misfreed \subseteq MayMisfree
<1> SUFFICES ASSUME ProvidersInv PROVE mem.misfreed \subseteq MayMisfree
  OBVIOUS
<1> USE DEF ProvidersInv, MemoryInv
<1>1. CASE lib \in Plain
  BY <1>1, PlainIs
<1>2. CASE lib \in {"power_telemetry", "passive_cooling", "etw_cpu"}
  <2>1. mem.misfreed = {} \/ \E R, D : Dangling(mem, R, D, MayMisfree)
    BY <1>2, FieldsAre DEF PowerInv, PdhInv
  <2> QED BY <2>1, FieldsDangling
<1>3. CASE lib = "dsp_windows"
  BY <1>3, FieldsDangling DEF DspInv
<1>4. CASE lib = "cv_linux"
  BY <1>4, FieldsAre DEF CvInv
<1>5. CASE lib = "wos_thermal_metrics"
  BY <1>5, FieldsAre DEF MetricInv
<1> QED BY <1>1, <1>2, <1>3, <1>4, <1>5 DEF Typed, Small, Catalogued, Plain

(* What was used past its end.                                              *)
LEMMA OverrunsAre == ProvidersInv => mem.overrun \subseteq MayOverrun
<1> SUFFICES ASSUME ProvidersInv PROVE mem.overrun \subseteq MayOverrun
  OBVIOUS
<1> USE DEF ProvidersInv, MemoryInv
<1>1. CASE lib \in Plain
  BY <1>1, PlainIs
<1>2. CASE lib = "power_telemetry"
  <2>1. mem.overrun = {} \/ (isOpen /\ mem.overrun = {"counters"})
    BY <1>2, FieldsAre, FieldsDangling DEF PowerInv
  <2> QED BY <1>2, <2>1 DEF MayOverrun
<1>3. CASE lib \in {"passive_cooling", "etw_cpu", "dsp_windows"}
  BY <1>3, FieldsDangling DEF PdhInv, DspInv
<1>4. CASE lib = "cv_linux"
  BY <1>4, FieldsAre DEF CvInv
<1>5. CASE lib = "wos_thermal_metrics"
  <2>1. PICK o \in {{}, {"metrics"}} :
          mem = Memory({}, {}, {}, {}, o) /\ (o # {} => MaxZones > KnownZones /\ ~isOpen)
    BY <1>5 DEF MetricInv
  <2>2. mem.overrun = o
    BY <2>1, FieldsAre
  <2>3. o = {} \/ MayOverrun = {"metrics"}
    BY <1>5, <2>1 DEF MayOverrun
  <2> QED BY <2>1, <2>2, <2>3
<1> QED BY <1>1, <1>2, <1>3, <1>4, <1>5 DEF Typed, Small, Catalogued, Plain

(* Only a Linux condition variable loses what it holds, as its create fails.*)
LEMMA LostIs == ProvidersInv => mem.lost \subseteq MayLose
<1> SUFFICES ASSUME ProvidersInv PROVE mem.lost \subseteq MayLose
  OBVIOUS
<1> USE DEF ProvidersInv, MemoryInv
<1>1. CASE lib \in Plain
  BY <1>1, PlainIs
<1>2. CASE lib \in {"power_telemetry", "passive_cooling", "etw_cpu", "dsp_windows"}
  BY <1>2, FieldsDangling, FieldsAre DEF PowerInv, PdhInv, DspInv
<1>3. CASE lib = "wos_thermal_metrics"
  BY <1>3, FieldsAre DEF MetricInv
<1>4. CASE lib = "cv_linux"
  <2>1. PICK l \in SUBSET Cv!Pair :
          /\ mem = LET R == IF isOpen THEN Cv!Pair ELSE {} IN Memory(R, R, l, {}, {})
          /\ l # {} => answer = Failing
    BY <1>4 DEF CvInv
  <2>2. mem.lost = l
    BY <2>1, FieldsAre
  <2> QED BY <1>4, <2>1, <2>2 DEF MayLose
<1> QED BY <1>1, <1>2, <1>3, <1>4 DEF Typed, Small, Catalogued, Plain

(* What a closed library holds.                                             *)
LEMMA HeldIs == ProvidersInv /\ ~isOpen => mem.held \subseteq MayHold
<1> SUFFICES ASSUME ProvidersInv, ~isOpen PROVE mem.held \subseteq MayHold
  OBVIOUS
<1> USE DEF ProvidersInv, MemoryInv
<1>0. \A R : Owned(R).held = R
  BY FieldsAre DEF Owned
<1>1. CASE lib \in Plain \ {"wos_power_metrics"}
  BY <1>0, <1>1
  DEF Plain, CpuInv, IoctlInv, DspInv, CvInv, MetricInv, ThermalInv, OwnedOpen
<1>2. CASE lib \in {"power_telemetry", "passive_cooling", "etw_cpu"}
  BY <1>2, FieldsDangling DEF PowerInv, PdhInv
<1>3. CASE lib = "dsp_windows"
  <2>1. PICK R \in {{}, {"library", "symbols"}, DspThings} :
          /\ Dangling(mem, R, {"symbols"}, {}) /\ (isOpen <=> R = DspThings)
          /\ ~isOpen /\ answer[1] = "close" => R = {}
    BY <1>3 DEF DspInv
  <2>2. R \in {{}, {"library", "symbols"}} /\ mem.held = R
    BY <2>1, FieldsDangling
  <2>3. answer[1] # "close" => MayHold = {"library", "symbols"}
    BY <1>3 DEF MayHold
  <2> QED BY <2>1, <2>2, <2>3
<1>4. CASE lib = "cv_linux"
  BY <1>4, FieldsAre DEF CvInv
<1>5. CASE lib = "wos_power_metrics"
  <2>1. PICK R \in {{}, Metric!Table} : mem = Owned(R) /\ (answer # Failing => R = {})
    BY <1>5 DEF MetricInv, Failing
  <2>2. answer = Failing => MayHold = Metric!Table
    BY <1>5 DEF MayHold
  <2> QED BY <1>0, <2>1, <2>2
<1>6. CASE lib = "wos_thermal_metrics"
  BY <1>6, FieldsAre DEF MetricInv
<1> QED BY <1>1, <1>2, <1>3, <1>4, <1>5, <1>6 DEF Typed, Small, Catalogued, Plain

(* So nothing is amiss but what is known.                                   *)
LEMMA NothingIsAmiss == ProvidersInv => NothingAmiss
BY HeldIs, LostIs, MisfreedAre, OverrunsAre DEF NothingAmiss

(* What was sent without being listed, and the ids.                         *)
LEMMA ListedAndSent ==
  ASSUME ProvidersInv
  PROVE  /\ lib = "linux_cpu_metrics" => sent \ listed \subseteq Metric!Limits(DOMAIN metricsOf)
         /\ lib = "wos_thermal_metrics" => sent \ listed \subseteq {0}
         /\ lib \notin {"linux_cpu_metrics", "wos_thermal_metrics"} => sent \ listed = {}
         /\ listed \subseteq Ids /\ sent \subseteq Ids
<1> USE DEF ProvidersInv, ListInv, Catalogued
<1>1. CASE lib = "linux_cpu_metrics"
  <2>1. \A c \in DOMAIN metricsOf : Metric!Limit(c) \in Ids
    BY <1>1, CoreIds
  <2>2. Metric!Limits(DOMAIN metricsOf) \subseteq Ids
    BY <2>1 DEF Metric!Limits
  <2> QED BY <1>1, <2>2
<1>2. CASE lib = "wos_thermal_metrics"
  <2>1. 0 \in Ids
    BY LastIdIs DEF Ids
  <2> QED BY <1>2, <2>1
<1>3. CASE lib \notin {"linux_cpu_metrics", "wos_thermal_metrics"}
  BY <1>3
<1> QED BY <1>1, <1>2, <1>3

(* So a batch is listed but for what is known.                              *)
LEMMA SendsListed == ProvidersInv => SendsWhatItLists
<1> SUFFICES ASSUME ProvidersInv PROVE SendsWhatItLists
  OBVIOUS
<1>1. CASE lib = "linux_cpu_metrics"
  BY <1>1, ListedAndSent DEF SendsWhatItLists
<1>2. CASE lib = "wos_thermal_metrics"
  BY <1>2, ListedAndSent DEF SendsWhatItLists
<1>3. CASE lib \notin {"linux_cpu_metrics", "wos_thermal_metrics"}
  BY <1>3, ListedAndSent DEF SendsWhatItLists
<1> QED BY <1>1, <1>2, <1>3

(* The types follow.                                                        *)
LEMMA HasTypes == ProvidersInv => TypeOK
<1> SUFFICES ASSUME ProvidersInv PROVE TypeOK
  OBVIOUS
<1>1. lib \in Small \cup Catalogued \cup {"linux_thermal"} /\ isOpen \in BOOLEAN
      /\ answer \in Answers
  BY DEF ProvidersInv, Typed
<1>2. size.used \in 0 .. size.room
  BY DEF ProvidersInv, Sized
<1>4. len \in [Domain -> 0 .. MaxNames] /\ discovered \subseteq Side
  BY DEF ProvidersInv, ThermalTypes
<1>5. listed \cup sent \subseteq 0 .. LastId
  BY ListedAndSent DEF Ids
<1> QED BY <1>1, <1>2, <1>4, <1>5 DEF TypeOK

(* Two rows of the zones that one type matches are those of "sdram" and of  *)
(* "sdr"; of the devices, one type matches one row.                         *)
LEMMA TempRows ==
  ASSUME NEW i \in DOMAIN Prefixes("temp"), NEW j \in DOMAIN Prefixes("temp"),
         \/ Prefixes("temp")[i].prefix = Prefixes("temp")[j].prefix
         \/ {Prefixes("temp")[i].prefix, Prefixes("temp")[j].prefix} \subseteq {"sdr", "sdram"}
  PROVE  i = j \/ (i \in {5, 12} /\ j \in {5, 12})
<1>1. i \in 1 .. 17 /\ j \in 1 .. 17
  BY DEF Prefixes
<1>2. CASE Prefixes("temp")[i].prefix = Prefixes("temp")[j].prefix
  BY <1>1, <1>2, SMTT(60) DEF Prefixes, Row
<1>3. \A k \in 1 .. 17 : Prefixes("temp")[k].prefix \in {"sdr", "sdram"} => k \in {5, 12}
  BY SMTT(60) DEF Prefixes, Row
<1> QED BY <1>1, <1>2, <1>3

(* Of the devices, one type matches one row.                                *)
LEMMA CoolRows ==
  ASSUME NEW i \in DOMAIN Prefixes("cool"), NEW j \in DOMAIN Prefixes("cool"),
         \/ Prefixes("cool")[i].prefix = Prefixes("cool")[j].prefix
         \/ {Prefixes("cool")[i].prefix, Prefixes("cool")[j].prefix} \subseteq {"sdr", "sdram"}
  PROVE  i = j
<1>1. i \in 1 .. 16 /\ j \in 1 .. 16
  BY DEF Prefixes
<1>2. CASE Prefixes("cool")[i].prefix = Prefixes("cool")[j].prefix
  BY <1>1, <1>2, SMTT(60) DEF Prefixes, Row
<1>3. Prefixes("cool")[i].prefix \notin {"sdr", "sdram"}
  BY <1>1, SMTT(60) DEF Prefixes, Row
<1> QED BY <1>2, <1>3

(* "sdram" is longer than "sdr".                                            *)
LEMMA Longer == Prefixes("temp")[12].len <= Prefixes("temp")[5].len
                /\ ~(Prefixes("temp")[5].len <= Prefixes("temp")[12].len)
BY DEF Prefixes, Row

(* The first of the prefixes that a type begins with is the longest.        *)
LEMMA FirstIsLongest ==
  ASSUME NEW e \in Entry, Matches(e) # {}, ~TypeOf[e].level
  PROVE  Longest(e) = Classify(e)
<1> DEFINE table == Prefixes(SideOf[e])
<1>1. SideOf[e] \in {"temp", "cool"}
  BY EntryAssumption DEF Side
<1>2. \A i, j \in Matches(e) : i = j \/ (SideOf[e] = "temp" /\ i \in {5, 12} /\ j \in {5, 12})
  <2>1. ASSUME NEW i \in Matches(e), NEW j \in Matches(e)
        PROVE  i = j \/ (SideOf[e] = "temp" /\ i \in {5, 12} /\ j \in {5, 12})
    <3>1. /\ i \in DOMAIN table /\ j \in DOMAIN table
          /\ \/ table[i].prefix = table[j].prefix
             \/ {table[i].prefix, table[j].prefix} \subseteq {"sdr", "sdram"}
      BY PrefixAssumption DEF Matches
    <3> QED BY <1>1, <3>1, TempRows, CoolRows
  <2> QED BY <2>1
<1>3. \A i \in Matches(e) : i \in Int /\ table[i].len <= table[i].len
  BY <1>1 DEF Matches, Prefixes, Row
<1> DEFINE Firsts == {i \in Matches(e) : \A j \in Matches(e) : i <= j}
           Longests == {i \in Matches(e) : \A j \in Matches(e) : table[j].len <= table[i].len}
<1>4. \E i : Firsts = {i} /\ Longests = {i}
  <2>1. CASE \A i, j \in Matches(e) : i = j
    BY <1>3, <2>1
  <2>2. CASE SideOf[e] = "temp" /\ Matches(e) = {5, 12}
    <3>1. Firsts = {5} 
      BY <2>2
    <3>2. Longests = {5}
      BY <2>2, <1>3, Longer
    <3> QED BY <3>1, <3>2
  <2>3. ASSUME NEW i \in Matches(e), NEW j \in Matches(e), i # j
        PROVE  SideOf[e] = "temp" /\ Matches(e) = {5, 12}
    <3>1. SideOf[e] = "temp" /\ i \in {5, 12} /\ j \in {5, 12}
      BY <1>2, <2>3
    <3>2. \A k \in Matches(e) : k \in {5, 12}
      BY <1>2, <3>1
    <3>3. 5 \in Matches(e) /\ 12 \in Matches(e)
      BY <2>3, <3>1
    <3> QED BY <3>1, <3>2, <3>3
  <2> QED BY <2>1, <2>2, <2>3
<1>5. PICK i : Firsts = {i} /\ Longests = {i}
  BY <1>4
<1>6. (CHOOSE k \in Matches(e) : \A j \in Matches(e) : k <= j) = i
  BY <1>5
<1>7. (CHOOSE k \in Matches(e) : \A j \in Matches(e) : table[j].len <= table[k].len) = i
  BY <1>5
<1>8. Classify(e) = table[i].index
  BY <1>6 DEF Classify
<1>9. Longest(e) = table[i].index
  BY <1>7 DEF Longest
<1> QED BY <1>8, <1>9

(* So every domain is that of the longest prefix.                           *)
LEMMA Filed == FiledByLongestPrefix
<1> SUFFICES ASSUME NEW d \in Domain
             PROVE  \E e \in Entry : /\ Matches(e) # {} /\ ~TypeOf[e].level
                                     /\ <<SideOf[e], Longest(e)>> = d
  BY DEF FiledByLongestPrefix
<1>1. PICK e \in Entry : Classify(e) # Nowhere /\ d = Home(e)
  BY DEF Domain
<1>2. Matches(e) # {} /\ ~TypeOf[e].level
  BY <1>1 DEF Classify
<1> QED BY <1>1, <1>2, FirstIsLongest DEF Home
-----------------------------------------------------------------------------
(* The inductive invariant: what each library owns in each of its states is *)
(* decided by whether it is open.                                           *)
THEOREM ProvidersInvariant == Spec => []ProvidersInv
BY Begins, Keeps, PTL DEF Spec

(* Sizes, answers, counts and metric ids stay in their ranges.              *)
THEOREM ProvidersTypeOK == Spec => []TypeOK
BY ProvidersInvariant, HasTypes, PTL

(* A closed library owns nothing, loses nothing and frees nothing twice,    *)
(* but for the known exceptions, whatever fails in whatever order.          *)
THEOREM ProvidersNothingAmiss == Spec => []NothingAmiss
BY ProvidersInvariant, NothingIsAmiss, PTL

(* A batch carries listed metrics only, but for the known exceptions.       *)
THEOREM ProvidersSendWhatTheyList == Spec => []SendsWhatItLists
BY ProvidersInvariant, SendsListed, PTL

(* A value node is opened in the domain of the longest prefix of its type.  *)
THEOREM ProvidersFileByLongestPrefix == Spec => []FiledByLongestPrefix
<1>1. FiledByLongestPrefix
  BY Filed
<1> QED BY <1>1, PTL
=============================================================================
