----------------------------- MODULE Providers ------------------------------
(***************************************************************************)
(* The libraries under the backends, one at a time: each with the memory,  *)
(* handles and queries it owns, each opened, used and closed in whatever   *)
(* order its answers allow, with whatever failing that can.                *)
(*                                                                         *)
(* A behaviour ends when something is lost, given back wrongly or used past *)
(* its end: what the code does after that is undefined.  The memory that is *)
(* left is one that other behaviours go on from.                           *)
(***************************************************************************)
EXTENDS LinuxThermalLib

CONSTANTS MachineCores, MaxCores, MaxRails, SystemRail, MaxZones, EtwCores, MaxWaiters,
          KnownZones

(* Metric ids have 16 bits, of which 0xFFFF says that there is no metric.    *)
LastId == 65534

ASSUME SizesAssumption ==
  /\ {MachineCores, MaxCores, MaxRails, MaxZones, EtwCores, MaxWaiters, KnownZones} \subseteq Nat
  /\ SystemRail \in 1 .. MaxRails - 1
  /\ 1 + 5 * MaxCores <= LastId /\ MaxRails - 1 <= LastId /\ 2 * KnownZones - 1 <= LastId

VARIABLES listed, metricsOf, sent   (* see MetricCatalogue                    *)
tables == <<listed, metricsOf, sent>>

Cpu == INSTANCE CpuTelemetry
Power == INSTANCE PowerTelemetry
Pdh == INSTANCE PassiveCooling
Dsp == INSTANCE QcomDsp
Ioctl == INSTANCE WosIoctl
Cv == INSTANCE ConditionVariable
Metric == INSTANCE MetricCatalogue

Small == {"cpu_ntquery", "cpu_pdh", "power_telemetry", "passive_cooling", "etw_cpu",
          "dsp_linux", "dsp_windows", "ioctl", "cv_linux", "cv_windows"}
Catalogued == {"linux_cpu_metrics", "wos_power_metrics", "wos_thermal_metrics"}

ProvidersInit ==
  /\ Metric!CatalogueInit
  /\ \/ Init
     \/ /\ Cpu!Init \/ Power!Init \/ Pdh!Init \/ Dsp!Init \/ Ioctl!Init \/ Cv!Init \/ Metric!Init
        /\ len = [d \in Domain |-> 0] /\ discovered = {}

LibraryNext ==
  \/ lib = "linux_thermal" /\ Next
  \/ UNCHANGED thermal /\ lib \in {"cpu_ntquery", "cpu_pdh"} /\ Cpu!Next
  \/ UNCHANGED thermal /\ lib = "power_telemetry" /\ Power!Next
  \/ UNCHANGED thermal /\ lib \in {"passive_cooling", "etw_cpu"} /\ Pdh!Next
  \/ UNCHANGED thermal /\ lib \in {"dsp_linux", "dsp_windows"} /\ Dsp!Next
  \/ UNCHANGED thermal /\ lib = "ioctl" /\ Ioctl!Next
  \/ UNCHANGED thermal /\ lib \in {"cv_linux", "cv_windows"} /\ Cv!Next

Ended == ~Sound /\ UNCHANGED <<provider, thermal, tables>>

ProvidersNext ==
  \/ Sound /\ LibraryNext /\ UNCHANGED tables
  \/ Sound /\ UNCHANGED thermal /\ lib \in Catalogued /\ Metric!Next
  \/ Ended

Spec == ProvidersInit /\ [][ProvidersNext]_<<provider, thermal, tables>>

-----------------------------------------------------------------------------
Answers == {"none", "open", "use", "close"} \X {"none", "success", "failed", "already", "not_open"}

TypeOK ==
  /\ lib \in Small \cup Catalogued \cup {"linux_thermal"} /\ isOpen \in BOOLEAN
  /\ size.used \in 0 .. size.room /\ answer \in Answers
  /\ len \in [Domain -> 0 .. MaxNames] /\ discovered \subseteq Side
  /\ listed \cup sent \subseteq 0 .. LastId

(* A library that is closed owns nothing, whatever failed while it was      *)
(* opened, used or closed; no pointer is overwritten while it owns, and     *)
(* nothing is freed twice or used past its end.  Except that:               *)
(*  - the FastRPC driver stays loaded when the DSP could not be opened, and *)
(*    the tables of wos-power wait for the close that follows;              *)
(*  - the Linux condition variable loses what a failed create took;         *)
(*  - power-telemetry removes its first counter when its query is gone, and *)
(*    reads the counter of the rail SYSTEM whatever was asked;              *)
(*  - a PDH query that was closed is closed again by an open that fails;    *)
(*  - the total frequency of the cores is removed by a wrong address;       *)
(*  - the tables of wos-thermal are too short for two zones of one name.    *)
Failing == <<"open", "failed">>
MayHold ==
  CASE lib = "dsp_windows" /\ answer[1] # "close" -> {"library", "symbols"}
    [] lib = "wos_power_metrics" /\ answer = Failing -> Metric!Table
    [] OTHER -> {}
MayLose == IF lib = "cv_linux" /\ answer = Failing THEN Cv!Pair ELSE {}
MayMisfree ==
  CASE lib \in {"power_telemetry", "passive_cooling"} /\ answer = Failing -> {"query"}
    [] lib = "power_telemetry" /\ answer[1] = "close" -> {"first"}
    [] lib = "etw_cpu" /\ answer = Failing -> {"query", "total_freq"}
    [] lib = "etw_cpu" /\ answer[1] = "close" -> {"total_freq"}
    [] OTHER -> {}
MayOverrun ==
  CASE lib = "power_telemetry" /\ isOpen -> {"counters"}
    [] lib = "wos_thermal_metrics" /\ ~isOpen /\ MaxZones > KnownZones -> {"metrics"}
    [] OTHER -> {}
NothingAmiss ==
  /\ ~isOpen => mem.held \subseteq MayHold
  /\ mem.lost \subseteq MayLose /\ mem.misfreed \subseteq MayMisfree
  /\ mem.overrun \subseteq MayOverrun

(* A value node is opened in the domain of the longest prefix that its      *)
(* type matches: the tables list "sdram" before "sdr" for that.             *)
Longest(e) ==
  LET table == Prefixes(SideOf[e])
  IN table[CHOOSE i \in Matches(e) : \A j \in Matches(e) : table[j].len <= table[i].len].index
FiledByLongestPrefix ==
  lib = "linux_thermal" =>
    \A d \in Domain : \A i \in 1 .. MaxNames : File(d, i) \in mem.held =>
      \E e \in Entry : Matches(e) # {} /\ ~TypeOf[e].level /\ <<SideOf[e], Longest(e)>> = d

(* A batch carries only metrics that the backend listed, though the two are *)
(* decided in different code at different times.  Known exceptions: a limit *)
(* of a core that could not be read when qcom-linux-cpu was initialized,    *)
(* and the zeros that wos-thermal sends when no sample could be read, which *)
(* say metric 0.                                                            *)
SendsWhatItLists ==
  sent \ listed \subseteq
    CASE lib = "linux_cpu_metrics" -> Metric!Limits(DOMAIN metricsOf)
      [] lib = "wos_thermal_metrics" -> {0}
      [] OTHER -> {}
=============================================================================
