---------------------------- MODULE CpuTelemetry ----------------------------
(***************************************************************************)
(* wos-cpu/cpu-telemetry: two sources of one interface.  NtQuery keeps a   *)
(* function of a system library and owns nothing; Pdh owns a query, whose  *)
(* counters go with it.  Both take a second init for granted, and cap the  *)
(* number of cores they fill the caller's array with.                      *)
(***************************************************************************)
EXTENDS ProviderSession

CONSTANTS MachineCores, MaxCores   (* CPU_TELEMETRY_MAX_CORES (bound)       *)

Init == lib \in {"cpu_ntquery", "cpu_pdh"} /\ SessionInit

Cores_All == MachineCores
Cores == IF MachineCores > MaxCores THEN MaxCores ELSE MachineCores
Sized == [room |-> MaxCores, used |-> Cores]

NtQueryInit ==
  /\ lib = "cpu_ntquery"
  /\ IF isOpen THEN Answer("open", "success") ELSE Failed(mem) \/ Opened(mem, Sized)

(* The total counter has a second name to try; without it the query goes    *)
(* again.  A core whose counters are missing is only left out.              *)
PdhFail(m) == Release(m, {"query"})
PdhInit ==
  /\ lib = "cpu_pdh"
  /\ IF isOpen THEN Answer("open", "success")
     ELSE \/ Failed(mem)
          \/ Failed(PdhFail(Take(mem, "query")))
          \/ Opened(Take(mem, "query"), Sized)

Collect == Used

NtQueryDestroy == lib = "cpu_ntquery" /\ Closed(mem, "success")
PdhDestroy ==
  /\ lib = "cpu_pdh"
  /\ IF isOpen THEN Closed(Release(mem, {"query"}), "success") ELSE Answer("close", "success")

Next == NtQueryInit \/ PdhInit \/ Collect \/ NtQueryDestroy \/ PdhDestroy
=============================================================================
