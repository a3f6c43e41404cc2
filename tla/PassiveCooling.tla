--------------------------- MODULE PassiveCooling ---------------------------
(***************************************************************************)
(* utils/wos/cpu-thermal-etw: two PDH queries of one design, one counter   *)
(* for each thermal zone (passive_cooling) or for each core and their      *)
(* total (cpu_*, that no backend calls).  The flag is set first, so that   *)
(* every failure cleans up; the query is closed without its pointer being  *)
(* cleared.                                                                *)
(***************************************************************************)
EXTENDS ProviderSession

CONSTANTS MaxZones,   (* MAX_NUM_OF_ZONES (bound)                           *)
          EtwCores    (* dwNumberOfProcessors                               *)

Init == lib \in {"passive_cooling", "etw_cpu"} /\ SessionInit

(* What a failing open does before it is given up, as sets of outcomes: no  *)
(* query, not all the lists, not all the counters.                          *)
Opening(lists) ==
  LET m == Take(mem, "query") IN {mem} \cup TakeSome(m, lists) \cup {TakeAll(m, lists)}

CoolingLists == {"list", "map", "values"}

(* The counters are removed while the map and the list are there.           *)
CoolingCleaned(m) == Release(Close(Release(m, {"list"}), {"query"}), {"map", "values"})

(* A second init is refused, and cleans up like any other that fails.       *)
CoolingInit ==
  /\ lib = "passive_cooling"
  /\ IF isOpen THEN Emptied(CoolingCleaned(mem)) /\ answer' = <<"open", "already">>
     ELSE \/ Failed(mem)
          \/ \E m \in Opening(CoolingLists) : Failed(CoolingCleaned(m))
          \/ \E zones \in 1 .. MaxZones :
               Opened(TakeAll(Take(mem, "query"), CoolingLists), [room |-> zones, used |-> zones])

(* Fills as much of the caller's list as there are zones, and tells the     *)
(* caller when that was less than all of it.                                *)
Filled(length) == IF size.used < length THEN size.used ELSE length
CoolingGetInfo ==
  /\ lib = "passive_cooling"
  /\ IF ~isOpen THEN Answer("use", "not_open")
     ELSE \/ Answer("use", "failed")
          \/ \E length \in 1 .. MaxZones + 1 :
               /\ mem' = IF Filled(length) <= size.room THEN mem
                         ELSE Overrun(mem, "values")
               /\ answer' = <<"use", "success">> /\ UNCHANGED <<lib, isOpen, size>>

CoolingCleanup ==
  /\ lib = "passive_cooling"
  /\ IF isOpen THEN \E a \in {"success", "failed"} : Closed(CoolingCleaned(mem), a)
     ELSE Answer("close", "success")

-----------------------------------------------------------------------------
CpuLists == {"util", "freq", "total_util", "total_freq"}

(* The counter of the total frequency is removed by the address of the list *)
(* that holds it, in place of the counter.                                  *)
CpuCleaned(m) ==
  [Close(Release(m, CpuLists), {"query"}) EXCEPT !.misfreed = @ \cup ({"total_freq"} \cap m.set)]

(* helperUpdateCores: a machine always has cores.                           *)
UpdatedCores == IF EtwCores = 0 THEN {} ELSE {EtwCores}

CpuInit ==
  /\ lib = "etw_cpu"
  /\ IF isOpen THEN Answer("open", "already")
     ELSE \/ \E m \in Opening(CpuLists) : Failed(CpuCleaned(m))
          \/ \E cores \in UpdatedCores :
               Opened(TakeAll(Take(mem, "query"), CpuLists), [room |-> cores, used |-> cores])

CpuGetNumCores == lib = "etw_cpu" /\ Answer("use", IF isOpen THEN "success" ELSE "not_open")

CpuGetInfo == lib = "etw_cpu" /\ Used

CpuCleanup ==
  /\ lib = "etw_cpu"
  /\ IF isOpen THEN \E a \in {"success", "failed"} : Closed(CpuCleaned(mem), a)
     ELSE Answer("close", "success")

Next == \/ CoolingInit \/ CoolingGetInfo \/ CoolingCleanup
        \/ CpuInit \/ CpuGetNumCores \/ CpuGetInfo \/ CpuCleanup
=============================================================================
