-------------------------- MODULE LinuxThermalLib ---------------------------
(***************************************************************************)
(* linux-thermal/linux_thermal_lib.c: the zones and cooling devices that   *)
(* /sys/class/thermal lists are counted by domain when the library is      *)
(* opened, and listed again, with a value node opened for each, when they  *)
(* are discovered.  What is listed may differ between the two, and each    *)
(* entry may fail to be read.                                              *)
(*                                                                         *)
(* A domain is a pair of a side and an index.  What the library holds is   *)
(* named <<side, index, part, slot>>.                                      *)
(***************************************************************************)
EXTENDS ProviderSession, Sequences

CONSTANTS
  Entry,      (* the entries /sys/class/thermal may list                    *)
  SideOf,     (* of an entry: "temp" for a zone, "cool" for a device        *)
  TypeOf,     (* of an entry: the table prefixes its type begins with, and  *)
              (* whether it is a current, level or voltage ("-bcl-",        *)
              (* "-ibat-", "vbat"): [prefixes |-> _, level |-> _]           *)
  MaxNames    (* LINUX_THERMAL_MAX_NAMES (bound)                            *)

Side == {"temp", "cool"}

ASSUME EntryAssumption ==
  /\ IsFiniteSet(Entry)
  /\ SideOf \in [Entry -> Side]
  /\ \A e \in Entry : TypeOf[e].level \in BOOLEAN
  /\ MaxNames \in Nat

(* Two of the prefixes that one type begins with are prefixes of each       *)
(* other: "sdr" of "sdram" is the only such pair of either table.           *)
ASSUME PrefixAssumption ==
  \A e \in Entry : \A p, q \in TypeOf[e].prefixes : p = q \/ {p, q} \subseteq {"sdr", "sdram"}

VARIABLES
  len,          (* of a domain: the entries counted for it                  *)
  discovered    (* the sides that were discovered                           *)

thermal == <<len, discovered>>

-----------------------------------------------------------------------------
(* The tables, in the order in which they are searched.                     *)
Row(p, l, i) == [prefix |-> p, len |-> l, index |-> i]
Prefixes(side) ==
  IF side = "temp"
  THEN << Row("cpu", 3, 0), Row("gpu", 3, 1), Row("nsp", 3, 2), Row("ddr", 3, 3),
          Row("sdram", 5, 3), Row("mdmss", 5, 4), Row("qmx", 3, 5), Row("video", 5, 6),
          Row("camera", 6, 7), Row("wireless", 8, 8), Row("usb", 3, 9), Row("sdr", 3, 10),
          Row("mmw", 3, 11), Row("pm", 2, 12), Row("sys", 3, 13), Row("battery", 7, 14),
          Row("socd", 4, 15) >>
  ELSE << Row("cpu", 3, 0), Row("pause-cpu", 9, 0), Row("idle-cpu", 8, 0), Row("ddr", 3, 1),
          Row("gpu", 3, 2), Row("kgsl", 4, 2), Row("cdsp", 4, 3), Row("display", 7, 4),
          Row("panel", 5, 4), Row("ufs", 3, 5), Row("battery", 7, 6), Row("modem", 5, 7),
          Row("pa_", 3, 8), Row("mmw", 3, 9), Row("dsds", 4, 10), Row("thermal-pause", 13, 11) >>

Matches(e) ==
  {i \in DOMAIN Prefixes(SideOf[e]) : Prefixes(SideOf[e])[i].prefix \in TypeOf[e].prefixes}
Nowhere == -1

(* The first prefix that matches decides.                                   *)
Classify_Last(e) ==
  IF TypeOf[e].level \/ Matches(e) = {} THEN Nowhere
  ELSE Prefixes(SideOf[e])[CHOOSE i \in Matches(e) : \A j \in Matches(e) : j <= i].index
Classify(e) ==
  IF TypeOf[e].level \/ Matches(e) = {} THEN Nowhere
  ELSE Prefixes(SideOf[e])[CHOOSE i \in Matches(e) : \A j \in Matches(e) : i <= j].index

Home(e) == <<SideOf[e], Classify(e)>>
Domain == {Home(e) : e \in {f \in Entry : Classify(f) # Nowhere}}

Metrics == {<<side, Nowhere, "metrics", 0>> : side \in Side}
Part(d, p) == <<d[1], d[2], p, 0>>
Parts(domains, parts) == {Part(d, p) : d \in domains, p \in parts}
File(d, i) == <<d[1], d[2], "file", i>>
Counted(seen, d) == Cardinality({e \in seen : Home(e) = d})
AtMost(n, bound) == IF n < bound THEN n ELSE bound

-----------------------------------------------------------------------------
Init ==
  /\ lib = "linux_thermal" /\ SessionInit
  /\ len = [d \in Domain |-> 0] /\ discovered = {}

(* Of the entries seen, a domain counts no more than MaxNames; then each    *)
(* domain with entries gets its values and its nodes, if there is memory.   *)
LibInit ==
  IF isOpen THEN Answer("open", "already") /\ UNCHANGED thermal
  ELSE \/ Failed(mem) /\ UNCHANGED thermal
       \/ \E some \in TakeSome(mem, Metrics) : Failed(Release(some, Metrics)) /\ UNCHANGED thermal
       \/ \E seen \in SUBSET Entry :
            LET n == [d \in Domain |-> AtMost(Counted(seen, d), MaxNames)]
                some == {d \in Domain : n[d] > 0}
            IN \E poor \in SUBSET Parts(some, {"values", "nodes"}) :
                 /\ Opened(TakeAll(mem, Metrics \cup
                                       (Parts(some, {"block", "values", "nodes"}) \ poor)), NoSize)
                 /\ len' = n /\ UNCHANGED discovered

(* discover_thermal_zones and discover_cooling_devices: done once.  The     *)
(* entries found fill the slots of their domain, and no more than it has;   *)
(* a node that cannot be opened leaves its slot empty.                      *)
Slots_All(found, d) == Counted(found, d)
Slots(found, d) == AtMost(Counted(found, d), len[d])
Discover(side) ==
  IF ~isOpen THEN Answer("use", "not_open") /\ UNCHANGED thermal
  ELSE IF side \in discovered THEN Answer("use", "success") /\ UNCHANGED thermal
  ELSE \E found \in SUBSET {e \in Entry : SideOf[e] = side} :
         LET nodes == {d \in Domain : d[1] = side /\ Part(d, "nodes") \in mem.held}
             files == UNION {{File(d, i) : i \in 1 .. Slots(found, d)} : d \in nodes}
             m == IF \A d \in nodes : Slots(found, d) <= len[d] THEN mem
                  ELSE Overrun(mem, "nodes")
         IN \E opened \in SUBSET files :
              /\ mem' = TakeAll(m, opened) /\ answer' = <<"use", "success">>
              /\ discovered' = discovered \cup {side}
              /\ UNCHANGED <<lib, isOpen, size, len>>

(* thermal_zones_info and cooling_devices_info: what can be read again is.  *)
Info == Answer("use", IF isOpen THEN "success" ELSE "not_open") /\ UNCHANGED thermal

(* The lengths say how many nodes there are to close, so that the nodes go  *)
(* before the metrics.                                                      *)
Files(m) == {f \in m.held : f[3] = "file" /\ f[4] <= len[<<f[1], f[2]>>]}
Nodes(m) == {r \in m.held : r[3] = "nodes"}
Cleaned_MetricsFirst(m) == Release(m, m.held \ (Files(m) \cup Nodes(m)))
Cleaned(m) == LET n == Release(m, Files(m) \cup Nodes(m))
              IN Release(n, {r \in n.held : r[3] \in {"metrics", "block", "values"}})

Cleanup ==
  IF ~isOpen THEN Answer("close", "not_open") /\ UNCHANGED thermal
  ELSE /\ Closed(Cleaned(mem), "success")
       /\ len' = [d \in Domain |-> 0] /\ discovered' = {}

Next == LibInit \/ (\E side \in Side : Discover(side)) \/ Info \/ Cleanup
=============================================================================
