-------------------------- MODULE MetricCatalogue ---------------------------
(***************************************************************************)
(* What a backend lists when it is initialized, and what its batches then  *)
(* carry.  Both are decided from what the machine has, at different times  *)
(* and in different code: qcom-linux-cpu probes the limit of each core     *)
(* again for each sample, wos-power translates metrics to rails in start   *)
(* and rails to metrics in its thread, wos-thermal keeps a map from zones  *)
(* to metrics beside the list.  A failed open is followed by a close,      *)
(* because qcperf_connect_backend disconnects what it could not connect.   *)
(***************************************************************************)
EXTENDS ProviderSession, Functions

CONSTANTS MaxCores,      (* QCOM_LINUX_CPU_MAX_CORES (bound)                 *)
          MaxRails,      (* MAX_POWER_TELEMETRY_RAILS (bound)                *)
          SystemRail,    (* POWER_TELEMETRY_RAIL_SYSTEM; SYS is before it    *)
          MaxZones,      (* zones of the machine (bound)                     *)
          KnownZones     (* zones wos_thermal_info.c has a name for (bound)  *)

VARIABLES
  listed,       (* the metrics in the capability list                       *)
  metricsOf,    (* of each core, rail or zone that is sampled: its metrics  *)
  sent          (* the metrics of the last batch                            *)

catalogue == <<listed, metricsOf, sent>>

Nothing == [s \in {} |-> {}]
CatalogueInit == listed = {} /\ metricsOf = Nothing /\ sent = {}
Init ==
  /\ lib \in {"linux_cpu_metrics", "wos_power_metrics", "wos_thermal_metrics"}
  /\ SessionInit /\ CatalogueInit

All(f) == UNION Range(f)
Lists(l, f) == listed' = l /\ metricsOf' = f /\ sent' = {}
Delivers(b) == sent' = b /\ Answer("use", "success") /\ UNCHANGED <<listed, metricsOf>>

MayOpen == ~isOpen /\ answer # <<"open", "failed">>
MayClose == isOpen \/ answer = <<"open", "failed">>
OpenFails(m) == Failed(m) /\ Lists({}, Nothing)

Table == {"capabilities", "metrics"}
Full(room, used) == [room |-> room, used |-> used]

-----------------------------------------------------------------------------
(* qcom-linux-cpu: two totals, four metrics per core, and the limit of each *)
(* core whose node can be read.                                             *)
Base(core) == 2 + 5 * core
Limit(core) == Base(core) + 4
Totals == {0, 1}
PerCore(core) == Base(core) .. Base(core) + 3
Limits(cores) == {Limit(c) : c \in cores}

CoreCounts == 2 .. MaxCores   (* a machine of one core is not understood     *)
LinuxCpuInit ==
  /\ lib = "linux_cpu_metrics" /\ MayOpen
  /\ \/ OpenFails(mem)
     \/ OpenFails(Release(TakeAll(mem, Table), Table))
     \/ \E cores \in CoreCounts : \E limited \in SUBSET (0 .. cores - 1) :
          LET f == [c \in 0 .. cores - 1 |-> PerCore(c)]
              l == Totals \cup All(f) \cup Limits(limited)
          IN Opened(TakeAll(mem, Table), Full(2 + 5 * cores, Cardinality(l))) /\ Lists(l, f)

(* A batch has room for what is listed, once per sample: when nodes that    *)
(* could not be read at init can be read now, the last metrics of the last  *)
(* sample are dropped, which in a batch of one sample are those of the      *)
(* highest ids.                                                             *)
Lowest(S, n) == {i \in S : Cardinality({j \in S : j < i}) < n}
LinuxCpuBatch ==
  /\ lib = "linux_cpu_metrics" /\ isOpen
  /\ \E limited \in SUBSET DOMAIN metricsOf :
       LET b == Totals \cup All(metricsOf) \cup Limits(limited)
       IN Delivers(b) \/ Delivers(Lowest(b, size.used))

-----------------------------------------------------------------------------
(* wos-power: the rails SYS and SYSTEM are one metric.                      *)
Sys == SystemRail - 1
MetricOf(rail) == IF rail < SystemRail THEN rail ELSE rail - 1
RailOf_Shifted(metric, system) == IF metric <= Sys THEN metric ELSE metric + 2
RailOf(metric, system) ==
  IF metric = Sys THEN system ELSE IF metric < Sys THEN metric ELSE metric + 1

(* When the rails cannot be listed the tables remain until deinit.  The     *)
(* later of SYS and SYSTEM is the one that start asks for.                  *)
WosPowerInit ==
  /\ lib = "wos_power_metrics" /\ MayOpen
  /\ \/ OpenFails(mem)
     \/ OpenFails(TakeAll(mem, Table))
     \/ \E rails \in SUBSET (0 .. MaxRails - 1) :
          LET l == {MetricOf(r) : r \in rails}
              system == IF SystemRail \in rails THEN SystemRail ELSE Sys
              asked == {RailOf(i, system) : i \in l}
          IN /\ Opened(TakeAll(mem, Table), Full(MaxRails + 2, Cardinality(rails)))
             /\ Lists(l, [r \in asked |-> {MetricOf(r)}])

(* Any of the rails may be left out by the library; an empty batch is not   *)
(* sent.                                                                    *)
WosPowerBatch ==
  /\ lib = "wos_power_metrics" /\ isOpen
  /\ \E rails \in SUBSET DOMAIN metricsOf : rails # {} /\ Delivers(All(Restrict(metricsOf, rails)))

-----------------------------------------------------------------------------
(* wos-thermal: two metrics per zone.  A zone whose id is out of range, or  *)
(* whose name contains none of the known ones, has the metric NoMetric.     *)
NoMetric == 65535
ZoneMetrics(name) == {2 * name, 2 * name + 1}
EveryZone == 0 .. 2 * KnownZones - 1
ZoneMaps ==
  LET Metrics == {ZoneMetrics(n) : n \in 0 .. KnownZones - 1} \cup {{NoMetric}}
  IN UNION {[1 .. zones -> Metrics] : zones \in 0 .. MaxZones}

(* Without a zone that is known, every metric is listed and none is mapped. *)
(* Two zones may contain the same known name: the list is as long as the    *)
(* known names are many, and is filled past its end.                        *)
WosThermalInit ==
  /\ lib = "wos_thermal_metrics" /\ MayOpen
  /\ \/ OpenFails(mem)
     \/ \E f \in ZoneMaps :
          LET known == {z \in DOMAIN f : f[z] # {NoMetric}}
          IN IF Cardinality(known) > KnownZones
             THEN PastEnd("metrics") /\ UNCHANGED catalogue
             ELSE IF known = {}
             THEN /\ Opened(mem, Full(2 * KnownZones, 2 * KnownZones)) /\ Lists(EveryZone, f)
             ELSE /\ Opened(mem, Full(2 * KnownZones, 2 * Cardinality(known)))
                  /\ Lists(All(f) \ {NoMetric}, f)

(* A batch in which no sample could be read is sent all the same, with the  *)
(* length of the last one and every response zero.                          *)
Known(f) == All(f) \ {NoMetric}
WosThermalBatch ==
  /\ lib = "wos_thermal_metrics" /\ isOpen
  /\ \/ Delivers(Known(metricsOf))
     \/ Delivers(IF sent = {} THEN {} ELSE {0})

-----------------------------------------------------------------------------
(* The buffer of a session begins empty.                                    *)
Start == isOpen /\ Delivers({})

(* Only wos-thermal minds a close that finds nothing open.                  *)
Deinit ==
  /\ MayClose /\ Lists({}, Nothing)
  /\ Closed(Release(mem, Table),
            IF lib = "wos_thermal_metrics" /\ ~isOpen THEN "not_open" ELSE "success")

Next ==
  \/ LinuxCpuInit \/ LinuxCpuBatch
  \/ WosPowerInit \/ WosPowerBatch
  \/ WosThermalInit \/ WosThermalBatch
  \/ Start \/ Deinit
=============================================================================
