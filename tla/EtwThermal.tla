----------------------------- MODULE EtwThermal -----------------------------
(***************************************************************************)
(* The thermal zones of Windows: wos_thermal_lib.c over the ETW library    *)
(* (thermal_common.cpp, thermal_sensor_* of cpu_thermal_etw_library.cpp),  *)
(* as wos_thermal.c opens and closes it for the application's connects and *)
(* disconnects.                                                            *)
(*                                                                         *)
(* To learn the zones, a listening thread starts an ETW trace for half a   *)
(* second.  If the trace cannot be started the thread throws, notifies a   *)
(* condition variable and ends; the caller, who waits on it, then stops    *)
(* somebody else's session ("qc...") to make room, keeps how to restart it *)
(* and tries again.  The sessions stopped are restarted when the last user *)
(* closes the library.  A second thread, the sensor, listens for           *)
(* temperatures as long as the library is open.                            *)
(*                                                                         *)
(* ETW and krabs, the library that wraps it, are not in the repository:    *)
(* start() throws or blocks until stop(), and events come in between.  A   *)
(* definition whose name has an underscore is a wrong variant of the one   *)
(* that follows it, kept to show that the properties tell them apart.      *)
(***************************************************************************)
EXTENDS Integers, Sequences, FiniteSets, SequencesExt

CONSTANTS
  Session,        (* the ETW sessions of other programs                     *)
  QcSession,      (* those whose name begins with "qc"                      *)
  Zone,           (* the numbers in the firmware's zone names, TZ<number>   *)
  MaxZoneId,      (* MAX_THERMAL_ZONE_ID, compared with eight bits          *)
  MaxZones,       (* MAX_NUM_OF_ZONES (bound)                               *)
  MaxInstances,   (* UINT8_MAX, the bound of g_instance_count               *)
  NoMap,          (* NULL, where a zone name map could be                   *)
  NoZone          (* a slot of g_zone_temperatures nothing was stored in    *)

ASSUME EtwAssumption ==
  /\ IsFiniteSet(Session) /\ QcSession \subseteq Session
  /\ Zone \subseteq Nat /\ MaxZoneId \in 0 .. 255 /\ MaxZones \in 1 .. 255
  /\ MaxInstances \in Nat \ {0} /\ NoZone \notin Zone

ASSUME NoMapAssumption == NoMap \notin [ids : Seq(Nat), index : [0 .. MaxZoneId -> 0 .. 255]]

VARIABLES
  connected,  (* the core's g_backends_connected for this backend           *)
  ready,      (* g_is_initialized of wos_thermal.c                          *)
  isOpen,     (* g_is_initialized of wos_thermal_lib.c                      *)
  count,      (* g_instance_count                                           *)
  hasList,    (* g_stopped_etw_sessions is not NULL                         *)
  zones,      (* g_zone_name_map: NoMap or a map, see NewMap                *)
  libZones,   (* g_zone_name_map of wos_thermal_lib.c, and the sensor's     *)
  temps,      (* g_zone_temperatures: whose temperature each slot has       *)
  tools,      (* the callback mutex and the condition variable exist        *)
  etw,        (* the other programs' sessions, see Init                     *)
  listener,   (* the listening thread                                       *)
  sensor,     (* the sensor thread                                          *)
  pc,         (* where the application's thread is                          *)
  wait,       (* its wait: woken, and should_retry                          *)
  result      (* the return code carried along: TRUE for success            *)

backend == <<connected, ready, isOpen>>
common == <<count, hasList, zones, libZones, tools>>
threads == <<listener, sensor, temps>>
control == <<pc, wait, result>>
vars == <<backend, common, etw, threads, control>>

(* struct ThermalCommonZoneNameMap: the ids of the zones found, and for an  *)
(* id the place of its zone.  The array of places ends before MaxZoneId:    *)
(* what is read there is the padding of the structure, which is zero.       *)
Unmapped == 255
ZeroMap == [ids |-> <<>>, index |-> [id \in 0 .. MaxZoneId |-> 0]]
NewMap ==
  [ids |-> <<>>, index |-> [id \in 0 .. MaxZoneId |-> IF id < MaxZoneId THEN Unmapped ELSE 0]]
NoTemperatures == [i \in 0 .. MaxZones - 1 |-> NoZone]

Init ==
  /\ connected = FALSE /\ ready = FALSE /\ isOpen = FALSE
  /\ count = 0 /\ hasList = FALSE /\ zones = NoMap /\ libZones = ZeroMap /\ tools = FALSE
  /\ etw = [running |-> Session, stopped |-> {}, lost |-> {}]
  /\ listener = "none" /\ sensor = "none" /\ temps = NoTemperatures
  /\ pc = "idle" /\ wait = [woken |-> FALSE, retry |-> FALSE] /\ result = TRUE

Goto(p, ok) == pc' = p /\ result' = ok

-----------------------------------------------------------------------------
(* Opening: wos_thermal_init, wos_thermal_lib_init, thermal_common_init.    *)
(* A backend that is initialized, over a library open or not, refuses.      *)
WosThermalInit ==
  /\ pc = "idle" /\ ~connected
  /\ IF ready \/ isOpen THEN UNCHANGED control ELSE Goto("common", TRUE) /\ UNCHANGED wait
  /\ UNCHANGED <<backend, common, etw, threads>>

(* The function mutex cannot be made or locked, or there are too many       *)
(* users; the list may not have been made.                                  *)
CommonInit ==
  /\ pc = "common"
  /\ \/ Goto("idle", FALSE) /\ UNCHANGED <<count, hasList>>
     \/ /\ count < MaxInstances
        /\ count' = count + 1 /\ hasList' \in {TRUE, hasList}
        /\ Goto("zones", TRUE)
  /\ UNCHANGED <<backend, zones, libZones, tools, etw, threads, wait>>

(* thermal_common_getzone_names: a map from an earlier user is reused.      *)
GetZoneNames ==
  /\ pc = "zones"
  /\ \/ zones # NoMap /\ Goto("copy", TRUE) /\ UNCHANGED <<zones, tools>>
     \/ zones = NoMap /\ Goto("copy", FALSE) /\ UNCHANGED <<zones, tools>>
     \/ zones = NoMap /\ Goto("listen", FALSE) /\ zones' = NewMap /\ tools' = TRUE
  /\ UNCHANGED <<backend, count, hasList, libZones, etw, threads, wait>>

(* thermal_common_start_etw_listening_thread, one turn of its loop: a       *)
(* thread that cannot be created is tried again if this is a retry.         *)
StartListener ==
  /\ pc = "listen"
  /\ \/ listener' = "created" /\ pc' = "begin_wait" /\ UNCHANGED result
     \/ UNCHANGED listener /\ Goto(IF wait.retry THEN "listen" ELSE "copy", FALSE)
  /\ UNCHANGED <<backend, common, etw, sensor, temps, wait>>

BeginWait ==
  /\ pc = "begin_wait"
  /\ pc' = "wait" /\ wait' = [wait EXCEPT !.woken = FALSE]
  /\ UNCHANGED <<backend, common, etw, threads, result>>

(* The wait completes when it was notified, or spuriously; it times out; or *)
(* it fails: at once perhaps, before the thread has got as far as start().  *)
EndWait ==
  /\ pc = "wait"
  /\ \/ wait' = [woken |-> FALSE, retry |-> TRUE] /\ UNCHANGED result
     \/ ~wait.woken /\ wait' = [woken |-> FALSE, retry |-> FALSE] /\ result' \in BOOLEAN
  /\ pc' = "stop"
  /\ UNCHANGED <<backend, common, etw, threads>>

(* What stop() makes of a thread: one that has not reached start() it does  *)
(* not stop, and start() will find nobody to stop it.                       *)
Stopped(thread) ==
  CASE thread = "created" -> "overtaken" [] thread = "listening" -> "ended" [] OTHER -> thread

(* The trace is stopped, and its thread joined and destroyed.               *)
StopListener ==
  /\ pc = "stop"
  /\ listener' = Stopped(listener)
  /\ pc' = "join"
  /\ UNCHANGED <<backend, common, etw, sensor, temps, wait, result>>

JoinListener_NoWait ==
  /\ pc = "join" /\ pc' = (IF wait.retry THEN "make_room" ELSE "copy")
  /\ UNCHANGED <<backend, common, etw, listener, sensor, temps, wait, result>>
JoinListener ==
  /\ pc = "join" /\ listener = "ended"
  /\ listener' = "none" /\ pc' = IF wait.retry THEN "make_room" ELSE "copy"
  /\ UNCHANGED <<backend, common, etw, sensor, temps, wait, result>>

-----------------------------------------------------------------------------
(* stop_etw_session, for the sessions of which the stop works: without a    *)
(* list nothing is kept; with one, how to restart the session is kept, or   *)
(* is lost for want of memory.  It is stopped all the same.                 *)
Kept_Unchecked(e, s) == e
Kept(e, s) ==
  IF hasList THEN [e EXCEPT !.running = @ \ {s}, !.stopped = @ \cup {s}]
  ELSE [e EXCEPT !.running = @ \ {s}, !.lost = @ \cup {s}]
Unkept(e, S) == [e EXCEPT !.running = @ \ S, !.lost = @ \cup S]

(* get_active_etw_sessions: the query fails, or lists what runs.            *)
ActiveSessions == {{}, etw.running}

(* stop_first_eligible_session: one after the other, until one is stopped   *)
(* and kept.                                                                *)
MakeRoom ==
  /\ pc = "make_room"
  /\ \E active \in ActiveSessions :
     \E unkept \in IF hasList THEN SUBSET (active \cap QcSession) ELSE {{}} :
       \/ /\ etw' = Unkept(etw, unkept) /\ Goto("copy", FALSE)
          /\ wait' = [wait EXCEPT !.retry = FALSE]
       \/ \E s \in (active \cap QcSession) \ unkept :
            etw' = Kept(Unkept(etw, unkept), s) /\ pc' = "listen" /\ UNCHANGED <<wait, result>>
  /\ UNCHANGED <<backend, common, threads>>

(* The rest of thermal_common_getzone_names: the condition variable and the *)
(* mutex go; the map is copied out, or freed after a failure.               *)
CopyZones ==
  /\ pc = "copy"
  /\ tools' = FALSE
  /\ IF result THEN libZones' = zones /\ UNCHANGED zones /\ Goto("sensor", TRUE)
     ELSE zones' = NoMap /\ UNCHANGED libZones /\ Goto("common_cleanup", FALSE)
  /\ UNCHANGED <<backend, count, hasList, etw, threads, wait>>

-----------------------------------------------------------------------------
(* thermal_sensor_init: refuses an empty map.  Whatever fails is cleaned up *)
(* at once; no thread was created then.                                     *)
SensorInit ==
  /\ pc = "sensor"
  /\ \/ Goto("common_cleanup", FALSE) /\ UNCHANGED sensor
     \/ libZones.ids # <<>> /\ sensor' = "created" /\ Goto("cooling", TRUE)
  /\ UNCHANGED <<backend, common, etw, listener, temps, wait>>

(* passive_cooling_init and the two lists of wos_thermal_lib_init.          *)
CoolingInit ==
  /\ pc = "cooling"
  /\ \/ Goto("sensor_cleanup", FALSE) /\ UNCHANGED backend
     \/ isOpen' = TRUE /\ ready' = TRUE /\ connected' = TRUE /\ Goto("idle", TRUE)
  /\ UNCHANGED <<common, etw, threads, wait>>

(* Closing: the core forgets the connection first.  wos_thermal_deinit      *)
(* closes the library, if it is open: what passive_cooling_cleanup answers  *)
(* comes first, what the sensor and the common part answer after it.        *)
WosThermalDeinit ==
  /\ pc = "idle" /\ connected
  /\ connected' = FALSE
  /\ \E ok \in BOOLEAN : Goto("sensor_cleanup", ok)
  /\ UNCHANGED <<ready, isOpen, common, etw, threads, wait>>

(* thermal_sensor_cleanup: the trace stops, its thread is joined, and the   *)
(* temperatures are freed.                                                  *)
SensorStop ==
  /\ pc = "sensor_cleanup"
  /\ sensor' = Stopped(sensor) /\ pc' = "sensor_join"
  /\ UNCHANGED <<backend, common, etw, listener, temps, wait, result>>

SensorJoin ==
  /\ pc = "sensor_join" /\ sensor = "ended"
  /\ sensor' = "none" /\ temps' = NoTemperatures /\ pc' = "common_cleanup"
  /\ UNCHANGED <<backend, common, etw, listener, wait, result>>

(* thermal_common_restart_stopped_sessions: each is taken off the list and  *)
(* started, and one that does not start is forgotten.  No list and an empty *)
(* one count as failures.                                                   *)
Restarted_Keeps(refused) == etw
Restarted(refused) ==
  [running |-> etw.running \cup (etw.stopped \ refused), stopped |-> {},
   lost |-> etw.lost \cup refused]
RestartWorks == hasList /\ etw.stopped # {}

(* Then wos_thermal_lib_cleanup and wos_thermal_deinit, or the init that    *)
(* failed, return: a deinit that saw a failure leaves the backend ready.    *)
Returned(ok) ==
  /\ Goto("idle", result /\ ok)
  /\ isOpen' = FALSE
  /\ ready' = (ready /\ ~(result /\ ok))
  /\ UNCHANGED connected

(* thermal_common_cleanup: nothing without its mutex; the last user frees   *)
(* the map and restarts the sessions.                                       *)
CommonCleanup ==
  /\ pc = "common_cleanup"
  /\ \/ Returned(FALSE) /\ UNCHANGED <<common, etw>>
     \/ count > 1 /\ count' = count - 1 /\ Returned(TRUE)
        /\ UNCHANGED <<hasList, zones, libZones, tools, etw>>
     \/ /\ count = 1 /\ count' = 0
        /\ zones' = NoMap /\ hasList' = FALSE
        /\ \E refused \in SUBSET etw.stopped : etw' = Restarted(refused)
        /\ Returned(RestartWorks)
        /\ UNCHANGED <<libZones, tools>>
  /\ UNCHANGED <<threads, wait>>

-----------------------------------------------------------------------------
(* The listening thread: start() blocks until stop(), or for ever after one *)
(* that came too early; or it throws, and then it notifies whom it finds    *)
(* waiting.                                                                 *)
ListenerStart ==
  /\ \/ listener = "created" /\ listener' \in {"listening", "throwing"}
     \/ listener = "overtaken" /\ listener' \in {"stuck", "throwing"}
  /\ UNCHANGED <<backend, common, etw, sensor, temps, control>>

ListenerNotify ==
  /\ listener = "throwing"
  /\ wait' = [wait EXCEPT !.woken = pc = "wait"] /\ listener' = "ended"
  /\ UNCHANGED <<backend, common, etw, sensor, temps, pc, result>>

(* parse_id_from_bios_name: cut to 8 bits first, compared with the greatest *)
(* id after.                                                                *)
Byte == 256
ZoneId(n) == n % Byte
InRange(n) == ZoneId(n) <= MaxZoneId

(* thermal_common_zone_parser_trace_callback, an event of the rundown: the  *)
(* zone is added unless there is no room, or its id is out of range, or it  *)
(* has a place already.                                                     *)
Room_Inclusive(map) == Len(map.ids) <= MaxZones
Room(map) == Len(map.ids) < MaxZones
Filed_AfterIncrement(map, id) ==
  [ids |-> Append(map.ids, id), index |-> [map.index EXCEPT ![id] = Len(map.ids) + 1]]
Filed(map, id) ==
  [ids |-> Append(map.ids, id), index |-> [map.index EXCEPT ![id] = Len(map.ids)]]
Events(thread) == thread \in {"listening", "stuck"}
ZoneRundown ==
  /\ Events(listener)
  /\ \E n \in Zone :
       zones' = IF zones # NoMap /\ Room(zones) /\ InRange(n) /\ zones.index[ZoneId(n)] = Unmapped
                THEN Filed(zones, ZoneId(n)) ELSE zones
  /\ UNCHANGED <<backend, count, hasList, libZones, tools, etw, threads, control>>

(* The sensor thread: nobody looks at whether its start() threw.            *)
SensorStart ==
  /\ \/ sensor = "created" /\ sensor' \in {"listening", "ended"}
     \/ sensor = "overtaken" /\ sensor' \in {"stuck", "ended"}
  /\ UNCHANGED <<backend, common, etw, listener, temps, control>>

(* thermal_sensor_temperatureTraceCallback: the temperature goes where the  *)
(* sensor's copy of the map places the id.                                  *)
TemperatureChange ==
  /\ Events(sensor)
  /\ \E n \in Zone :
       temps' = IF InRange(n) /\ libZones.index[ZoneId(n)] # Unmapped
                THEN [temps EXCEPT ![libZones.index[ZoneId(n)]] = n] ELSE temps
  /\ UNCHANGED <<backend, common, etw, listener, sensor, control>>

-----------------------------------------------------------------------------
Caller ==
  \/ CommonInit \/ GetZoneNames \/ StartListener \/ BeginWait \/ EndWait \/ StopListener
  \/ JoinListener \/ MakeRoom \/ CopyZones \/ SensorInit \/ CoolingInit
  \/ SensorStop \/ SensorJoin \/ CommonCleanup
Listener == ListenerStart \/ ListenerNotify
Sensor == SensorStart

Next ==
  \/ WosThermalInit \/ WosThermalDeinit \/ Caller
  \/ Listener \/ Sensor \/ ZoneRundown \/ TemperatureChange

(* The threads run.  A creation that fails in the loop that retries changes *)
(* nothing, so that Caller also says: it works some time.  The loop has no  *)
(* other end.                                                               *)
Fairness == WF_vars(Caller) /\ WF_vars(Listener) /\ WF_vars(Sensor)

Spec == Init /\ [][Next]_vars /\ Fairness

-----------------------------------------------------------------------------
ZoneMap ==
  {m \in [ids : Seq(Nat), index : [0 .. MaxZoneId -> 0 .. Unmapped]] : Len(m.ids) <= MaxZones}

TypeOK ==
  /\ connected \in BOOLEAN /\ ready \in BOOLEAN /\ isOpen \in BOOLEAN
  /\ count \in 0 .. MaxInstances /\ hasList \in BOOLEAN /\ tools \in BOOLEAN
  /\ zones \in ZoneMap \cup {NoMap} /\ libZones \in ZoneMap
  /\ temps \in [0 .. MaxZones - 1 -> Zone \cup {NoZone}]
  /\ etw \in [running : SUBSET Session, stopped : SUBSET QcSession, lost : SUBSET QcSession]
  /\ listener \in {"none", "created", "listening", "throwing", "overtaken", "stuck", "ended"}
  /\ sensor \in {"none", "created", "listening", "overtaken", "stuck", "ended"}
  /\ wait \in [woken : BOOLEAN, retry : BOOLEAN] /\ result \in BOOLEAN

(* As long as a listening thread may parse a zone or notify, the mutex and  *)
(* the condition variable it does that with exist, and the map it fills.    *)
ListenerHasTools ==
  listener \in {"created", "overtaken", "listening", "stuck", "throwing"} =>
    tools /\ zones # NoMap

(* Another program's session is down only while somebody has the library    *)
(* open, unless how to restart it was lost or it did not start again.       *)
SessionsRestored == count = 0 => etw.running \cup etw.lost = Session

(* The zone at place i of the map has temperature i (wos_thermal_lib.c:258):*)
(* that of the zone with its id.  Only MAX_THERMAL_ZONE_ID itself, which the*)
(* range check lets pass, has no place of its own and is stored as the first*)
(* zone's.                                                                  *)
TemperaturesOwn ==
  \A i \in 0 .. MaxZones - 1 : temps[i] # NoZone =>
    /\ i < Len(libZones.ids)
    /\ \/ libZones.ids[i + 1] = ZoneId(temps[i])
       \/ i = 0 /\ ZoneId(temps[i]) = MaxZoneId

(* A connect or a disconnect that begins comes to an end: unless a trace is *)
(* stopped before its thread has started it, for then the join never ends.  *)
Overtaken == "stuck" \in {listener, sensor}
CallsReturn == pc # "idle" ~> (pc = "idle" \/ Overtaken)

(* qcperf.c:250, of ALREADY_INITIALIZED: "call qcperf_deinit before         *)
(* reinitializing".  A backend whose deinit has returned can be initialized *)
(* again.                                                                   *)
Reopenable == pc = "idle" /\ ~connected => ~ready
=============================================================================
