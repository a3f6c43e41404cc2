------------------------- MODULE EtwThermal_proofs -------------------------
(***************************************************************************)
(* Proofs about EtwThermal, for any sessions, zones and bounds, whatever   *)
(* fails and however the threads interleave.                               *)
(***************************************************************************)
EXTENDS EtwThermal, TLAPS

(* TypeOK in two parts, for the provers: the flags, and everything else.    *)
Flags ==
  /\ connected \in BOOLEAN /\ ready \in BOOLEAN /\ isOpen \in BOOLEAN
  /\ hasList \in BOOLEAN /\ tools \in BOOLEAN /\ result \in BOOLEAN

Ranges ==
  /\ count \in 0 .. MaxInstances
  /\ zones \in ZoneMap \cup {NoMap} /\ libZones \in ZoneMap
  /\ temps \in [0 .. MaxZones - 1 -> Zone \cup {NoZone}]
  /\ listener \in {"none", "created", "listening", "throwing", "overtaken", "stuck", "ended"}
  /\ sensor \in {"none", "created", "listening", "overtaken", "stuck", "ended"}

Records ==
  /\ etw \in [running : SUBSET Session, stopped : SUBSET QcSession, lost : SUBSET QcSession]
  /\ wait \in [woken : BOOLEAN, retry : BOOLEAN]

(* Where the caller is when the library has a user, and when it has a       *)
(* listening thread, from its creation to its join.                         *)
InUse == {"zones", "listen", "begin_wait", "wait", "stop", "join", "make_room", "copy",
          "sensor", "cooling"}
Listening == {"begin_wait", "wait", "stop", "join"}

(* The tools and the map are there from before the first turn of the loop   *)
(* until after the last; the listening thread lives inside one turn.        *)
ListenerInv ==
  /\ pc \in Listening \cup {"listen", "make_room"} => tools /\ zones # NoMap
  /\ pc = "copy" /\ result => zones # NoMap
  /\ pc \notin Listening => listener = "none"

(* No session is forgotten, and sessions are only stopped by a user.        *)
SessionInv ==
  /\ etw.running \cup etw.stopped \cup etw.lost = Session
  /\ pc \in InUse => count > 0
  /\ count = 0 => etw.stopped = {}

(* In a map with zones, an id that has a place is the id at that place; and *)
(* what is read behind the array of places is the first place.              *)
Consistent(map) ==
  /\ map.index[MaxZoneId] = 0
  /\ \A id \in 0 .. MaxZoneId - 1 :
       map.index[id] # Unmapped => map.index[id] < Len(map.ids) /\ map.ids[map.index[id] + 1] = id

(* The sensor thread lives, and temperatures are stored, only from the      *)
(* opening of the sensor to its join: never while the map is copied.        *)
Quiet == pc \in (InUse \ {"cooling"}) \cup {"common", "common_cleanup"} \/ (pc = "idle" /\ ~isOpen)
SensorInv ==
  /\ zones # NoMap => Consistent(zones)
  /\ libZones.ids # <<>> => Consistent(libZones)
  /\ sensor # "none" => libZones.ids # <<>>
  /\ Quiet => sensor = "none" /\ temps = NoTemperatures

EtwInv == TypeOK /\ ListenerInv /\ SessionInv /\ SensorInv /\ TemperaturesOwn
-----------------------------------------------------------------------------
LEMMA Parts == TypeOK <=> Flags /\ Ranges /\ Records
BY DEF TypeOK, Flags, Ranges, Records

LEMMA Sizes ==
  /\ MaxInstances \in Nat /\ MaxInstances > 0 /\ MaxZoneId \in 0 .. 255 /\ MaxZones \in 1 .. 255
  /\ Zone \subseteq Nat /\ QcSession \subseteq Session
BY EtwAssumption

(* The map as a whole: zero, new, absent, and with one zone more.           *)
LEMMA ZoneMaps ==
  /\ ZeroMap \in ZoneMap /\ NewMap \in ZoneMap /\ NoMap \notin ZoneMap
  /\ ZeroMap.ids = <<>>
  /\ NoTemperatures \in [0 .. MaxZones - 1 -> Zone \cup {NoZone}]
<1>1. ZeroMap \in ZoneMap /\ ZeroMap.ids = <<>>
  BY Sizes DEF ZoneMap, ZeroMap, Unmapped
<1>2. NewMap \in ZoneMap
  BY Sizes DEF ZoneMap, NewMap, Unmapped
<1>3. NoMap \notin ZoneMap
  BY NoMapAssumption DEF ZoneMap, Unmapped
<1>4. NoTemperatures \in [0 .. MaxZones - 1 -> Zone \cup {NoZone}]
  BY DEF NoTemperatures
<1> QED BY <1>1, <1>2, <1>3, <1>4

LEMMA NewIsConsistent == Consistent(NewMap)
<1>1. NewMap.index = [id \in 0 .. MaxZoneId |-> IF id < MaxZoneId THEN Unmapped ELSE 0]
  BY DEF NewMap
<1>2. NewMap.index[MaxZoneId] = 0
  <2>1. MaxZoneId \in 0 .. MaxZoneId /\ ~(MaxZoneId < MaxZoneId)
    BY Sizes
  <2> QED BY <1>1, <2>1, Zenon
<1>3. ASSUME NEW id \in 0 .. MaxZoneId - 1 PROVE NewMap.index[id] = Unmapped
  <2>1. id \in 0 .. MaxZoneId /\ id < MaxZoneId
    BY Sizes
  <2> QED BY <1>1, <2>1, Zenon
<1> QED BY <1>2, <1>3 DEF Consistent

(* A zone number read as eight bits, and within the range the code checks.  *)
LEMMA ZoneIds ==
  ASSUME NEW n \in Nat, InRange(n)
  PROVE  ZoneId(n) \in 0 .. MaxZoneId
BY Sizes DEF ZoneId, Byte, InRange

LEMMA ZoneFiled ==
  ASSUME NEW map \in ZoneMap, NEW id \in 0 .. MaxZoneId, Room(map)
  PROVE  /\ Filed(map, id) \in ZoneMap
         /\ Consistent(map) /\ map.index[id] = Unmapped => Consistent(Filed(map, id))
<1> DEFINE new == Filed(map, id)
<1>1. /\ map.ids \in Seq(Nat) /\ map.index \in [0 .. MaxZoneId -> 0 .. Unmapped]
      /\ Len(map.ids) \in Nat /\ Len(map.ids) < MaxZones
  BY DEF ZoneMap, Room
<1>2. /\ new.ids = Append(map.ids, id) /\ new.ids \in Seq(Nat) /\ Len(new.ids) = Len(map.ids) + 1
      /\ new.ids[Len(map.ids) + 1] = id
      /\ \A i \in 1 .. Len(map.ids) : new.ids[i] = map.ids[i]
  BY <1>1, Sizes DEF Filed
<1>3. /\ new.index = [map.index EXCEPT ![id] = Len(map.ids)]
      /\ new.index \in [0 .. MaxZoneId -> 0 .. Unmapped]
  <2> DEFINE n == Len(map.ids)
  <2>1. n \in Nat /\ n < MaxZones
    BY <1>1
  <2>2. new.index = [map.index EXCEPT ![id] = n]
    BY DEF Filed
  <2> HIDE DEF n, new
  <2>3. n \in 0 .. Unmapped
    BY <2>1, Sizes DEF Unmapped
  <2>4. new.index \in [0 .. MaxZoneId -> 0 .. Unmapped]
    BY <2>2, <2>3, <1>1
  <2> QED BY <2>2, <2>4 DEF n
<1>4. new \in [ids : Seq(Nat), index : [0 .. MaxZoneId -> 0 .. Unmapped]]
  BY <1>2, <1>3 DEF Filed
<1>5. new \in ZoneMap
  <2>1. Len(new.ids) <= MaxZones
    BY <1>1, <1>2, Sizes
  <2> HIDE DEF new
  <2> QED BY <1>4, <2>1 DEF ZoneMap
<1>6. ASSUME Consistent(map), map.index[id] = Unmapped PROVE Consistent(new)
  <2>1. id # MaxZoneId
    BY <1>6 DEF Consistent, Unmapped
  <2>2. new.index[MaxZoneId] = 0
    BY <2>1, <1>1, <1>3, <1>6, Sizes DEF Consistent
  <2>3. ASSUME NEW d \in 0 .. MaxZoneId - 1, new.index[d] # Unmapped
        PROVE new.index[d] < Len(new.ids) /\ new.ids[new.index[d] + 1] = d
    <3>1. CASE d = id
      <4>1. new.index[d] = Len(map.ids)
        BY <3>1, <1>1, <1>3
      <4> QED BY <4>1, <3>1, <1>1, <1>2
    <3>2. CASE d # id
      <4>1. d \in 0 .. MaxZoneId /\ new.index[d] = map.index[d] /\ map.index[d] \in Nat
        <5>1. d \in 0 .. MaxZoneId
          BY Sizes
        <5>2. map.index[d] \in 0 .. Unmapped
          BY <5>1, <1>1
        <5>3. new.index[d] = map.index[d]
          <6> HIDE DEF new
          <6> QED BY <3>2, <5>1, <1>1, <1>3
        <5> QED BY <5>1, <5>2, <5>3 DEF Unmapped
      <4>2. map.index[d] < Len(map.ids) /\ map.ids[map.index[d] + 1] = d
        BY <4>1, <2>3, <1>6 DEF Consistent
      <4>3. map.index[d] + 1 \in 1 .. Len(map.ids)
        <5> DEFINE k == map.index[d]
                   n == Len(map.ids)
        <5>1. k \in Nat /\ n \in Nat /\ k < n
          BY <4>1, <4>2, <1>1
        <5> HIDE DEF k, n
        <5>2. k + 1 \in 1 .. n
          BY <5>1
        <5> QED BY <5>2 DEF k, n
      <4> QED BY <4>1, <4>2, <4>3, <1>1, <1>2
    <3> QED BY <3>1, <3>2
  <2> QED BY <2>2, <2>3 DEF Consistent
<1> QED BY <1>5, <1>6

(* What a rundown event makes of the map.                                   *)
LEMMA ZoneRundownMap ==
  ASSUME Ranges, zones # NoMap => Consistent(zones), ZoneRundown
  PROVE  /\ zones' \in ZoneMap \cup {NoMap} /\ (zones # NoMap => zones' # NoMap)
         /\ zones' # NoMap => Consistent(zones')
<1>1. PICK n \in Zone :
        zones' = IF zones # NoMap /\ Room(zones) /\ InRange(n) /\ zones.index[ZoneId(n)] = Unmapped
                 THEN Filed(zones, ZoneId(n)) ELSE zones
  BY DEF ZoneRundown
<1>2. CASE zones' = zones
  BY <1>2 DEF Ranges
<1>3. CASE zones' # zones
  <2>1. /\ zones # NoMap /\ Room(zones) /\ InRange(n) /\ zones.index[ZoneId(n)] = Unmapped
        /\ zones' = Filed(zones, ZoneId(n))
    BY <1>1, <1>3
  <2>2. zones \in ZoneMap /\ ZoneId(n) \in 0 .. MaxZoneId
    BY <2>1, ZoneIds, Sizes DEF Ranges
  <2> QED BY <2>1, <2>2, ZoneFiled, ZoneMaps
<1> QED BY <1>2, <1>3

LEMMA EtwInit_Inv == Init => EtwInv
<1> SUFFICES ASSUME Init PROVE EtwInv
  OBVIOUS
<1>1. Flags
  BY DEF Init, Flags
<1>2. Ranges
  BY Sizes, ZoneMaps DEF Init, Ranges
<1>3. Records
  BY Sizes DEF Init, Records
<1>4. ListenerInv /\ SessionInv
  BY DEF Init, ListenerInv, SessionInv, InUse, Listening
<1>5. SensorInv
  BY ZoneMaps DEF Init, SensorInv, Quiet
<1>6. TemperaturesOwn
  BY DEF Init, TemperaturesOwn, NoTemperatures
<1> QED BY <1>1, <1>2, <1>3, <1>4, <1>5, <1>6, Parts DEF EtwInv

(* Making room stops sessions of others and remembers or loses each.        *)
LEMMA RoomMade ==
  ASSUME Records, MakeRoom
  PROVE  /\ Records'
         /\ etw'.running \cup etw'.stopped \cup etw'.lost = etw.running \cup etw.stopped \cup etw.lost
<1>1. PICK active \in {{}, etw.running} :
      \E unkept \in SUBSET (active \cap QcSession) :
        \/ etw' = Unkept(etw, unkept)
        \/ \E s \in (active \cap QcSession) \ unkept : etw' = Kept(Unkept(etw, unkept), s)
  BY DEF MakeRoom, ActiveSessions
<1>2. PICK unkept \in SUBSET (active \cap QcSession) :
        \/ etw' = Unkept(etw, unkept)
        \/ \E s \in (active \cap QcSession) \ unkept : etw' = Kept(Unkept(etw, unkept), s)
  BY <1>1
<1>3. wait' \in [woken : BOOLEAN, retry : BOOLEAN]
  BY DEF MakeRoom, Records, Goto
<1> DEFINE Fine(e) ==
      /\ e \in [running : SUBSET Session, stopped : SUBSET QcSession, lost : SUBSET QcSession]
      /\ e.running \cup e.stopped \cup e.lost = etw.running \cup etw.stopped \cup etw.lost
<1>4. Fine(etw')
  <2>1. CASE etw' = Unkept(etw, unkept)
    BY <1>1, <1>2, <2>1, Sizes DEF Unkept, Records
  <2>2. ASSUME NEW s \in (active \cap QcSession) \ unkept, etw' = Kept(Unkept(etw, unkept), s)
        PROVE Fine(etw')
    <3> DEFINE u == Unkept(etw, unkept)
    <3>1. Fine(u) /\ s \in u.running /\ s \in QcSession
      BY <1>1, <1>2, <2>2, Sizes DEF Unkept, Records
    <3>2. \/ etw' = [u EXCEPT !.running = @ \ {s}, !.stopped = @ \cup {s}]
          \/ etw' = [u EXCEPT !.running = @ \ {s}, !.lost = @ \cup {s}]
      BY <2>2 DEF Kept
    <3> HIDE DEF u
    <3>3. CASE etw' = [u EXCEPT !.running = @ \ {s}, !.stopped = @ \cup {s}]
      BY <3>1, <3>3
    <3>4. CASE etw' = [u EXCEPT !.running = @ \ {s}, !.lost = @ \cup {s}]
      BY <3>1, <3>4
    <3> QED BY <3>2, <3>3, <3>4
  <2> QED BY <1>2, <2>1, <2>2
<1> QED BY <1>3, <1>4 DEF Records

LEMMA FlagsStep == Flags /\ Next => Flags'
<1> SUFFICES ASSUME Flags, Next PROVE Flags'
  OBVIOUS
<1> USE DEF Flags, backend, common, threads, control, Goto
<1>1. CASE WosThermalInit
  BY <1>1 DEF WosThermalInit
<1>2. CASE CommonInit
  BY <1>2 DEF CommonInit
<1>3. CASE GetZoneNames
  BY <1>3 DEF GetZoneNames
<1>4. CASE StartListener
  BY <1>4 DEF StartListener
<1>5. CASE BeginWait
  BY <1>5 DEF BeginWait
<1>6. CASE EndWait
  BY <1>6 DEF EndWait
<1>7. CASE StopListener
  BY <1>7 DEF StopListener
<1>8. CASE JoinListener
  BY <1>8 DEF JoinListener
<1>9. CASE MakeRoom
  BY <1>9 DEF MakeRoom
<1>10. CASE CopyZones
  BY <1>10 DEF CopyZones
<1>11. CASE SensorInit
  BY <1>11 DEF SensorInit
<1>12. CASE CoolingInit
  BY <1>12 DEF CoolingInit
<1>13. CASE WosThermalDeinit
  BY <1>13 DEF WosThermalDeinit
<1>14. CASE SensorStop
  BY <1>14 DEF SensorStop
<1>15. CASE SensorJoin
  BY <1>15 DEF SensorJoin
<1>16. CASE CommonCleanup
  BY <1>16 DEF CommonCleanup, Returned, RestartWorks
<1>17. CASE ListenerStart
  BY <1>17 DEF ListenerStart
<1>18. CASE ListenerNotify
  BY <1>18 DEF ListenerNotify
<1>19. CASE ZoneRundown
  BY <1>19 DEF ZoneRundown
<1>20. CASE SensorStart
  BY <1>20 DEF SensorStart
<1>21. CASE TemperatureChange
  BY <1>21 DEF TemperatureChange
<1> QED BY <1>1, <1>2, <1>3, <1>4, <1>5, <1>6, <1>7, <1>8, <1>9, <1>10, <1>11, <1>12,
    <1>13, <1>14, <1>15, <1>16, <1>17, <1>18, <1>19, <1>20, <1>21 DEF Next, Caller, Listener,
    Sensor

LEMMA RangesStep == Ranges /\ ListenerInv /\ SensorInv /\ Next => Ranges'
<1> SUFFICES ASSUME Ranges /\ ListenerInv /\ SensorInv, Next PROVE Ranges'
  OBVIOUS
<1> USE Sizes, ZoneMaps DEF Ranges, backend, common, threads, control, Goto
<1>1. CASE WosThermalInit
  BY <1>1 DEF WosThermalInit
<1>2. CASE CommonInit
  <2>1. /\ UNCHANGED <<zones, libZones, listener, sensor, temps, etw>>
        /\ \/ count' = count /\ pc' = "idle"
           \/ count < MaxInstances /\ count' = count + 1
    BY <1>2 DEF CommonInit
  <2> QED BY <2>1
<1>3. CASE GetZoneNames
  BY <1>3 DEF GetZoneNames
<1>4. CASE StartListener
  BY <1>4 DEF StartListener
<1>5. CASE BeginWait
  BY <1>5 DEF BeginWait
<1>6. CASE EndWait
  BY <1>6 DEF EndWait
<1>7. CASE StopListener
  BY <1>7 DEF StopListener, Stopped
<1>8. CASE JoinListener
  BY <1>8 DEF JoinListener
<1>9. CASE MakeRoom
  BY <1>9 DEF MakeRoom
<1>10. CASE CopyZones
  <2>1. /\ UNCHANGED <<count, listener, sensor, temps>>
        /\ \/ zones # NoMap /\ libZones' = zones /\ UNCHANGED zones
           \/ zones' = NoMap /\ UNCHANGED libZones
    BY <1>10 DEF CopyZones, ListenerInv
  <2> QED BY <2>1
<1>11. CASE SensorInit
  BY <1>11 DEF SensorInit
<1>12. CASE CoolingInit
  BY <1>12 DEF CoolingInit
<1>13. CASE WosThermalDeinit
  BY <1>13 DEF WosThermalDeinit
<1>14. CASE SensorStop
  BY <1>14 DEF SensorStop, Stopped
<1>15. CASE SensorJoin
  BY <1>15 DEF SensorJoin
<1>16. CASE CommonCleanup
  BY <1>16 DEF CommonCleanup, Returned
<1>17. CASE ListenerStart
  BY <1>17 DEF ListenerStart
<1>18. CASE ListenerNotify
  BY <1>18 DEF ListenerNotify
<1>19. CASE ZoneRundown
  <2>1. UNCHANGED <<count, libZones, temps, listener, sensor>>
    BY <1>19 DEF ZoneRundown
  <2> QED BY <1>19, <2>1, ZoneRundownMap DEF SensorInv
<1>20. CASE SensorStart
  BY <1>20 DEF SensorStart
<1>21. CASE TemperatureChange
  <2>1. PICK n \in Zone :
          temps' = IF InRange(n) /\ libZones.index[ZoneId(n)] # Unmapped
                   THEN [temps EXCEPT ![libZones.index[ZoneId(n)]] = n] ELSE temps
    BY <1>21 DEF TemperatureChange
  <2>2. UNCHANGED <<count, zones, libZones, listener, sensor>>
    BY <1>21 DEF TemperatureChange
  <2> QED BY <2>1, <2>2
<1> QED BY <1>1, <1>2, <1>3, <1>4, <1>5, <1>6, <1>7, <1>8, <1>9, <1>10, <1>11, <1>12,
    <1>13, <1>14, <1>15, <1>16, <1>17, <1>18, <1>19, <1>20, <1>21 DEF Next, Caller, Listener,
    Sensor

LEMMA RecordsStep == Records /\ Next => Records'
<1> SUFFICES ASSUME Records, Next PROVE Records'
  OBVIOUS
<1> USE Sizes DEF Records, backend, common, threads, control, Goto
<1>1. CASE WosThermalInit
  BY <1>1 DEF WosThermalInit
<1>2. CASE CommonInit
  BY <1>2 DEF CommonInit
<1>3. CASE GetZoneNames
  BY <1>3 DEF GetZoneNames
<1>4. CASE StartListener
  BY <1>4 DEF StartListener
<1>5. CASE BeginWait
  BY <1>5 DEF BeginWait
<1>6. CASE EndWait
  <2>1. UNCHANGED etw /\ \E b \in BOOLEAN : wait' = [woken |-> FALSE, retry |-> b]
    BY <1>6 DEF EndWait
  <2> QED BY <2>1
<1>7. CASE StopListener
  BY <1>7 DEF StopListener
<1>8. CASE JoinListener
  BY <1>8 DEF JoinListener
<1>9. CASE MakeRoom
  BY <1>9, RoomMade
<1>10. CASE CopyZones
  BY <1>10 DEF CopyZones
<1>11. CASE SensorInit
  BY <1>11 DEF SensorInit
<1>12. CASE CoolingInit
  BY <1>12 DEF CoolingInit
<1>13. CASE WosThermalDeinit
  BY <1>13 DEF WosThermalDeinit
<1>14. CASE SensorStop
  BY <1>14 DEF SensorStop
<1>15. CASE SensorJoin
  BY <1>15 DEF SensorJoin
<1>16. CASE CommonCleanup
  BY <1>16 DEF CommonCleanup, Returned, Restarted, RestartWorks
<1>17. CASE ListenerStart
  BY <1>17 DEF ListenerStart
<1>18. CASE ListenerNotify
  BY <1>18 DEF ListenerNotify
<1>19. CASE ZoneRundown
  BY <1>19 DEF ZoneRundown
<1>20. CASE SensorStart
  BY <1>20 DEF SensorStart
<1>21. CASE TemperatureChange
  BY <1>21 DEF TemperatureChange
<1> QED BY <1>1, <1>2, <1>3, <1>4, <1>5, <1>6, <1>7, <1>8, <1>9, <1>10, <1>11, <1>12,
    <1>13, <1>14, <1>15, <1>16, <1>17, <1>18, <1>19, <1>20, <1>21 DEF Next, Caller, Listener,
    Sensor

LEMMA ListenerStep == Ranges /\ ListenerInv /\ SensorInv /\ Next => ListenerInv'
<1> SUFFICES ASSUME Ranges /\ ListenerInv /\ SensorInv, Next PROVE ListenerInv'
  OBVIOUS
<1> USE ZoneMaps DEF Ranges, ListenerInv, Listening, backend, common, threads, control, Goto
<1>1. CASE WosThermalInit
  BY <1>1 DEF WosThermalInit
<1>2. CASE CommonInit
  BY <1>2 DEF CommonInit
<1>3. CASE GetZoneNames
  BY <1>3 DEF GetZoneNames
<1>4. CASE StartListener
  BY <1>4 DEF StartListener
<1>5. CASE BeginWait
  BY <1>5 DEF BeginWait
<1>6. CASE EndWait
  BY <1>6 DEF EndWait
<1>7. CASE StopListener
  BY <1>7 DEF StopListener, Stopped
<1>8. CASE JoinListener
  BY <1>8 DEF JoinListener
<1>9. CASE MakeRoom
  BY <1>9 DEF MakeRoom
<1>10. CASE CopyZones
  BY <1>10 DEF CopyZones
<1>11. CASE SensorInit
  BY <1>11 DEF SensorInit
<1>12. CASE CoolingInit
  BY <1>12 DEF CoolingInit
<1>13. CASE WosThermalDeinit
  BY <1>13 DEF WosThermalDeinit
<1>14. CASE SensorStop
  BY <1>14 DEF SensorStop
<1>15. CASE SensorJoin
  BY <1>15 DEF SensorJoin
<1>16. CASE CommonCleanup
  BY <1>16 DEF CommonCleanup, Returned
<1>17. CASE ListenerStart
  BY <1>17 DEF ListenerStart
<1>18. CASE ListenerNotify
  BY <1>18 DEF ListenerNotify
<1>19. CASE ZoneRundown
  <2>1. UNCHANGED <<pc, listener, tools, result>>
    BY <1>19 DEF ZoneRundown
  <2>2. zones # NoMap => zones' # NoMap
    BY <1>19, ZoneRundownMap DEF SensorInv
  <2> QED BY <2>1, <2>2
<1>20. CASE SensorStart
  BY <1>20 DEF SensorStart
<1>21. CASE TemperatureChange
  BY <1>21 DEF TemperatureChange
<1> QED BY <1>1, <1>2, <1>3, <1>4, <1>5, <1>6, <1>7, <1>8, <1>9, <1>10, <1>11, <1>12,
    <1>13, <1>14, <1>15, <1>16, <1>17, <1>18, <1>19, <1>20, <1>21 DEF Next, Caller, Listener,
    Sensor

LEMMA SessionStep == Ranges /\ Records /\ SessionInv /\ Next => SessionInv'
<1> SUFFICES ASSUME Ranges /\ Records /\ SessionInv, Next PROVE SessionInv'
  OBVIOUS
<1> USE Sizes DEF Ranges, Records, SessionInv, InUse, backend, common, threads, control, Goto
<1>1. CASE WosThermalInit
  BY <1>1 DEF WosThermalInit
<1>2. CASE CommonInit
  <2>1. /\ UNCHANGED <<zones, libZones, listener, sensor, temps, etw>>
        /\ \/ count' = count /\ pc' = "idle"
           \/ count < MaxInstances /\ count' = count + 1
    BY <1>2 DEF CommonInit
  <2> QED BY <2>1
<1>3. CASE GetZoneNames
  BY <1>3 DEF GetZoneNames
<1>4. CASE StartListener
  BY <1>4 DEF StartListener
<1>5. CASE BeginWait
  BY <1>5 DEF BeginWait
<1>6. CASE EndWait
  BY <1>6 DEF EndWait
<1>7. CASE StopListener
  BY <1>7 DEF StopListener
<1>8. CASE JoinListener
  BY <1>8 DEF JoinListener
<1>9. CASE MakeRoom
  <2>1. UNCHANGED count /\ pc = "make_room"
    BY <1>9 DEF MakeRoom
  <2> QED BY <1>9, <2>1, RoomMade
<1>10. CASE CopyZones
  BY <1>10 DEF CopyZones
<1>11. CASE SensorInit
  BY <1>11 DEF SensorInit
<1>12. CASE CoolingInit
  BY <1>12 DEF CoolingInit
<1>13. CASE WosThermalDeinit
  BY <1>13 DEF WosThermalDeinit
<1>14. CASE SensorStop
  BY <1>14 DEF SensorStop
<1>15. CASE SensorJoin
  BY <1>15 DEF SensorJoin
<1>16. CASE CommonCleanup
  BY <1>16 DEF CommonCleanup, Returned, Restarted, RestartWorks
<1>17. CASE ListenerStart
  BY <1>17 DEF ListenerStart
<1>18. CASE ListenerNotify
  BY <1>18 DEF ListenerNotify
<1>19. CASE ZoneRundown
  BY <1>19 DEF ZoneRundown
<1>20. CASE SensorStart
  BY <1>20 DEF SensorStart
<1>21. CASE TemperatureChange
  BY <1>21 DEF TemperatureChange
<1> QED BY <1>1, <1>2, <1>3, <1>4, <1>5, <1>6, <1>7, <1>8, <1>9, <1>10, <1>11, <1>12,
    <1>13, <1>14, <1>15, <1>16, <1>17, <1>18, <1>19, <1>20, <1>21 DEF Next, Caller, Listener,
    Sensor

(* The map and the temperatures: the sensor and its slots only exist where  *)
(* no step changes the map they were made from.                             *)
LEMMA SensorStep == Ranges /\ ListenerInv /\ SensorInv /\ Next => SensorInv'
<1> SUFFICES ASSUME Ranges /\ ListenerInv /\ SensorInv, Next PROVE SensorInv'
  OBVIOUS
<1> USE ZoneMaps DEF SensorInv, Quiet, InUse, backend, common, threads, control, Goto
<1>1. CASE WosThermalInit
  BY <1>1 DEF WosThermalInit
<1>2. CASE CommonInit
  BY <1>2 DEF CommonInit
<1>3. CASE GetZoneNames
  BY <1>3, NewIsConsistent DEF GetZoneNames
<1>4. CASE StartListener
  BY <1>4 DEF StartListener
<1>5. CASE BeginWait
  BY <1>5 DEF BeginWait
<1>6. CASE EndWait
  BY <1>6 DEF EndWait
<1>7. CASE StopListener
  BY <1>7 DEF StopListener
<1>8. CASE JoinListener
  BY <1>8 DEF JoinListener
<1>9. CASE MakeRoom
  BY <1>9 DEF MakeRoom
<1>10. CASE CopyZones
  BY <1>10 DEF CopyZones, ListenerInv
<1>11. CASE SensorInit
  BY <1>11 DEF SensorInit
<1>12. CASE CoolingInit
  BY <1>12 DEF CoolingInit
<1>13. CASE WosThermalDeinit
  BY <1>13 DEF WosThermalDeinit
<1>14. CASE SensorStop
  BY <1>14 DEF SensorStop, Stopped, Ranges
<1>15. CASE SensorJoin
  BY <1>15 DEF SensorJoin
<1>16. CASE CommonCleanup
  BY <1>16 DEF CommonCleanup, Returned
<1>17. CASE ListenerStart
  BY <1>17 DEF ListenerStart
<1>18. CASE ListenerNotify
  BY <1>18 DEF ListenerNotify
<1>19. CASE ZoneRundown
  <2>1. UNCHANGED <<isOpen, libZones, temps, sensor, pc>>
    BY <1>19 DEF ZoneRundown
  <2>2. zones' # NoMap => Consistent(zones')
    BY <1>19, ZoneRundownMap
  <2> QED BY <2>1, <2>2
<1>20. CASE SensorStart
  BY <1>20 DEF SensorStart
<1>21. CASE TemperatureChange
  BY <1>21 DEF TemperatureChange, Events
<1> QED BY <1>1, <1>2, <1>3, <1>4, <1>5, <1>6, <1>7, <1>8, <1>9, <1>10, <1>11, <1>12,
    <1>13, <1>14, <1>15, <1>16, <1>17, <1>18, <1>19, <1>20, <1>21 DEF Next, Caller, Listener,
    Sensor

(* A temperature goes where the map places the id of its zone.              *)
LEMMA TemperaturesStep == Ranges /\ SensorInv /\ TemperaturesOwn /\ Next => TemperaturesOwn'
<1> SUFFICES ASSUME Ranges, SensorInv, TemperaturesOwn, Next PROVE TemperaturesOwn'
  OBVIOUS
<1>1. CASE TemperatureChange
  <2>1. PICK n \in Zone :
          temps' = IF InRange(n) /\ libZones.index[ZoneId(n)] # Unmapped
                   THEN [temps EXCEPT ![libZones.index[ZoneId(n)]] = n] ELSE temps
    BY <1>1 DEF TemperatureChange
  <2>2. UNCHANGED libZones /\ Events(sensor)
    BY <1>1 DEF TemperatureChange, common
  <2>3. CASE temps' = temps
    BY <2>2, <2>3 DEF TemperaturesOwn
  <2>4. CASE temps' # temps
    <3> DEFINE id == ZoneId(n)
               place == libZones.index[id]
    <3>1. InRange(n) /\ place # Unmapped /\ temps' = [temps EXCEPT ![place] = n]
      BY <2>1, <2>4
    <3>2. id \in 0 .. MaxZoneId /\ libZones \in ZoneMap
      BY <3>1, ZoneIds, Sizes DEF Ranges
    <3>3. libZones.ids # <<>> /\ Consistent(libZones)
      BY <2>2 DEF SensorInv, Events
    <3>4. Len(libZones.ids) \in Nat /\ Len(libZones.ids) > 0 /\ Len(libZones.ids) <= MaxZones
      BY <3>2, <3>3 DEF ZoneMap
    <3>5. /\ place \in Nat /\ place < Len(libZones.ids)
          /\ libZones.ids[place + 1] = id \/ (place = 0 /\ id = MaxZoneId)
      <4>1. place \in 0 .. Unmapped
        BY <3>2 DEF ZoneMap
      <4>2. CASE id = MaxZoneId
        BY <4>1, <4>2, <3>3, <3>4 DEF Consistent
      <4>3. CASE id # MaxZoneId
        <5>1. id \in 0 .. MaxZoneId - 1
          BY <3>2, <4>3, Sizes
        <5> QED BY <4>1, <5>1, <3>1, <3>3 DEF Consistent
      <4> QED BY <4>2, <4>3
    <3> HIDE DEF id, place
    <3>6. ASSUME NEW i \in 0 .. MaxZones - 1, temps'[i] # NoZone
          PROVE /\ i < Len(libZones.ids)
                /\ \/ libZones.ids[i + 1] = ZoneId(temps'[i])
                   \/ i = 0 /\ ZoneId(temps'[i]) = MaxZoneId
      <4>1. CASE i = place
        <5>1. temps'[i] = n
          BY <4>1, <3>1 DEF Ranges
        <5> QED BY <4>1, <5>1, <3>5 DEF id
      <4>2. CASE i # place
        <5>1. temps'[i] = temps[i]
          BY <4>2, <3>1 DEF Ranges
        <5> QED BY <5>1, <3>6 DEF TemperaturesOwn
      <4> QED BY <4>1, <4>2
    <3> QED BY <3>6, <2>2 DEF TemperaturesOwn
  <2> QED BY <2>3, <2>4
<1>2. CASE CopyZones \/ SensorJoin
  <2>1. temps' = NoTemperatures
    BY <1>2 DEF CopyZones, SensorJoin, SensorInv, Quiet, InUse, threads
  <2> QED BY <2>1 DEF TemperaturesOwn, NoTemperatures
<1>3. CASE ~TemperatureChange /\ ~CopyZones /\ ~SensorJoin
  <2>1. UNCHANGED <<temps, libZones>>
    BY <1>3 DEF Next, Caller, Listener, Sensor, threads, common, WosThermalInit,
        CommonInit, GetZoneNames, StartListener, BeginWait, EndWait, StopListener,
        JoinListener, MakeRoom, SensorInit, CoolingInit, WosThermalDeinit, SensorStop,
        CommonCleanup, ListenerStart, ListenerNotify, ZoneRundown, SensorStart
  <2> QED BY <2>1 DEF TemperaturesOwn
<1> QED BY <1>1, <1>2, <1>3

LEMMA EtwInductive == Spec => []EtwInv
<1>1. ASSUME EtwInv, Next PROVE EtwInv'
  BY <1>1, Parts, FlagsStep, RangesStep, RecordsStep, ListenerStep, SessionStep,
      SensorStep, TemperaturesStep
     DEF EtwInv, TypeOK, Flags, Ranges, Records
<1>2. ASSUME EtwInv, UNCHANGED vars PROVE EtwInv'
  BY <1>2 DEF EtwInv, TypeOK, ListenerInv, SessionInv, SensorInv, Quiet, TemperaturesOwn,
      vars, backend,
     common, threads, control
<1> QED BY <1>1, <1>2, EtwInit_Inv, PTL DEF Spec
-----------------------------------------------------------------------------
(* What is counted, mapped and stopped stays in its range, for any bounds.  *)
THEOREM EtwTypeOK == Spec => []TypeOK
<1>1. EtwInv => TypeOK
  BY DEF EtwInv
<1> QED BY <1>1, EtwInductive, PTL

(* thermal_common_start_etw_listening_thread: however a wait ends, and      *)
(* however often the loop retries, a listening thread never meets a mutex,  *)
(* a condition variable or a map that is gone.                              *)
THEOREM EtwListenerHasTools == Spec => []ListenerHasTools
<1>1. EtwInv => ListenerHasTools
  BY DEF EtwInv, ListenerInv, ListenerHasTools, Listening
<1> QED BY <1>1, EtwInductive, PTL

(* thermal_common_restart_stopped_sessions: when the last user has closed   *)
(* the library no other program's session is down, unless the way to        *)
(* restart it was lost, or the restart failed.                              *)
THEOREM EtwSessionsRestored == Spec => []SessionsRestored
<1>1. EtwInv => SessionsRestored
  BY DEF EtwInv, SessionInv, SessionsRestored
<1> QED BY <1>1, EtwInductive, PTL

(* thermal_sensor_temperatureTraceCallback: whatever ids the rundown files  *)
(* and in whatever order, a temperature is stored in the slot of the zone   *)
(* with its id, but for MAX_THERMAL_ZONE_ID, which goes to the first slot.  *)
THEOREM EtwTemperaturesOwn == Spec => []TemperaturesOwn
<1>1. EtwInv => TemperaturesOwn
  BY DEF EtwInv
<1> QED BY <1>1, EtwInductive, PTL
=============================================================================
