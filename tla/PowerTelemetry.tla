--------------------------- MODULE PowerTelemetry ---------------------------
(***************************************************************************)
(* wos-power-backend/power-telemetry: the energy meter rails over a PDH    *)
(* query.  The list of supported rails is kept while the rails are open.   *)
(* The query is closed without its pointer being cleared, and its counters *)
(* are removed after it has freed them.  "counters" is the list of those   *)
(* asked for, "first" the counter in its first place.                      *)
(***************************************************************************)
EXTENDS ProviderSession

CONSTANTS MaxRails,      (* MAX_POWER_TELEMETRY_RAILS (bound)                *)
          SystemRail     (* POWER_TELEMETRY_RAIL_SYSTEM                      *)

Init == lib = "power_telemetry" /\ SessionInit

(* railsGetSupported, as a set of outcomes: the list is reused, or made and *)
(* kept whether or not the counters could be listed; one that is not to     *)
(* persist is freed.                                                        *)
Supported(m) ==
  IF "supported" \in m.set THEN {[m |-> m, ok |-> TRUE]}
  ELSE {[m |-> m, ok |-> FALSE]} \cup {[m |-> Take(m, "supported"), ok |-> b] : b \in BOOLEAN}

RailsGetSupported ==
  \E s \in Supported(mem) :
    /\ mem' = Release(s.m, {"supported"})
    /\ UNCHANGED <<lib, isOpen, size, answer>>

(* The query takes its counters with it.  Then, for each counter in the     *)
(* list, the first one is removed again, and the lists go.                  *)
Queried(m) == [Close(m, {"query"}) EXCEPT !.held = @ \ {"first"}]
Destroyed_KeepsList(m) == Release(Queried(m), {"first", "counters"})
Destroyed(m) == Release(Queried(m), {"first", "counters", "supported"})

(* A request for no rail is refused.  The counters that could not be added  *)
(* are left out, even all of them.                                          *)
Listed(added) == IF added = 0 THEN {"counters"} ELSE {"counters", "first"}
RailsInit ==
  IF isOpen THEN Answer("open", "already")
  ELSE \/ Failed(mem)
       \/ \E s \in Supported(mem) :
            \/ Failed(Destroyed(s.m))
            \/ s.ok /\ Failed(Destroyed(Take(s.m, "query")))
            \/ /\ s.ok
               /\ \E asked \in 1 .. MaxRails : \E added \in 0 .. asked :
                    Opened(TakeAll(Take(s.m, "query"), Listed(added)),
                           [room |-> asked, used |-> added])

(* When the rail SYS cannot be read, the counter at the index of the rail   *)
(* SYSTEM is read in its place, whatever was asked for.                     *)
RailsGetInfo ==
  IF isOpen /\ size.used = 0 THEN Answer("use", "failed")
  ELSE \/ Used
       \/ isOpen /\ SystemRail >= size.room /\ PastEnd("counters")

RailsDestroy ==
  IF isOpen THEN \E a \in {"success", "failed"} : Closed(Destroyed(mem), a)
  ELSE Answer("close", "success")

Next == RailsGetSupported \/ RailsInit \/ RailsGetInfo \/ RailsDestroy
=============================================================================
