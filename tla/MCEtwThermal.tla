---------------------------- MODULE MCEtwThermal ----------------------------
(* EtwThermal for TLC.  Zones: three that fit, one more than the map has places *)
(* in this instance; MAX_THERMAL_ZONE_ID, which passes the range check; one      *)
(* that is out of range; one that is a zone that fits once cut to eight bits.    *)
(* One session whose name begins with something else.                            *)
EXTENDS EtwThermal

Zones == {1, 11, 21, 100, 101, 257}
Sessions == {"qc_profiler", "qcdiag", "kernel"}
QcSessions == {"qc_profiler", "qcdiag"}
=============================================================================
