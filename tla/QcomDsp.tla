------------------------------ MODULE QcomDsp -------------------------------
(***************************************************************************)
(* qcom-dsp: a FastRPC session to the DSP's system monitor.  On Windows    *)
(* the FastRPC driver library is loaded first, and its function pointers   *)
(* (symbols) are how memory of the session is allocated and freed.         *)
(***************************************************************************)
EXTENDS ProviderSession

Init == lib \in {"dsp_linux", "dsp_windows"} /\ SessionInit

(* fastrpc_load_symbols: a library without a required symbol is unloaded    *)
(* again, and the pointers that were found remain.                          *)
Loaded(m) ==
  IF "library" \in m.set THEN {[m |-> m, ok |-> TRUE]}
  ELSE {[m |-> m, ok |-> FALSE],
        [m |-> [m EXCEPT !.set = @ \cup {"symbols"}], ok |-> FALSE],
        [m |-> TakeAll(m, {"library", "symbols"}), ok |-> TRUE]}

Unloaded(m) == Release(m, {"library", "symbols"})

(* rpcmem_free does nothing without a symbol; on Linux it always works.     *)
Freed(m) ==
  IF lib = "dsp_windows" /\ "symbols" \notin m.set /\ "data" \in m.held
  THEN [Null(m, {"data"}) EXCEPT !.lost = @ \cup {"data"}]
  ELSE Release(m, {"data"})

(* The session's memory, then its handle, then the library with the handle. *)
Deinitialized_UnloadsFirst(m) ==
  LET d == IF "handle" \in m.set THEN Release(m, {"library", "symbols", "handle"}) ELSE m
  IN Freed(d)
Deinitialized(m) ==
  LET d == Freed(m) IN
  IF "handle" \notin d.set THEN d
  ELSE IF lib = "dsp_windows" THEN Unloaded(Release(d, {"handle"})) ELSE Release(d, {"handle"})

(* The driver or the process domain first: a failure there returns at once. *)
(* Then the handle, the monitor's own init, and the memory.                 *)
DspInit ==
  /\ ~isOpen
  /\ \E s \in IF lib = "dsp_windows" THEN Loaded(mem) ELSE {[m |-> mem, ok |-> b] : b \in BOOLEAN} :
       IF ~s.ok THEN Failed(s.m)
       ELSE \/ Failed(Deinitialized(s.m))
            \/ Failed(Deinitialized(Take(s.m, "handle")))
            \/ Opened(TakeAll(s.m, {"handle", "data"}), NoSize)

(* No check of the handle: the call of the monitor fails without one.       *)
DspGetProfData == \E a \in IF isOpen THEN {"success", "failed"} ELSE {"failed"} : Answer("use", a)

(* The answer is that of the monitor's deinit; the rest is done anyway.     *)
DspDeinit == isOpen /\ \E a \in {"success", "failed"} : Closed(Deinitialized(mem), a)

Next == DspInit \/ DspGetProfData \/ DspDeinit
=============================================================================
