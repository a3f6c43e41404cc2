----------------------- MODULE ProvidersMemory_proofs -----------------------
(***************************************************************************)
(* What each of the libraries of Providers owns, whatever fails and in     *)
(* whatever order it is opened, used and closed: the part of the invariant *)
(* of Providers_proofs that is about memory, one library at a time.        *)
(***************************************************************************)
EXTENDS Providers, FiniteSetTheorems, TLAPS

(* A memory with the things R held, the pointers P set, what was lost, what *)
(* was given back wrongly, and what was used past its end.                  *)
Memory(R, P, l, t, o) == [held |-> R, set |-> P, lost |-> l, misfreed |-> t, overrun |-> o]
Owned(R) == Memory(R, R, {}, {}, {})

(* A record with the fields of a memory is one.                             *)
LEMMA MemoryIs ==
  ASSUME NEW R, NEW P, NEW l, NEW t, NEW o,
         NEW m \in [held : {R}, set : {P}, lost : {l}, misfreed : {t}, overrun : {o}]
  PROVE  m = Memory(R, P, l, t, o)
BY DEF Memory

(* What each operator on the memory returns.                                *)
LEMMA TakeAllIs ==
  \A R, P, l, t, o, S :
    TakeAll(Memory(R, P, l, t, o), S) = Memory(R \cup S, P \cup S, l \cup (S \cap R), t, o)
<1> SUFFICES ASSUME NEW R, NEW P, NEW l, NEW t, NEW o, NEW S
             PROVE  TakeAll(Memory(R, P, l, t, o), S) =
                      Memory(R \cup S, P \cup S, l \cup (S \cap R), t, o)
  OBVIOUS
<1> DEFINE m == Memory(R, P, l, t, o)
<1>1. m \in [held : {R}, set : {P}, lost : {l}, misfreed : {t}, overrun : {o}]
  BY DEF Memory
<1>2. m.held = R /\ m.set = P /\ m.lost = l
  BY DEF Memory
<1> HIDE DEF m
<1>3. TakeAll(m, S) \in [held : {R \cup S}, set : {P \cup S}, lost : {l \cup (S \cap R)},
                         misfreed : {t}, overrun : {o}]
  BY <1>1, <1>2 DEF TakeAll
<1> QED BY <1>3, MemoryIs DEF m

(* Closing frees; what was gone already is freed twice.                     *)
LEMMA CloseIs ==
  \A R, P, l, t, o, S :
    Close(Memory(R, P, l, t, o), S) = Memory(R \ S, P, l, t \cup ((S \cap P) \ R), o)
<1> SUFFICES ASSUME NEW R, NEW P, NEW l, NEW t, NEW o, NEW S
             PROVE  Close(Memory(R, P, l, t, o), S) =
                      Memory(R \ S, P, l, t \cup ((S \cap P) \ R), o)
  OBVIOUS
<1> DEFINE m == Memory(R, P, l, t, o)
<1>1. m \in [held : {R}, set : {P}, lost : {l}, misfreed : {t}, overrun : {o}]
  BY DEF Memory
<1>2. m.held = R /\ m.set = P /\ m.misfreed = t
  BY DEF Memory
<1> HIDE DEF m
<1>3. Close(m, S) \in [held : {R \ S}, set : {P}, lost : {l}, misfreed : {t \cup ((S \cap P) \ R)},
                       overrun : {o}]
  BY <1>1, <1>2 DEF Close
<1> QED BY <1>3, MemoryIs DEF m

(* Only the pointers change.                                                *)
LEMMA NullIs ==
  \A R, P, l, t, o, S : Null(Memory(R, P, l, t, o), S) = Memory(R, P \ S, l, t, o)
BY DEF Null, Memory

(* Releasing closes, then forgets the pointers.                             *)
LEMMA ReleaseIs ==
  \A R, P, l, t, o, S :
    Release(Memory(R, P, l, t, o), S) = Memory(R \ S, P \ S, l, t \cup ((S \cap P) \ R), o)
<1> SUFFICES ASSUME NEW R, NEW P, NEW l, NEW t, NEW o, NEW S
             PROVE  Release(Memory(R, P, l, t, o), S) =
                      Memory(R \ S, P \ S, l, t \cup ((S \cap P) \ R), o)
  OBVIOUS
<1>1. Close(Memory(R, P, l, t, o), S) = Memory(R \ S, P, l, t \cup ((S \cap P) \ R), o)
  BY CloseIs
<1>2. Null(Memory(R \ S, P, l, t \cup ((S \cap P) \ R), o), S) =
        Memory(R \ S, P \ S, l, t \cup ((S \cap P) \ R), o)
  BY NullIs
<1> QED BY ONLY <1>1, <1>2 DEF Release

(* What was there may go by other means, or be given back wrongly.          *)
Without(m, S) == [m EXCEPT !.held = @ \ S]
Misfreed(m, S) == [m EXCEPT !.misfreed = @ \cup S]
LEMMA WithoutIs ==
  \A R, P, l, t, o, S : Without(Memory(R, P, l, t, o), S) = Memory(R \ S, P, l, t, o)
BY DEF Memory, Without

(* A wrong pointer is given back.                                           *)
LEMMA MisfreedIs ==
  \A R, P, l, t, o, S :
    Misfreed(Memory(R, P, l, t, o), S) = Memory(R, P, l, t \cup S, o)
BY DEF Memory, Misfreed

(* An array is used past its end.                                           *)
LEMMA OverrunIs ==
  \A R, P, l, t, a : Overrun(Memory(R, P, l, t, {}), a) = Memory(R, P, l, t, {a})
<1> SUFFICES ASSUME NEW R, NEW P, NEW l, NEW t, NEW a
             PROVE  Overrun(Memory(R, P, l, t, {}), a) = Memory(R, P, l, t, {a})
  OBVIOUS
<1>1. {} \cup {a} = {a}
  OBVIOUS
<1> QED BY <1>1 DEF Overrun, Memory

(* The fields of a memory.                                                  *)
LEMMA FieldsAre ==
  \A R, P, l, t, o : LET m == Memory(R, P, l, t, o) IN
    m.held = R /\ m.set = P /\ m.lost = l /\ m.misfreed = t /\ m.overrun = o
BY DEF Memory

(* What a library that loses no pointer takes and releases.                 *)
LEMMA TakeOwned == \A R, S : R \cap S = {} => TakeAll(Owned(R), S) = Owned(R \cup S)
<1> SUFFICES ASSUME NEW R, NEW S, R \cap S = {}
             PROVE  TakeAll(Owned(R), S) = Owned(R \cup S)
  OBVIOUS
<1>1. {} \cup (S \cap R) = {}
  OBVIOUS
<1> QED BY <1>1, TakeAllIs DEF Owned

(* What such a library releases is not freed twice.                         *)
LEMMA ReleaseOwned == \A R, S : Release(Owned(R), S) = Owned(R \ S)
<1> SUFFICES ASSUME NEW R, NEW S PROVE Release(Owned(R), S) = Owned(R \ S)
  OBVIOUS
<1>1. {} \cup ((S \cap R) \ R) = {}
  OBVIOUS
<1> QED BY <1>1, ReleaseIs DEF Owned

(* Owns R while open, and nothing while closed.                             *)
OwnedOpen(R) == mem = Owned(IF isOpen THEN R ELSE {})

(* The memory but for the pointers D, which may remain when what they       *)
(* pointed to is gone, and of which T may have been given back again.       *)
Dangling(m, R, D, T) ==
  \E P, t : m = Memory(R, P, {}, t, {}) /\ R \subseteq P /\ P \ D \subseteq R /\ t \subseteq T

(* Taking what is not owned loses nothing.                                  *)
LEMMA TakeDangling ==
  \A m, R, S, D, T : Dangling(m, R, D, T) /\ R \cap S = {} =>
    Dangling(TakeAll(m, S), R \cup S, D, T)
<1> SUFFICES ASSUME NEW m, NEW R, NEW S, NEW D, NEW T, Dangling(m, R, D, T), R \cap S = {}
             PROVE  Dangling(TakeAll(m, S), R \cup S, D, T)
  OBVIOUS
<1>1. PICK P, t : m = Memory(R, P, {}, t, {}) /\ R \subseteq P /\ P \ D \subseteq R /\ t \subseteq T
  BY DEF Dangling
<1>2. {} \cup (S \cap R) = {}
  OBVIOUS
<1>3. TakeAll(m, S) = Memory(R \cup S, P \cup S, {}, t, {})
  BY <1>1, <1>2, TakeAllIs
<1> QED BY <1>1, <1>3 DEF Dangling

(* Only a pointer that dangles is given back wrongly.                       *)
LEMMA ReleaseDangling ==
  \A m, R, S, D, T : Dangling(m, R, D, T) =>
    Dangling(Release(m, S), R \ S, D, T \cup ((D \cap S) \ R))
<1> SUFFICES ASSUME NEW m, NEW R, NEW S, NEW D, NEW T, Dangling(m, R, D, T)
             PROVE  Dangling(Release(m, S), R \ S, D, T \cup ((D \cap S) \ R))
  OBVIOUS
<1>1. PICK P, t : m = Memory(R, P, {}, t, {}) /\ R \subseteq P /\ P \ D \subseteq R /\ t \subseteq T
  BY DEF Dangling
<1>2. Release(m, S) = Memory(R \ S, P \ S, {}, t \cup ((S \cap P) \ R), {})
  BY <1>1, ReleaseIs
<1>3. R \ S \subseteq P \ S /\ (P \ S) \ D \subseteq R \ S
      /\ t \cup ((S \cap P) \ R) \subseteq T \cup ((D \cap S) \ R)
  BY <1>1
<1> QED BY <1>2, <1>3 DEF Dangling

(* A pointer may dangle after a close.                                      *)
LEMMA CloseDangling ==
  \A m, R, S, D, T : Dangling(m, R, D, T) /\ S \subseteq D =>
    Dangling(Close(m, S), R \ S, D, T \cup (S \ R))
<1> SUFFICES ASSUME NEW m, NEW R, NEW S, NEW D, NEW T, Dangling(m, R, D, T), S \subseteq D
             PROVE  Dangling(Close(m, S), R \ S, D, T \cup (S \ R))
  OBVIOUS
<1>1. PICK P, t : m = Memory(R, P, {}, t, {}) /\ R \subseteq P /\ P \ D \subseteq R /\ t \subseteq T
  BY DEF Dangling
<1>2. Close(m, S) = Memory(R \ S, P, {}, t \cup ((S \cap P) \ R), {})
  BY <1>1, CloseIs
<1>3. R \ S \subseteq P /\ P \ D \subseteq R \ S /\ t \cup ((S \cap P) \ R) \subseteq T \cup (S \ R)
  BY <1>1
<1> QED BY <1>2, <1>3 DEF Dangling

(* The fields of such a memory.                                             *)
LEMMA FieldsDangling ==
  \A m, R, D, T : Dangling(m, R, D, T) =>
    /\ m.held = R /\ R \subseteq m.set /\ m.set \ D \subseteq R
    /\ m.lost = {} /\ m.misfreed \subseteq T /\ m.overrun = {}
BY FieldsAre DEF Dangling

(* Before anything was amiss, nothing had been given back wrongly.          *)
LEMMA SoundDangling == \A R, D, T : Dangling(mem, R, D, T) /\ Sound => Dangling(mem, R, D, {})
BY FieldsAre DEF Dangling, Sound

(* More may have been given back.                                           *)
LEMMA MoreDangling ==
  \A m, R, D, T, U : Dangling(m, R, D, T) /\ T \subseteq U => Dangling(m, R, D, U)
BY DEF Dangling

(* What each library may have given back wrongly.                           *)
LEMMA MisfreeIs ==
  /\ lib \in {"power_telemetry", "passive_cooling"} /\ answer = Failing => MayMisfree = {"query"}
  /\ lib = "power_telemetry" /\ answer[1] = "close" => MayMisfree = {"first"}
  /\ lib = "etw_cpu" /\ answer = Failing => MayMisfree = {"query", "total_freq"}
  /\ lib = "etw_cpu" /\ answer[1] = "close" => MayMisfree = {"total_freq"}
BY DEF MayMisfree, Failing

(* And after the next call.                                                 *)
LEMMA MisfreeIsNext ==
  /\ lib' \in {"power_telemetry", "passive_cooling"} /\ answer' = Failing => MayMisfree' = {"query"}
  /\ lib' = "power_telemetry" /\ answer'[1] = "close" => MayMisfree' = {"first"}
  /\ lib' = "etw_cpu" /\ answer' = Failing => MayMisfree' = {"query", "total_freq"}
  /\ lib' = "etw_cpu" /\ answer'[1] = "close" => MayMisfree' = {"total_freq"}
BY DEF MayMisfree, Failing

(* What cpu-telemetry owns.                                                *)
CpuInv ==
  /\ lib = "cpu_ntquery" => OwnedOpen({})
  /\ lib = "cpu_pdh" => OwnedOpen({"query"})

(* The instance's operators are the module's own.                           *)
LEMMA CpuMemory ==
  \A m, S :
    /\ Cpu!Take(m, S) = TakeAll(m, {S})
    /\ Cpu!Release(m, S) = Release(m, S)
BY DEF Cpu!TakeAll, Cpu!Take, Cpu!Release, Cpu!Close, Cpu!Null,
   TakeAll, Release, Close, Null

(* cpu-telemetry owns its query while it is open.                           *)
LEMMA CpuOwns ==
  ASSUME lib \in {"cpu_ntquery", "cpu_pdh"}, CpuInv, Cpu!Next
  PROVE CpuInv'
<1> USE DEF CpuInv, OwnedOpen, Cpu!Answer, Cpu!Opened, Cpu!Emptied, Cpu!Failed, Cpu!Closed,
        Cpu!PastEnd, Cpu!Used
<1>1. CASE Cpu!NtQueryInit
  BY <1>1 DEF Cpu!NtQueryInit
<1>2. CASE Cpu!PdhInit
  BY <1>2, TakeOwned, ReleaseOwned, CpuMemory DEF Cpu!PdhInit, Cpu!PdhFail
<1>3. CASE Cpu!Collect
  BY <1>3 DEF Cpu!Collect
<1>4. CASE Cpu!NtQueryDestroy
  BY <1>4 DEF Cpu!NtQueryDestroy
<1>5. CASE Cpu!PdhDestroy
  BY <1>5, TakeOwned, ReleaseOwned, CpuMemory DEF Cpu!PdhDestroy
<1> QED BY <1>1, <1>2, <1>3, <1>4, <1>5 DEF Cpu!Next

PowerThings == {"query", "counters", "first", "supported"}
PowerInv == lib = "power_telemetry" =>
  \/ /\ isOpen
     /\ \E R, P : mem = Memory(R, P, {}, {}, {"counters"})
  \/ \E R \in SUBSET PowerThings :
       /\ Dangling(mem, R, {"query"}, MayMisfree)
       /\ IF isOpen THEN "query" \in R ELSE R = {}

(* The instance's operators are the module's own.                           *)
LEMMA PowerMemory ==
  \A m, S :
    /\ Power!Take(m, S) = TakeAll(m, {S})
    /\ Power!Release(m, S) = Release(m, S)
    /\ Power!Close(m, S) = Close(m, S) /\ Power!TakeAll(m, S) = TakeAll(m, S)
    /\ Power!Overrun(m, S) = Overrun(m, S)
BY DEF Power!TakeAll, Power!Take, Power!Release, Power!Close, Power!Null, Power!Overrun,
   TakeAll, Release, Close, Null, Overrun

(* The rails the library supports are listed, and go with the query.        *)
LEMMA SupportedIs ==
  ASSUME NEW R \in SUBSET PowerThings, Dangling(mem, R, {"query"}, {}),
         NEW s \in Power!Supported(mem)
  PROVE  \E Q \in {R, R \cup {"supported"}} : Dangling(s.m, Q, {"query"}, {})
<1>1. CASE "supported" \in mem.set
  BY <1>1 DEF Power!Supported
<1>2. CASE "supported" \notin mem.set
  <2>1. R \cap {"supported"} = {}
    BY <1>2, FieldsDangling
  <2>2. s.m = mem \/ s.m = TakeAll(mem, {"supported"})
    BY <1>2, PowerMemory DEF Power!Supported
  <2> QED BY <2>1, <2>2, TakeDangling
<1> QED BY <1>1, <1>2

(* Whatever was taken is gone when the query is destroyed: the query again  *)
(* if it was closed already, and the first counter after its query.         *)
LEMMA DestroyedIs ==
  ASSUME NEW m, NEW R \in SUBSET PowerThings, Dangling(m, R, {"query"}, {})
  PROVE  Dangling(Power!Destroyed(m), {}, {"query"}, ({"query"} \ R) \cup ({"first"} \cap R))
<1> DEFINE S == {"first", "counters", "supported"}
<1>1. PICK P : m = Memory(R, P, {}, {}, {}) /\ R \subseteq P /\ P \ {"query"} \subseteq R
  <2>1. PICK P, t : /\ m = Memory(R, P, {}, t, {}) /\ R \subseteq P /\ P \ {"query"} \subseteq R
                    /\ t \subseteq {}
    BY DEF Dangling
  <2>2. t = {}
    BY <2>1
  <2> QED BY <2>1, <2>2
<1> DEFINE t == ({"query"} \cap P) \ R
           Q == (R \ {"query"}) \ {"first"}
<1>2. Close(m, {"query"}) = Memory(R \ {"query"}, P, {}, t, {})
  <2>1. {} \cup t = t
    OBVIOUS
  <2> HIDE DEF t
  <2>2. Close(m, {"query"}) = Memory(R \ {"query"}, P, {}, {} \cup t, {})
    BY <1>1, CloseIs DEF t
  <2> QED BY <2>1, <2>2
<1>3. Power!Queried(m) = Memory(Q, P, {}, t, {})
  <2>1. Power!Queried(m) = Without(Close(m, {"query"}), {"first"})
    BY PowerMemory DEF Power!Queried, Without
  <2> HIDE DEF t
  <2> QED BY <1>2, <2>1, WithoutIs
<1>4. Release(Memory(Q, P, {}, t, {}), S) = Memory(Q \ S, P \ S, {}, t \cup ((S \cap P) \ Q), {})
  BY ReleaseIs
<1>5. /\ Q \ S = {} /\ (P \ S) \ {"query"} \subseteq {}
      /\ t \cup ((S \cap P) \ Q) \subseteq ({"query"} \ R) \cup ({"first"} \cap R)
  BY <1>1 DEF PowerThings
<1>6. Power!Destroyed(m) = Memory({}, P \ S, {}, t \cup ((S \cap P) \ Q), {})
  <2> HIDE DEF Q, t, S
  <2> QED BY <1>3, <1>4, <1>5, PowerMemory DEF Power!Destroyed, S
<1> HIDE DEF S, t, Q
<1> QED BY <1>5, <1>6 DEF Dangling

(* power-telemetry owns nothing while it is closed.                         *)
LEMMA PowerOwns ==
  ASSUME lib = "power_telemetry", PowerInv, Sound, Power!Next
  PROVE  PowerInv'
<1> USE DEF Power!Answer, Power!Opened, Power!Emptied, Power!Failed, Power!Closed,
        Power!PastEnd, Power!Used
<1>0. PICK R \in SUBSET PowerThings :
        Dangling(mem, R, {"query"}, {}) /\ IF isOpen THEN "query" \in R ELSE R = {}
  <2>1. mem.overrun = {}
    BY DEF Sound
  <2>2. \A R, P : mem # Memory(R, P, {}, {}, {"counters"})
    BY <2>1, FieldsAre
  <2> QED BY <2>2, SoundDangling DEF PowerInv
<1>a. ASSUME UNCHANGED lib, NEW Q \in SUBSET PowerThings, Dangling(mem', Q, {"query"}, {}),
             IF isOpen' THEN "query" \in Q ELSE Q = {}
      PROVE  PowerInv'
  <2>1. Dangling(mem', Q, {"query"}, MayMisfree')
    BY <1>a, MoreDangling
  <2> QED BY <1>a, <2>1 DEF PowerInv
<1>b. ASSUME UNCHANGED lib, ~isOpen', Dangling(mem', {}, {"query"}, MayMisfree') PROVE PowerInv'
  BY <1>b DEF PowerInv
<1>c. ASSUME UNCHANGED lib, ~isOpen', answer' = Failing, NEW m, mem' = Power!Destroyed(m),
             NEW Q \in SUBSET PowerThings, Dangling(m, Q, {"query"}, {}), "first" \notin Q
      PROVE  PowerInv'
  <2>1. Dangling(mem', {}, {"query"}, ({"query"} \ Q) \cup ({"first"} \cap Q))
    BY <1>c, DestroyedIs
  <2>2. ({"query"} \ Q) \cup ({"first"} \cap Q) \subseteq {"query"}
    BY <1>c
  <2>3. MayMisfree' = {"query"}
    BY <1>c, MisfreeIsNext
  <2> QED BY <1>b, <1>c, <2>1, <2>2, <2>3, MoreDangling
<1>1. CASE Power!RailsGetSupported
  <2>1. PICK s \in Power!Supported(mem) :
          mem' = Release(s.m, {"supported"}) /\ UNCHANGED <<lib, isOpen>>
    BY <1>1, PowerMemory DEF Power!RailsGetSupported
  <2>2. PICK Q \in {R, R \cup {"supported"}} : Dangling(s.m, Q, {"query"}, {})
    BY <1>0, SupportedIs
  <2>3. Dangling(mem', Q \ {"supported"}, {"query"}, {})
    <3>1. {} \cup (({"query"} \cap {"supported"}) \ Q) = {}
      OBVIOUS
    <3>2. Dangling(Release(s.m, {"supported"}), Q \ {"supported"}, {"query"},
                   {} \cup (({"query"} \cap {"supported"}) \ Q))
      BY <2>2, ReleaseDangling
    <3> QED BY <2>1, <3>1, <3>2
  <2>4. Q \ {"supported"} \in SUBSET PowerThings
        /\ IF isOpen THEN "query" \in Q \ {"supported"} ELSE Q \ {"supported"} = {}
    BY <1>0, <2>2 DEF PowerThings
  <2> QED BY <1>a, <2>1, <2>3, <2>4
<1>2. CASE Power!RailsInit
  <2>1. CASE isOpen
    BY <1>0, <1>2, <1>a, <2>1 DEF Power!RailsInit
  <2>2. CASE ~isOpen
    <3>0. CASE Power!Failed(mem)
      BY <1>0, <1>a, <2>2, <3>0
    <3>1. CASE ~Power!Failed(mem)
      <4>1. PICK s \in Power!Supported(mem) :
              \/ Power!Failed(Power!Destroyed(s.m))
              \/ s.ok /\ Power!Failed(Power!Destroyed(Power!Take(s.m, "query")))
              \/ \E added : /\ isOpen' /\ UNCHANGED lib
                            /\ mem' = Power!TakeAll(Power!Take(s.m, "query"), Power!Listed(added))
        BY <1>2, <2>2, <3>1 DEF Power!RailsInit
      <4>2. PICK Q \in {{}, {"supported"}} : Dangling(s.m, Q, {"query"}, {})
        <5>1. R = {} /\ {} \cup {"supported"} = {"supported"}
          BY <1>0, <2>2
        <5> QED BY <1>0, <5>1, SupportedIs
      <4>3. Q \in SUBSET PowerThings /\ Q \cup {"query"} \in SUBSET PowerThings
            /\ "first" \notin Q \cup {"query"}
        BY <4>2 DEF PowerThings
      <4>4. Dangling(TakeAll(s.m, {"query"}), Q \cup {"query"}, {"query"}, {})
        BY <4>2, TakeDangling
      <4>5. CASE Power!Failed(Power!Destroyed(s.m))
        BY <1>c, <4>2, <4>3, <4>5 DEF Failing
      <4>6. CASE Power!Failed(Power!Destroyed(Power!Take(s.m, "query")))
        <5>1. mem' = Power!Destroyed(TakeAll(s.m, {"query"})) /\ ~isOpen' /\ UNCHANGED lib
              /\ answer' = Failing
          BY <4>6, PowerMemory DEF Failing
        <5> QED BY <1>c, <4>3, <4>4, <5>1
      <4>7. ASSUME isOpen', UNCHANGED lib, NEW added,
                   mem' = Power!TakeAll(Power!Take(s.m, "query"), Power!Listed(added))
            PROVE  PowerInv'
        <5> DEFINE L == Power!Listed(added)
        <5>1. (Q \cup {"query"}) \cap L = {} /\ (Q \cup {"query"}) \cup L \in SUBSET PowerThings
          BY <4>2 DEF PowerThings, Power!Listed
        <5> HIDE DEF L
        <5>2. Dangling(TakeAll(TakeAll(s.m, {"query"}), L), (Q \cup {"query"}) \cup L, {"query"}, {})
          BY <4>4, <5>1, TakeDangling
        <5>3. mem' = TakeAll(TakeAll(s.m, {"query"}), L)
          BY <4>7, PowerMemory DEF L
        <5> QED BY <1>a, <4>7, <5>1, <5>2, <5>3
      <4> QED BY <4>1, <4>5, <4>6, <4>7
    <3> QED BY <3>0, <3>1
  <2> QED BY <2>1, <2>2
<1>3. CASE Power!RailsGetInfo
  <2>1. CASE UNCHANGED <<lib, isOpen, mem>>
    BY <1>0, <1>a, <2>1
  <2>2. CASE isOpen /\ Power!PastEnd("counters")
    <3>1. PICK P : mem = Memory(R, P, {}, {}, {})
      <4>1. PICK P, t : mem = Memory(R, P, {}, t, {}) /\ t \subseteq {}
        BY <1>0 DEF Dangling
      <4>2. t = {}
        BY <4>1
      <4> QED BY <4>1, <4>2
    <3>2. mem' = Memory(R, P, {}, {}, {"counters"})
      BY <2>2, <3>1, OverrunIs, PowerMemory
    <3> QED BY <2>2, <3>2 DEF PowerInv
  <2> QED BY <1>3, <2>1, <2>2 DEF Power!RailsGetInfo
<1>4. CASE Power!RailsDestroy
  <2>1. CASE isOpen
    <3>1. Dangling(Power!Destroyed(mem), {}, {"query"}, ({"query"} \ R) \cup ({"first"} \cap R))
      BY <1>0, DestroyedIs
    <3>2. ({"query"} \ R) \cup ({"first"} \cap R) \subseteq {"first"}
      BY <1>0, <2>1
    <3>3. ~isOpen' /\ UNCHANGED lib /\ mem' = Power!Destroyed(mem) /\ answer'[1] = "close"
      BY <1>4, <2>1 DEF Power!RailsDestroy
    <3>4. MayMisfree' = {"first"}
      BY <3>3, MisfreeIsNext
    <3> QED BY <1>b, <3>1, <3>2, <3>3, <3>4, MoreDangling
  <2>2. CASE ~isOpen
    BY <1>0, <1>4, <1>a, <2>2 DEF Power!RailsDestroy
  <2> QED BY <2>1, <2>2
<1> QED BY <1>1, <1>2, <1>3, <1>4 DEF Power!Next

(* Some of S was taken.                                                     *)
LEMMA SomeDangling ==
  \A m, R, S, D, T : Dangling(m, R, D, T) /\ R \cap S = {} =>
    \A n \in TakeSome(m, S) : \E Q \in SUBSET (R \cup S) : R \subseteq Q /\ Dangling(n, Q, D, T)
<1> SUFFICES ASSUME NEW m, NEW R, NEW S, NEW D, NEW T, Dangling(m, R, D, T), R \cap S = {},
                    NEW n \in TakeSome(m, S)
             PROVE  \E Q \in SUBSET (R \cup S) : R \subseteq Q /\ Dangling(n, Q, D, T)
  OBVIOUS
<1>1. PICK G \in SUBSET S : n = TakeAll(m, G)
  BY DEF TakeSome
<1>2. R \cap G = {} /\ R \cup G \in SUBSET (R \cup S)
  BY <1>1
<1>3. Dangling(n, R \cup G, D, T)
  BY <1>1, <1>2, TakeDangling
<1> QED BY <1>2, <1>3

PdhInv ==
  /\ lib = "passive_cooling" =>
       Dangling(mem, IF isOpen THEN {"query"} \cup Pdh!CoolingLists ELSE {}, {"query"}, MayMisfree)
  /\ lib = "etw_cpu" =>
       Dangling(mem, IF isOpen THEN {"query"} \cup Pdh!CpuLists ELSE {}, {"query"}, MayMisfree)

(* The instance's operators are the module's own.                           *)
LEMMA PdhMemory ==
  \A m, S :
    /\ Pdh!Take(m, S) = TakeAll(m, {S}) /\ Pdh!TakeAll(m, S) = TakeAll(m, S)
    /\ Pdh!TakeSome(m, S) = TakeSome(m, S) /\ Pdh!Overrun(m, S) = Overrun(m, S)
    /\ Pdh!Release(m, S) = Release(m, S) /\ Pdh!Close(m, S) = Close(m, S)
BY DEF Pdh!TakeAll, Pdh!Take, Pdh!TakeSome, Pdh!Release, Pdh!Close, Pdh!Null, Pdh!Overrun,
   TakeAll, TakeSome, Release, Close, Null, Overrun

(* Whatever of a query and its lists was taken is gone, and the query is    *)
(* closed again if it was gone already.                                     *)
LEMMA CoolingCleanedIs ==
  ASSUME NEW m, NEW R \in SUBSET ({"query"} \cup Pdh!CoolingLists), Dangling(m, R, {"query"}, {})
  PROVE  Dangling(Pdh!CoolingCleaned(m), {}, {"query"}, {"query"} \ R)
<1>1. Dangling(Release(m, {"list"}), R \ {"list"}, {"query"}, {})
  <2>1. {} \cup (({"query"} \cap {"list"}) \ R) \subseteq {}
    OBVIOUS
  <2> QED BY <2>1, ReleaseDangling, MoreDangling
<1> DEFINE n == Close(Release(m, {"list"}), {"query"})
           Q == (R \ {"list"}) \ {"query"}
<1>2. Dangling(n, Q, {"query"}, {"query"} \ R)
  <2>1. {} \cup ({"query"} \ (R \ {"list"})) \subseteq {"query"} \ R
    OBVIOUS
  <2> QED BY <1>1, <2>1, CloseDangling, MoreDangling
<1>3. Q \ {"map", "values"} = {}
  BY DEF Pdh!CoolingLists
<1>4. Pdh!CoolingCleaned(m) = Release(n, {"map", "values"})
  BY PdhMemory DEF Pdh!CoolingCleaned
<1> HIDE DEF n, Q
<1>5. ({"query"} \ R) \cup (({"query"} \cap {"map", "values"}) \ Q) \subseteq {"query"} \ R
  OBVIOUS
<1>6. Dangling(Release(n, {"map", "values"}), Q \ {"map", "values"}, {"query"},
               ({"query"} \ R) \cup (({"query"} \cap {"map", "values"}) \ Q))
  BY <1>2, ReleaseDangling
<1> QED BY <1>3, <1>4, <1>5, <1>6, MoreDangling

(* So it is for the cores, whose total frequency is given back wrongly too. *)
LEMMA CpuCleanedIs ==
  ASSUME NEW m, NEW R \in SUBSET ({"query"} \cup Pdh!CpuLists), Dangling(m, R, {"query"}, {})
  PROVE  Dangling(Pdh!CpuCleaned(m), {}, {"query"}, ({"query"} \ R) \cup ({"total_freq"} \cap R))
<1> DEFINE L == Pdh!CpuLists
           n == Close(Release(m, L), {"query"})
           T == {"total_freq"} \cap m.set
<1>1. "query" \notin L
  BY DEF Pdh!CpuLists
<1> HIDE DEF L
<1>2. Dangling(Release(m, L), R \ L, {"query"}, {})
  <2>1. {} \cup (({"query"} \cap L) \ R) \subseteq {}
    BY <1>1
  <2> QED BY <2>1, ReleaseDangling, MoreDangling
<1>3. Dangling(n, (R \ L) \ {"query"}, {"query"}, {"query"} \ R)
  <2>1. {} \cup ({"query"} \ (R \ L)) \subseteq {"query"} \ R
    BY <1>1
  <2> QED BY <1>2, <2>1, CloseDangling, MoreDangling
<1>4. (R \ L) \ {"query"} = {}
  BY DEF L
<1>5. T \subseteq {"total_freq"} \cap R
  BY FieldsDangling
<1>6. Pdh!CpuCleaned(m) = Misfreed(n, T)
  BY PdhMemory DEF Pdh!CpuCleaned, L, Misfreed
<1> HIDE DEF n, T
<1>7. PICK P, t : /\ n = Memory({}, P, {}, t, {}) /\ P \ {"query"} \subseteq {}
                  /\ t \subseteq {"query"} \ R
  BY <1>3, <1>4 DEF Dangling
<1>8. Pdh!CpuCleaned(m) = Memory({}, P, {}, t \cup T, {})
  BY <1>6, <1>7, MisfreedIs
<1>9. {} \subseteq P /\ t \cup T \subseteq ({"query"} \ R) \cup ({"total_freq"} \cap R)
  BY <1>5, <1>7
<1> QED BY <1>7, <1>8, <1>9 DEF Dangling

(* What an open that fails may have taken.                                  *)
LEMMA OpeningIs ==
  ASSUME NEW lists, "query" \notin lists, Dangling(mem, {}, {"query"}, {}),
         NEW m \in Pdh!Opening(lists)
  PROVE  \E R \in SUBSET ({"query"} \cup lists) : Dangling(m, R, {"query"}, {})
<1>1. Dangling(TakeAll(mem, {"query"}), {"query"}, {"query"}, {})
  <2>1. {} \cup {"query"} = {"query"} /\ {} \cap {"query"} = {}
    OBVIOUS
  <2> QED BY <2>1, TakeDangling
<1>2. Dangling(TakeAll(TakeAll(mem, {"query"}), lists), {"query"} \cup lists, {"query"}, {})
  <2>1. {"query"} \cap lists = {}
    OBVIOUS
  <2> QED BY <1>1, <2>1, TakeDangling
<1>3. CASE m = mem
  BY <1>3
<1>4. CASE m \in TakeSome(TakeAll(mem, {"query"}), lists)
  <2>1. {"query"} \cap lists = {}
    OBVIOUS
  <2> QED BY <1>1, <1>4, <2>1, SomeDangling
<1>5. CASE m = TakeAll(TakeAll(mem, {"query"}), lists)
  BY <1>2, <1>5
<1> QED BY <1>3, <1>4, <1>5, PdhMemory DEF Pdh!Opening

(* What an open that succeeds has taken.                                    *)
LEMMA OpenedIs ==
  ASSUME NEW lists, "query" \notin lists, Dangling(mem, {}, {"query"}, {})
  PROVE  Dangling(TakeAll(TakeAll(mem, {"query"}), lists), {"query"} \cup lists, {"query"}, {})
<1>1. Dangling(TakeAll(mem, {"query"}), {"query"}, {"query"}, {})
  <2>1. {} \cup {"query"} = {"query"} /\ {} \cap {"query"} = {}
    OBVIOUS
  <2> QED BY <2>1, TakeDangling
<1>2. {"query"} \cap lists = {}
  OBVIOUS
<1> QED BY <1>1, <1>2, TakeDangling

Sized == size \in [room : Nat, used : Nat] /\ size.used <= size.room

(* The passive cooling query owns its lists while it is open, and fills no  *)
(* list past its end.                                                       *)
LEMMA CoolingOwns ==
  ASSUME lib = "passive_cooling", PdhInv, Sized, Sound, Pdh!Next
  PROVE  PdhInv'
<1> USE DEF Pdh!Answer, Pdh!Opened, Pdh!Emptied, Pdh!Failed, Pdh!Closed, Pdh!PastEnd, Pdh!Used
<1> DEFINE things == {"query"} \cup Pdh!CoolingLists
<1>0. Dangling(mem, IF isOpen THEN things ELSE {}, {"query"}, {})
      /\ "query" \notin Pdh!CoolingLists
  BY SoundDangling DEF PdhInv, Pdh!CoolingLists
<1>a. ASSUME UNCHANGED lib, ~isOpen', answer' = Failing, Dangling(mem', {}, {"query"}, {"query"})
      PROVE  PdhInv'
  BY <1>a, MisfreeIsNext DEF PdhInv
<1>b. ASSUME UNCHANGED lib, Dangling(mem', IF isOpen' THEN things ELSE {}, {"query"}, {})
      PROVE  PdhInv'
  <2>1. Dangling(mem', IF isOpen' THEN things ELSE {}, {"query"}, MayMisfree')
    BY <1>b, MoreDangling
  <2> QED BY <1>b, <2>1 DEF PdhInv
<1>c. ASSUME UNCHANGED <<lib, isOpen, mem>> PROVE PdhInv'
  BY <1>0, <1>b, <1>c
<1>d. ASSUME isOpen PROVE Dangling(Pdh!CoolingCleaned(mem), {}, {"query"}, {})
  <2>1. Dangling(mem, things, {"query"}, {}) /\ {"query"} \ things = {}
    BY <1>0, <1>d
  <2> QED BY <2>1, CoolingCleanedIs
<1>1. CASE Pdh!CoolingInit
  <2>1. CASE isOpen
    BY <1>1, <1>b, <1>d, <2>1 DEF Pdh!CoolingInit
  <2>2. CASE ~isOpen
    <3>0. Dangling(mem, {}, {"query"}, {})
      BY <1>0, <2>2
    <3>1. CASE Pdh!Failed(mem)
      BY <1>b, <3>0, <3>1
    <3>2. ASSUME NEW m \in Pdh!Opening(Pdh!CoolingLists), Pdh!Failed(Pdh!CoolingCleaned(m))
          PROVE  PdhInv'
      <4>1. PICK R \in SUBSET things : Dangling(m, R, {"query"}, {})
        BY <1>0, <3>0, OpeningIs
      <4>2. Dangling(Pdh!CoolingCleaned(m), {}, {"query"}, {"query"} \ R)
        BY <4>1, CoolingCleanedIs
      <4>3. {"query"} \ R \subseteq {"query"}
        OBVIOUS
      <4>4. Dangling(Pdh!CoolingCleaned(m), {}, {"query"}, {"query"})
        BY <4>2, <4>3, MoreDangling
      <4> QED BY <1>a, <3>2, <4>4 DEF Failing
    <3>3. CASE isOpen' /\ UNCHANGED lib /\
               mem' = Pdh!TakeAll(Pdh!Take(mem, "query"), Pdh!CoolingLists)
      <4>1. Dangling(mem', things, {"query"}, {})
        BY <1>0, <3>0, <3>3, OpenedIs, PdhMemory
      <4> QED BY <1>b, <3>3, <4>1
    <3> QED BY <1>1, <2>2, <3>1, <3>2, <3>3 DEF Pdh!CoolingInit
  <2> QED BY <2>1, <2>2
<1>2. CASE Pdh!CoolingGetInfo
  <2>1. CASE UNCHANGED <<lib, isOpen, mem>>
    BY <1>c, <2>1
  <2>2. CASE ~UNCHANGED <<lib, isOpen, mem>>
    <3>1. PICK length \in 1 .. MaxZones + 1 :
            /\ UNCHANGED <<lib, isOpen>>
            /\ mem' = IF Pdh!Filled(length) <= size.room THEN mem ELSE Pdh!Overrun(mem, "values")
      BY <1>2, <2>2 DEF Pdh!CoolingGetInfo
    <3>2. Pdh!Filled(length) <= size.room
      BY SizesAssumption DEF Pdh!Filled, Sized
    <3> QED BY <2>2, <3>1, <3>2
  <2> QED BY <2>1, <2>2
<1>3. CASE Pdh!CoolingCleanup
  <2>1. CASE isOpen
    BY <1>3, <1>b, <1>d, <2>1 DEF Pdh!CoolingCleanup
  <2>2. CASE ~isOpen
    BY <1>3, <1>c, <2>2 DEF Pdh!CoolingCleanup
  <2> QED BY <2>1, <2>2
<1>4. lib # "etw_cpu"
  OBVIOUS
<1> QED BY <1>1, <1>2, <1>3, <1>4
        DEF Pdh!Next, Pdh!CpuInit, Pdh!CpuGetNumCores, Pdh!CpuGetInfo, Pdh!CpuCleanup

(* So does the query of the cores.                                          *)
LEMMA EtwCpuOwns ==
  ASSUME lib = "etw_cpu", PdhInv, Sound, Pdh!Next
  PROVE  PdhInv'
<1> USE DEF Pdh!Answer, Pdh!Opened, Pdh!Emptied, Pdh!Failed, Pdh!Closed, Pdh!PastEnd, Pdh!Used
<1> DEFINE things == {"query"} \cup Pdh!CpuLists
           wrong(R) == ({"query"} \ R) \cup ({"total_freq"} \cap R)
<1>0. Dangling(mem, IF isOpen THEN things ELSE {}, {"query"}, {}) /\ "query" \notin Pdh!CpuLists
  BY SoundDangling DEF PdhInv, Pdh!CpuLists
<1>a. ASSUME UNCHANGED lib, ~isOpen', NEW T, Dangling(mem', {}, {"query"}, T),
             T \subseteq MayMisfree'
      PROVE  PdhInv'
  BY <1>a, MoreDangling DEF PdhInv
<1>b. ASSUME UNCHANGED lib, Dangling(mem', IF isOpen' THEN things ELSE {}, {"query"}, {})
      PROVE  PdhInv'
  <2>1. Dangling(mem', IF isOpen' THEN things ELSE {}, {"query"}, MayMisfree')
    BY <1>b, MoreDangling
  <2> QED BY <1>b, <2>1 DEF PdhInv
<1>c. ASSUME UNCHANGED <<lib, isOpen, mem>> PROVE PdhInv'
  BY <1>0, <1>b, <1>c
<1>1. CASE Pdh!CpuInit
  <2>1. CASE isOpen
    BY <1>1, <1>c, <2>1 DEF Pdh!CpuInit
  <2>2. CASE ~isOpen
    <3>0. Dangling(mem, {}, {"query"}, {})
      BY <1>0, <2>2
    <3>1. ASSUME NEW m \in Pdh!Opening(Pdh!CpuLists), Pdh!Failed(Pdh!CpuCleaned(m))
          PROVE  PdhInv'
      <4>1. PICK R \in SUBSET things : Dangling(m, R, {"query"}, {})
        BY <1>0, <3>0, OpeningIs
      <4>2. Dangling(Pdh!CpuCleaned(m), {}, {"query"}, wrong(R))
        BY <4>1, CpuCleanedIs
      <4>3. wrong(R) \subseteq {"query", "total_freq"}
        OBVIOUS
      <4>4. MayMisfree' = {"query", "total_freq"}
        BY <3>1, MisfreeIsNext DEF Failing
      <4> QED BY <1>a, <3>1, <4>2, <4>3, <4>4
    <3>2. CASE isOpen' /\ UNCHANGED lib /\
               mem' = Pdh!TakeAll(Pdh!Take(mem, "query"), Pdh!CpuLists)
      <4>1. Dangling(mem', things, {"query"}, {})
        BY <1>0, <3>0, <3>2, OpenedIs, PdhMemory
      <4> QED BY <1>b, <3>2, <4>1
    <3> QED BY <1>1, <2>2, <3>1, <3>2 DEF Pdh!CpuInit
  <2> QED BY <2>1, <2>2
<1>2. CASE Pdh!CpuGetNumCores \/ Pdh!CpuGetInfo
  BY <1>2, <1>c DEF Pdh!CpuGetNumCores, Pdh!CpuGetInfo
<1>3. CASE Pdh!CpuCleanup
  <2>1. CASE isOpen
    <3>1. Dangling(Pdh!CpuCleaned(mem), {}, {"query"}, wrong(things))
      BY <1>0, <2>1, CpuCleanedIs
    <3>2. wrong(things) \subseteq {"total_freq"}
      OBVIOUS
    <3>3. UNCHANGED lib /\ ~isOpen' /\ mem' = Pdh!CpuCleaned(mem) /\ answer'[1] = "close"
      BY <1>3, <2>1 DEF Pdh!CpuCleanup
    <3>4. MayMisfree' = {"total_freq"}
      BY <3>3, MisfreeIsNext
    <3> QED BY <1>a, <3>1, <3>2, <3>3, <3>4
  <2>2. CASE ~isOpen
    BY <1>3, <1>c, <2>2 DEF Pdh!CpuCleanup
  <2> QED BY <2>1, <2>2
<1> QED BY <1>1, <1>2, <1>3 DEF Pdh!Next, Pdh!CoolingInit, Pdh!CoolingGetInfo, Pdh!CoolingCleanup

DspThings == {"library", "symbols", "handle", "data"}
DspInv ==
  /\ lib = "dsp_linux" => OwnedOpen({"handle", "data"})
  /\ lib = "dsp_windows" => \E R \in {{}, {"library", "symbols"}, DspThings} :
       /\ Dangling(mem, R, {"symbols"}, {}) /\ (isOpen <=> R = DspThings)
       /\ ~isOpen /\ answer[1] = "close" => R = {}

(* The instance's operators are the module's own.                           *)
LEMMA DspMemory ==
  \A m, S :
    /\ Dsp!Take(m, S) = TakeAll(m, {S}) /\ Dsp!TakeAll(m, S) = TakeAll(m, S)
    /\ Dsp!Release(m, S) = Release(m, S) /\ Dsp!Null(m, S) = Null(m, S)
BY DEF Dsp!TakeAll, Dsp!Take, Dsp!Release, Dsp!Close, Dsp!Null,
   TakeAll, Release, Close, Null

(* The DSP of Linux owns its handle and data while it is open.              *)
LEMMA DspLinuxOwns ==
  ASSUME lib = "dsp_linux", DspInv, Dsp!Next
  PROVE  DspInv'
<1> USE DEF Dsp!Answer, Dsp!Opened, Dsp!Emptied, Dsp!Failed, Dsp!Closed, Dsp!PastEnd, Dsp!Used
<1>a. OwnedOpen({"handle", "data"})
  BY DEF DspInv
<1>b. ASSUME UNCHANGED lib, OwnedOpen({"handle", "data"})' PROVE DspInv'
  BY <1>b DEF DspInv
<1>0. \A R : Dsp!Freed(Owned(R)) = Owned(R \ {"data"})
  BY ReleaseOwned, DspMemory DEF Dsp!Freed
<1>c. \A R : "handle" \in Owned(R).set <=> "handle" \in R
  BY FieldsAre DEF Owned
<1>1. \A R : Dsp!Deinitialized(Owned(R)) = Owned((R \ {"data"}) \ {"handle"})
  <2> SUFFICES ASSUME NEW R
               PROVE  Dsp!Deinitialized(Owned(R)) = Owned((R \ {"data"}) \ {"handle"})
    OBVIOUS
  <2>1. CASE "handle" \in R
    <3>1. Dsp!Freed(Owned(R)) = Owned(R \ {"data"}) /\ "handle" \in Owned(R \ {"data"}).set
      BY <1>0, <1>c, <2>1
    <3>2. Dsp!Release(Owned(R \ {"data"}), {"handle"}) = Owned((R \ {"data"}) \ {"handle"})
      BY ReleaseOwned, DspMemory
    <3>3. lib # "dsp_windows"
      OBVIOUS
    <3> QED BY ONLY <3>1, <3>2, <3>3 DEF Dsp!Deinitialized
  <2>2. CASE "handle" \notin R
    <3>1. (R \ {"data"}) \ {"handle"} = R \ {"data"}
      BY <2>2
    <3> QED BY <1>0, <1>c, <2>2, <3>1 DEF Dsp!Deinitialized
  <2> QED BY <2>1, <2>2
<1>2. Dsp!Deinitialized(Owned({})) = Owned({}) /\ Dsp!Deinitialized(Owned({"handle"})) = Owned({})
      /\ Dsp!Deinitialized(Owned({"handle", "data"})) = Owned({})
  <2>1. ({} \ {"data"}) \ {"handle"} = {} /\ ({"handle"} \ {"data"}) \ {"handle"} = {}
        /\ ({"handle", "data"} \ {"data"}) \ {"handle"} = {}
    OBVIOUS
  <2> QED BY <1>1, <2>1
<1>3. CASE Dsp!DspInit
  <2>1. mem = Owned({})
    BY <1>3, <1>a DEF Dsp!DspInit, OwnedOpen
  <2>2. TakeAll(mem, {"handle"}) = Owned({"handle"}) /\
        TakeAll(mem, {"handle", "data"}) = Owned({"handle", "data"})
    BY <2>1, TakeOwned
  <2>3. \/ Dsp!Failed(mem) \/ Dsp!Failed(Dsp!Deinitialized(mem))
        \/ Dsp!Failed(Dsp!Deinitialized(Dsp!Take(mem, "handle")))
        \/ Dsp!Opened(Dsp!TakeAll(mem, {"handle", "data"}), Dsp!NoSize)
    BY <1>3 DEF Dsp!DspInit
  <2> QED BY <1>b, <1>2, <2>1, <2>2, <2>3, DspMemory DEF OwnedOpen
<1>4. CASE Dsp!DspGetProfData
  BY <1>4, <1>a, <1>b DEF Dsp!DspGetProfData, OwnedOpen
<1>5. CASE Dsp!DspDeinit
  BY <1>5, <1>a, <1>b, <1>2 DEF Dsp!DspDeinit, OwnedOpen
<1> QED BY <1>3, <1>4, <1>5 DEF Dsp!Next

(* On Windows the handle is there with the library it came from, and goes   *)
(* with it.                                                                 *)
LEMMA DspDeinitializedIs ==
  ASSUME lib = "dsp_windows", NEW m, NEW R \in SUBSET DspThings,
         Dangling(m, R, {"symbols"}, {}), {"library", "symbols"} \subseteq R
  PROVE  \E Q \in {{}, {"library", "symbols"}} :
           /\ Dangling(Dsp!Deinitialized(m), Q, {"symbols"}, {})
           /\ "handle" \in R => Q = {}
<1>0. ASSUME NEW n, NEW Q, NEW S, Dangling(n, Q, {"symbols"}, {}), "symbols" \in S => "symbols" \in Q
      PROVE  Dangling(Release(n, S), Q \ S, {"symbols"}, {})
  <2>1. {} \cup (({"symbols"} \cap S) \ Q) \subseteq {}
    BY <1>0
  <2> QED BY <1>0, <2>1, ReleaseDangling, MoreDangling
<1>1. "symbols" \in m.set /\ ("handle" \in m.set <=> "handle" \in R)
  BY FieldsDangling
<1>2. Dangling(Release(m, {"data"}), R \ {"data"}, {"symbols"}, {})
  BY <1>0
<1>3. Dsp!Freed(m) = Release(m, {"data"})
  BY <1>1, DspMemory DEF Dsp!Freed
<1>4. "handle" \in Dsp!Freed(m).set <=> "handle" \in R
  BY <1>2, <1>3, FieldsDangling
<1>5. CASE "handle" \notin R
  <2>1. Dsp!Deinitialized(m) = Release(m, {"data"})
    BY <1>3, <1>4, <1>5 DEF Dsp!Deinitialized
  <2>2. R \ {"data"} = {"library", "symbols"}
    BY <1>5 DEF DspThings
  <2> QED BY <1>2, <1>5, <2>1, <2>2
<1>6. CASE "handle" \in R
  <2>1. Dangling(Release(Release(m, {"data"}), {"handle"}), (R \ {"data"}) \ {"handle"},
                 {"symbols"}, {})
    BY <1>0, <1>2
  <2>2. (R \ {"data"}) \ {"handle"} = {"library", "symbols"}
    BY DEF DspThings
  <2>3. Dangling(Release(Release(Release(m, {"data"}), {"handle"}), {"library", "symbols"}),
                 {"library", "symbols"} \ {"library", "symbols"}, {"symbols"}, {})
    BY <1>0, <2>1, <2>2
  <2>4. {"library", "symbols"} \ {"library", "symbols"} = {}
    OBVIOUS
  <2>5. Dsp!Deinitialized(m) =
          Release(Release(Release(m, {"data"}), {"handle"}), {"library", "symbols"})
    BY <1>3, <1>4, <1>6, DspMemory DEF Dsp!Deinitialized, Dsp!Unloaded
  <2> QED BY <2>3, <2>4, <2>5
<1> QED BY <1>5, <1>6

(* That of Windows may keep the driver and its symbols when it could not be *)
(* opened.                                                                  *)
LEMMA DspWindowsOwns ==
  ASSUME lib = "dsp_windows", DspInv, Dsp!Next
  PROVE  DspInv'
<1> USE DEF Dsp!Answer, Dsp!Opened, Dsp!Emptied, Dsp!Failed, Dsp!Closed, Dsp!PastEnd, Dsp!Used
<1>a. PICK R \in {{}, {"library", "symbols"}, DspThings} :
        /\ Dangling(mem, R, {"symbols"}, {}) /\ (isOpen <=> R = DspThings)
        /\ ~isOpen /\ answer[1] = "close" => R = {}
  BY DEF DspInv
<1>b. ASSUME UNCHANGED lib, NEW Q \in {{}, {"library", "symbols"}, DspThings},
             Dangling(mem', Q, {"symbols"}, {}), isOpen' <=> Q = DspThings,
             ~isOpen' /\ answer'[1] = "close" => Q = {}
      PROVE  DspInv'
  BY <1>b DEF DspInv
<1>c. ASSUME UNCHANGED lib, ~isOpen', NEW Q \in {{}, {"library", "symbols"}},
             Dangling(mem', Q, {"symbols"}, {}), answer'[1] # "close" \/ Q = {}
      PROVE  DspInv'
  <2>1. Q # DspThings
    BY DEF DspThings
  <2> QED BY <1>b, <1>c, <2>1
<1>1. CASE Dsp!DspInit
  <2>0. R \in {{}, {"library", "symbols"}}
    BY <1>1, <1>a DEF Dsp!DspInit
  <2>1. PICK s \in Dsp!Loaded(mem) :
          IF ~s.ok THEN Dsp!Failed(s.m)
          ELSE \/ Dsp!Failed(Dsp!Deinitialized(s.m))
               \/ Dsp!Failed(Dsp!Deinitialized(Dsp!Take(s.m, "handle")))
               \/ Dsp!Opened(Dsp!TakeAll(s.m, {"handle", "data"}), Dsp!NoSize)
    BY <1>1 DEF Dsp!DspInit
  <2>2. \/ ~s.ok /\ Dangling(s.m, R, {"symbols"}, {})
        \/ s.ok /\ Dangling(s.m, {"library", "symbols"}, {"symbols"}, {})
    <3>1. CASE "library" \in mem.set
      <4>1. R = {"library", "symbols"}
        BY <2>0, <3>1, <1>a, FieldsDangling
      <4> QED BY <3>1, <4>1, <1>a DEF Dsp!Loaded
    <3>2. CASE "library" \notin mem.set
      <4>1. R = {}
        BY <2>0, <3>2, <1>a, FieldsDangling
      <4>2. CASE s = [m |-> mem, ok |-> FALSE]
        BY <1>a, <4>2
      <4>3. CASE s = [m |-> [mem EXCEPT !.set = @ \cup {"symbols"}], ok |-> FALSE]
        <5>1. PICK P : mem = Memory(R, P, {}, {}, {}) /\ R \subseteq P
                   /\ P \ {"symbols"} \subseteq R
          <6>1. PICK P, t : /\ mem = Memory(R, P, {}, t, {}) /\ R \subseteq P
                            /\ P \ {"symbols"} \subseteq R /\ t \subseteq {}
            BY <1>a DEF Dangling
          <6>2. t = {}
            BY <6>1
          <6> QED BY <6>1, <6>2
        <5>2. s.m = Memory(R, P \cup {"symbols"}, {}, {}, {})
          BY <4>3, <5>1 DEF Memory
        <5>3. R \subseteq P \cup {"symbols"} /\ (P \cup {"symbols"}) \ {"symbols"} \subseteq R
          BY <5>1
        <5>4. Dangling(s.m, R, {"symbols"}, {})
          BY <5>2, <5>3 DEF Dangling
        <5> QED BY <4>3, <5>4
      <4>4. CASE s = [m |-> TakeAll(mem, {"library", "symbols"}), ok |-> TRUE]
        <5>1. Dangling(s.m, R \cup {"library", "symbols"}, {"symbols"}, {})
          BY <1>a, <4>1, <4>4, TakeDangling
        <5>2. R \cup {"library", "symbols"} = {"library", "symbols"}
          BY <4>1
        <5> QED BY <4>4, <5>1, <5>2
      <4> QED BY <2>1, <3>2, <4>2, <4>3, <4>4, DspMemory DEF Dsp!Loaded
    <3> QED BY <3>1, <3>2
  <2>3. CASE ~s.ok
    BY <1>c, <2>0, <2>1, <2>2, <2>3
  <2>4. CASE s.ok
    <3>1. Dangling(s.m, {"library", "symbols"}, {"symbols"}, {})
      BY <2>2, <2>4
    <3>2. Dangling(TakeAll(s.m, {"handle"}), {"library", "symbols"} \cup {"handle"}, {"symbols"},
                   {})
      BY <3>1, TakeDangling
    <3>3. Dangling(TakeAll(s.m, {"handle", "data"}), {"library", "symbols"} \cup {"handle", "data"},
                   {"symbols"}, {})
      BY <3>1, TakeDangling
    <3>4. {"library", "symbols"} \cup {"handle", "data"} = DspThings /\
          {"library", "symbols"} \cup {"handle"} \in SUBSET DspThings /\
          {"library", "symbols"} \in SUBSET DspThings
      BY DEF DspThings
    <3>5. CASE Dsp!Failed(Dsp!Deinitialized(s.m))
      <4>1. PICK Q \in {{}, {"library", "symbols"}} :
              Dangling(Dsp!Deinitialized(s.m), Q, {"symbols"}, {})
        BY <3>1, <3>4, DspDeinitializedIs
      <4> QED BY <1>c, <3>5, <4>1
    <3>6. CASE Dsp!Failed(Dsp!Deinitialized(Dsp!Take(s.m, "handle")))
      <4>1. PICK Q \in {{}, {"library", "symbols"}} :
              Dangling(Dsp!Deinitialized(TakeAll(s.m, {"handle"})), Q, {"symbols"}, {})
        BY <3>2, <3>4, DspDeinitializedIs
      <4> QED BY <1>c, <3>6, <4>1, DspMemory
    <3>7. CASE Dsp!Opened(Dsp!TakeAll(s.m, {"handle", "data"}), Dsp!NoSize)
      BY <1>b, <3>3, <3>4, <3>7, DspMemory
    <3> QED BY <2>1, <2>4, <3>5, <3>6, <3>7
  <2> QED BY <2>3, <2>4
<1>2. CASE Dsp!DspGetProfData
  BY <1>2, <1>a, <1>b DEF Dsp!DspGetProfData
<1>3. CASE Dsp!DspDeinit
  <2>1. R = DspThings
    BY <1>3, <1>a DEF Dsp!DspDeinit
  <2>2. {"library", "symbols"} \subseteq DspThings
    BY DEF DspThings
  <2>3. Dangling(Dsp!Deinitialized(mem), {}, {"symbols"}, {})
    <3>1. "handle" \in DspThings
      BY DEF DspThings
    <3> QED BY <1>a, <2>1, <2>2, <3>1, DspDeinitializedIs
  <2> QED BY <1>3, <1>c, <2>3 DEF Dsp!DspDeinit
<1> QED BY <1>1, <1>2, <1>3 DEF Dsp!Next

IoctlInv == lib = "ioctl" => OwnedOpen({"handle"})

(* The instance's operators are the module's own.                           *)
LEMMA IoctlMemory ==
  \A m, S :
    /\ Ioctl!Take(m, S) = TakeAll(m, {S})
    /\ Ioctl!Release(m, S) = Release(m, S)
BY DEF Ioctl!TakeAll, Ioctl!Take, Ioctl!Release, Ioctl!Close, Ioctl!Null,
   TakeAll, Release, Close, Null

(* A handle is owned while it is open.                                      *)
LEMMA IoctlOwns ==
  ASSUME lib = "ioctl", IoctlInv, Ioctl!Next
  PROVE  IoctlInv'
<1> USE DEF IoctlInv, OwnedOpen, Ioctl!Answer, Ioctl!Opened, Ioctl!Emptied, Ioctl!Failed,
        Ioctl!Closed, Ioctl!PastEnd, Ioctl!Used, Ioctl!FreeHandle
<1>0. \A R \in {{}, {"handle"}} : Release(Owned(R), {"handle"}) = Owned({})
  BY ReleaseOwned
<1>1. Ioctl!FreeHandle(mem) = Owned({}) /\ Ioctl!FreeHandle(Owned({})) = Owned({})
  BY <1>0, IoctlMemory
<1>2. Ioctl!Take(Owned({}), "handle") = Owned({"handle"})
  BY TakeOwned, IoctlMemory
<1>3. CASE Ioctl!GetDeviceHandle
  BY <1>1, <1>2, <1>3 DEF Ioctl!GetDeviceHandle
<1>4. CASE Ioctl!FreeDeviceHandle
  BY <1>1, <1>4 DEF Ioctl!FreeDeviceHandle
<1> QED BY <1>3, <1>4 DEF Ioctl!Next

CvInv ==
  /\ lib = "cv_windows" => OwnedOpen(Cv!Pair)
  /\ lib = "cv_linux" => \E l \in SUBSET Cv!Pair :
       /\ mem = LET R == IF isOpen THEN Cv!Pair ELSE {} IN Memory(R, R, l, {}, {})
       /\ l # {} => answer = Failing

(* The instance's operators are the module's own.                           *)
LEMMA CvMemory ==
  \A m, S :
    /\ Cv!TakeAll(m, S) = TakeAll(m, S) /\ Cv!TakeSome(m, S) = TakeSome(m, S)
    /\ Cv!Release(m, S) = Release(m, S) /\ Cv!Null(m, S) = Null(m, S)
BY DEF Cv!TakeAll, Cv!TakeSome, Cv!Release, Cv!Close, Cv!Null,
   TakeAll, TakeSome, Release, Close, Null

(* The condition variable of Windows owns its pair while it exists.         *)
LEMMA CvWindowsOwns ==
  ASSUME lib = "cv_windows", CvInv, Cv!Next
  PROVE  CvInv'
<1> USE DEF Cv!Answer, Cv!Opened, Cv!Emptied, Cv!Failed, Cv!Closed, Cv!PastEnd, Cv!Used,
        Cv!Waiting
<1>0. OwnedOpen(Cv!Pair)
  BY DEF CvInv
<1>a. ASSUME UNCHANGED lib, OwnedOpen(Cv!Pair)' PROVE CvInv'
  BY <1>a DEF CvInv
<1>1. CASE Cv!CvCreate
  <2>1. mem = Owned({}) /\ UNCHANGED lib
    BY <1>0, <1>1 DEF OwnedOpen, Cv!CvCreate
  <2>2. ASSUME NEW some \in TakeSome(mem, Cv!Pair)
        PROVE  Release(some, Cv!Pair) = Owned({})
    <3>1. PICK G \in SUBSET Cv!Pair : some = TakeAll(mem, G)
      BY DEF TakeSome
    <3>2. some = Owned({} \cup G)
      BY <2>1, <3>1, TakeOwned
    <3>3. ({} \cup G) \ Cv!Pair = {}
      BY <3>1
    <3> QED BY <3>2, <3>3, ReleaseOwned
  <2>3. TakeAll(mem, Cv!Pair) = Owned(Cv!Pair)
    BY <2>1, TakeOwned
  <2>4. CASE ~isOpen' /\ \E some \in TakeSome(mem, Cv!Pair) : mem' = Release(some, Cv!Pair)
    BY <1>a, <2>1, <2>2, <2>4 DEF OwnedOpen
  <2>5. CASE isOpen' /\ mem' = TakeAll(mem, Cv!Pair)
    BY <1>a, <2>1, <2>3, <2>5 DEF OwnedOpen
  <2> QED BY <1>1, <2>4, <2>5, CvMemory DEF Cv!CvCreate, Cv!Undone
<1>2. CASE Cv!CvWait \/ Cv!CvTimeout \/ Cv!CvNotify \/ Cv!CvNotifyAll
  BY <1>2, <1>0, <1>a DEF Cv!CvWait, Cv!CvTimeout, Cv!CvNotify, Cv!CvNotifyAll, OwnedOpen
<1>3. CASE Cv!CvDestroy
  <2>1. Cv!Pair \ Cv!Pair = {}
    OBVIOUS
  <2> QED BY <1>3, <1>0, <1>a, <2>1, ReleaseOwned, CvMemory DEF Cv!CvDestroy, OwnedOpen
<1> QED BY <1>1, <1>2, <1>3 DEF Cv!Next

(* A failed create of Linux keeps no pointer, and loses what it had.        *)
LEMMA CvUndoneIs ==
  ASSUME lib = "cv_linux", NEW G \in SUBSET Cv!Pair
  PROVE  Cv!Undone(TakeAll(Owned({}), G)) = Memory({}, {}, G, {}, {})
<1>1. TakeAll(Owned({}), G) = Owned(G)
  <2>1. {} \cup G = G /\ {} \cap G = {}
    OBVIOUS
  <2> QED BY <2>1, TakeOwned
<1>2. G \ Cv!Pair = {} /\ {} \cup (G \cap Cv!Pair) = G
  OBVIOUS
<1> DEFINE n == Null(Owned(G), Cv!Pair)
<1>3. n = Memory(G, {}, {}, {}, {})
  BY <1>2, NullIs DEF Owned
<1>4. n \in [held : {G}, set : {{}}, lost : {{}}, misfreed : {{}}, overrun : {{}}]
      /\ n.held = G /\ n.lost = {}
  BY <1>3 DEF Memory
<1> HIDE DEF n
<1> DEFINE u == [n EXCEPT !.held = @ \ Cv!Pair, !.lost = @ \cup (G \cap Cv!Pair)]
<1>5. u \in [held : {{}}, set : {{}}, lost : {G}, misfreed : {{}}, overrun : {{}}]
  BY <1>2, <1>4
<1> HIDE DEF u
<1>6. u = Memory({}, {}, G, {}, {})
  BY <1>5, MemoryIs
<1>7. Owned(G).held = G
  BY FieldsAre DEF Owned
<1>8. Cv!Undone(Owned(G)) = u
  BY <1>7, CvMemory DEF Cv!Undone, n, u
<1> QED BY <1>1, <1>6, <1>8

(* That of Linux owns its pair too, and loses what a failed create had.     *)
LEMMA CvLinuxOwns ==
  ASSUME lib = "cv_linux", CvInv, Sound, Cv!Next
  PROVE  CvInv'
<1> USE DEF Cv!Answer, Cv!Opened, Cv!Emptied, Cv!Failed, Cv!Closed, Cv!PastEnd, Cv!Used,
        Cv!Waiting
<1>0. OwnedOpen(Cv!Pair)
  <2>1. PICK l : mem = LET R == IF isOpen THEN Cv!Pair ELSE {} IN Memory(R, R, l, {}, {})
    BY DEF CvInv
  <2>2. l = {}
    BY <2>1, FieldsAre DEF Sound
  <2> QED BY <2>1, <2>2 DEF OwnedOpen, Owned
<1>a. ASSUME UNCHANGED lib, OwnedOpen(Cv!Pair)' PROVE CvInv'
  BY <1>a DEF CvInv, OwnedOpen, Owned
<1>1. CASE Cv!CvCreate
  <2>1. mem = Owned({}) /\ UNCHANGED lib
    BY <1>0, <1>1 DEF OwnedOpen, Cv!CvCreate
  <2>2. ASSUME NEW G \in SUBSET Cv!Pair, Cv!Failed(Cv!Undone(TakeAll(mem, G)))
        PROVE  CvInv'
    <3>1. mem' = Memory({}, {}, G, {}, {})
      BY <2>1, <2>2, CvUndoneIs
    <3> QED BY <2>2, <3>1 DEF CvInv, Failing
  <2>3. CASE isOpen' /\ mem' = TakeAll(mem, Cv!Pair)
    BY <1>a, <2>1, <2>3, TakeOwned DEF OwnedOpen
  <2>4. \A some \in TakeSome(mem, Cv!Pair) : \E G \in SUBSET Cv!Pair : some = TakeAll(mem, G)
    BY DEF TakeSome
  <2>5. CASE \E some \in TakeSome(mem, Cv!Pair) : Cv!Failed(Cv!Undone(some))
    BY <2>2, <2>4, <2>5
  <2>6. CASE Cv!Failed(Cv!Undone(TakeAll(mem, Cv!Pair)))
    BY <2>2, <2>6
  <2> QED BY <1>1, <2>3, <2>5, <2>6, CvMemory DEF Cv!CvCreate
<1>2. CASE Cv!CvWait \/ Cv!CvTimeout \/ Cv!CvNotify \/ Cv!CvNotifyAll
  BY <1>2, <1>0, <1>a DEF Cv!CvWait, Cv!CvTimeout, Cv!CvNotify, Cv!CvNotifyAll, OwnedOpen
<1>3. CASE Cv!CvDestroy
  <2>1. Cv!Pair \ Cv!Pair = {}
    OBVIOUS
  <2> QED BY <1>3, <1>0, <1>a, <2>1, ReleaseOwned, CvMemory DEF Cv!CvDestroy, OwnedOpen
<1> QED BY <1>1, <1>2, <1>3 DEF Cv!Next

MetricInv ==
  /\ lib = "linux_cpu_metrics" => OwnedOpen(Metric!Table)
  /\ lib = "wos_power_metrics" => \E R \in {{}, Metric!Table} :
       /\ mem = Owned(R) /\ (isOpen => R = Metric!Table)
       /\ ~isOpen /\ answer # <<"open", "failed">> => R = {}
  /\ lib = "wos_thermal_metrics" => \E o \in {{}, {"metrics"}} :
       mem = Memory({}, {}, {}, {}, o) /\ (o # {} => MaxZones > KnownZones /\ ~isOpen)

(* The instance's operators are the module's own.                           *)
LEMMA MetricMemory ==
  \A m, S :
    /\ Metric!TakeAll(m, S) = TakeAll(m, S) /\ Metric!Overrun(m, S) = Overrun(m, S)
    /\ Metric!Release(m, S) = Release(m, S)
BY DEF Metric!TakeAll, Metric!Take, Metric!Release, Metric!Close, Metric!Null, Metric!Overrun,
   TakeAll, Release, Close, Null, Overrun

(* qcom-linux-cpu owns its tables while it is open.                         *)
LEMMA LinuxCpuOwns ==
  ASSUME lib = "linux_cpu_metrics", MetricInv, Metric!Next
  PROVE  MetricInv'
<1> USE DEF Metric!Answer, Metric!Opened, Metric!Emptied, Metric!Failed, Metric!Closed,
        Metric!PastEnd, Metric!Used, Metric!OpenFails, Metric!Delivers, Metric!MayOpen,
        Metric!MayClose, OwnedOpen
<1>0. OwnedOpen(Metric!Table)
  BY DEF MetricInv
<1>a. ASSUME UNCHANGED lib, OwnedOpen(Metric!Table)' PROVE MetricInv'
  BY <1>a DEF MetricInv
<1>b. Metric!Table \ Metric!Table = {} /\ {} \ Metric!Table = {}
  OBVIOUS
<1>1. CASE Metric!LinuxCpuInit
  <2>1. mem = Owned({}) /\ TakeAll(mem, Metric!Table) = Owned(Metric!Table)
    BY <1>0, <1>1, TakeOwned DEF Metric!LinuxCpuInit
  <2>2. Release(Owned(Metric!Table), Metric!Table) = Owned({})
    BY <1>b, ReleaseOwned
  <2>3. \/ Metric!Failed(mem)
        \/ Metric!Failed(Metric!Release(Metric!TakeAll(mem, Metric!Table), Metric!Table))
        \/ \E s : Metric!Opened(Metric!TakeAll(mem, Metric!Table), s)
    BY <1>1 DEF Metric!LinuxCpuInit
  <2> QED BY <1>a, <2>1, <2>2, <2>3, MetricMemory
<1>2. CASE Metric!LinuxCpuBatch \/ Metric!Start
  <2>1. UNCHANGED <<lib, isOpen, mem>>
    BY <1>2 DEF Metric!LinuxCpuBatch, Metric!Start
  <2> QED BY <1>0, <1>a, <2>1
<1>3. CASE Metric!Deinit
  <2>1. Release(mem, Metric!Table) = Owned({})
    BY <1>0, <1>b, ReleaseOwned
  <2> QED BY <1>3, <1>a, <2>1, MetricMemory DEF Metric!Deinit
<1> QED BY <1>1, <1>2, <1>3
        DEF Metric!Next, Metric!WosPowerInit, Metric!WosPowerBatch, Metric!WosThermalInit,
            Metric!WosThermalBatch

(* wos-power keeps them when an open fails, until the close that follows.   *)
LEMMA WosPowerOwns ==
  ASSUME lib = "wos_power_metrics", MetricInv, Metric!Next
  PROVE  MetricInv'
<1> USE DEF Metric!Answer, Metric!Opened, Metric!Emptied, Metric!Failed, Metric!Closed,
        Metric!PastEnd, Metric!Used, Metric!OpenFails, Metric!Delivers, Metric!MayOpen,
        Metric!MayClose
<1>0. PICK R \in {{}, Metric!Table} :
        /\ mem = Owned(R) /\ (isOpen => R = Metric!Table)
        /\ ~isOpen /\ answer # <<"open", "failed">> => R = {}
  BY DEF MetricInv
<1>b. R \ Metric!Table = {}
  OBVIOUS
<1>1. CASE Metric!WosPowerInit
  <2>1. mem = Owned({}) /\ TakeAll(mem, Metric!Table) = Owned(Metric!Table)
    BY <1>0, <1>1, TakeOwned DEF Metric!WosPowerInit
  <2>2. \/ Metric!Failed(mem) \/ Metric!Failed(Metric!TakeAll(mem, Metric!Table))
        \/ \E s : Metric!Opened(Metric!TakeAll(mem, Metric!Table), s)
    BY <1>1 DEF Metric!WosPowerInit
  <2>3. UNCHANGED lib /\ (mem' = Owned({}) \/ mem' = Owned(Metric!Table))
        /\ (isOpen' => mem' = Owned(Metric!Table)) /\ (~isOpen' => answer' = <<"open", "failed">>)
    BY <2>1, <2>2, MetricMemory
  <2> QED BY <2>3 DEF MetricInv
<1>2. CASE Metric!WosPowerBatch \/ Metric!Start
  <2>1. UNCHANGED <<lib, isOpen, mem>> /\ isOpen
    BY <1>2 DEF Metric!WosPowerBatch, Metric!Start
  <2> QED BY <1>0, <2>1 DEF MetricInv
<1>3. CASE Metric!Deinit
  <2>1. mem' = Owned({}) /\ ~isOpen' /\ UNCHANGED lib
    BY <1>3, <1>0, <1>b, ReleaseOwned, MetricMemory DEF Metric!Deinit
  <2> QED BY <2>1 DEF MetricInv
<1> QED BY <1>1, <1>2, <1>3
        DEF Metric!Next, Metric!LinuxCpuInit, Metric!LinuxCpuBatch, Metric!WosThermalInit,
            Metric!WosThermalBatch

(* The zones that have a name: finitely many, and no more than there are.   *)
(* The instance has a copy of Cardinality too.                              *)
LEMMA SameCardinality == \A S : Metric!Cardinality(S) = Cardinality(S)
BY DEF Metric!Cardinality, Cardinality

Named(f) == {z \in DOMAIN f : f[z] # {Metric!NoMetric}}

(* The zones that have a name: no more than there are.                      *)
LEMMA KnownCount ==
  ASSUME NEW f \in Metric!ZoneMaps
  PROVE  Metric!Cardinality(Named(f)) \in Nat /\ Metric!Cardinality(Named(f)) <= MaxZones
<1> DEFINE known == Named(f)
<1>1. PICK zones \in 0 .. MaxZones : DOMAIN f = 1 .. zones
  BY DEF Metric!ZoneMaps
<1>2. zones \in Nat /\ zones <= MaxZones /\ MaxZones \in Nat
  BY SizesAssumption
<1>3. IsFiniteSet(1 .. zones) /\ Cardinality(1 .. zones) = zones
  <2>1. 1 \in Int /\ zones \in Int /\ (IF 1 > zones THEN 0 ELSE zones - 1 + 1) = zones
    BY <1>2
  <2> QED BY <2>1, FS_Interval
<1>4. Cardinality(known) <= zones /\ IsFiniteSet(known)
  BY <1>1, <1>3, FS_Subset DEF Named
<1>5. Cardinality(known) \in Nat
  BY <1>4, FS_CardinalityType
<1> QED BY <1>2, <1>4, <1>5, SameCardinality

(* wos-thermal owns nothing, and fills its list past the end with more      *)
(* zones than names.                                                        *)
LEMMA WosThermalOwns ==
  ASSUME lib = "wos_thermal_metrics", MetricInv, Sound, Metric!Next
  PROVE  MetricInv'
<1> USE DEF Metric!Answer, Metric!Opened, Metric!Emptied, Metric!Failed, Metric!Closed,
        Metric!PastEnd, Metric!Used, Metric!OpenFails, Metric!Delivers, Metric!MayOpen,
        Metric!MayClose
<1>0. mem = Owned({})
  <2>1. PICK o : mem = Memory({}, {}, {}, {}, o)
    BY DEF MetricInv
  <2>2. o = {}
    BY <2>1, FieldsAre DEF Sound
  <2> QED BY <2>1, <2>2 DEF Owned
<1>a. ASSUME UNCHANGED <<lib, mem>> PROVE MetricInv'
  BY <1>0, <1>a DEF MetricInv, Owned
<1>1. CASE Metric!WosThermalInit
  <2>1. CASE mem' = mem
    BY <1>1, <1>a, <2>1 DEF Metric!WosThermalInit
  <2>2. CASE mem' # mem
    <3>0. ~Metric!OpenFails(mem) /\ \A s : ~Metric!Opened(mem, s)
      BY <2>2
    <3>1. \E m \in Metric!ZoneMaps :
            \/ Metric!Cardinality(Named(m)) > KnownZones /\ Metric!PastEnd("metrics")
            \/ \E s : Metric!Opened(mem, s)
      <4> HIDE DEF Metric!OpenFails, Metric!Opened, Metric!PastEnd
      <4> QED BY <1>1, <3>0 DEF Metric!WosThermalInit, Named
    <3>2. PICK m \in Metric!ZoneMaps :
            Metric!Cardinality(Named(m)) > KnownZones /\ Metric!PastEnd("metrics")
      BY <3>0, <3>1
    <3>3. MaxZones > KnownZones
      <4>1. Metric!Cardinality(Named(m)) \in Nat /\ Metric!Cardinality(Named(m)) <= MaxZones
        BY KnownCount
      <4> QED BY <3>2, <4>1, SizesAssumption
    <3>4. mem' = Memory({}, {}, {}, {}, {"metrics"})
      BY <1>0, <3>2, OverrunIs, MetricMemory DEF Owned
    <3>5. UNCHANGED lib /\ ~isOpen'
      BY <1>1, <3>2 DEF Metric!WosThermalInit
    <3> QED BY <3>3, <3>4, <3>5 DEF MetricInv
  <2> QED BY <2>1, <2>2
<1>2. CASE Metric!WosThermalBatch \/ Metric!Start
  BY <1>2, <1>a DEF Metric!WosThermalBatch, Metric!Start
<1>3. CASE Metric!Deinit
  <2>1. {} \ Metric!Table = {}
    OBVIOUS
  <2>2. Release(mem, Metric!Table) = mem
    BY <1>0, <2>1, ReleaseOwned
  <2> QED BY <1>3, <1>a, <2>2, MetricMemory DEF Metric!Deinit
<1> QED BY <1>1, <1>2, <1>3
        DEF Metric!Next, Metric!LinuxCpuInit, Metric!LinuxCpuBatch, Metric!WosPowerInit,
            Metric!WosPowerBatch

(* What linux-thermal holds: its lists, and of a discovered side the nodes  *)
(* of the slots that its domains have.                                      *)
Held(R) ==
  /\ \A r \in R : r[3] \in {"metrics", "block", "values", "nodes", "file"}
  /\ \A r \in R : r[3] = "file" => /\ r[1] \in discovered
                                   /\ r[4] <= len[<<r[1], r[2]>>]
ThermalTypes == len \in [Domain -> 0 .. MaxNames] /\ discovered \subseteq Side
ThermalInv == lib = "linux_thermal" =>
  /\ ThermalTypes /\ (~isOpen => discovered = {})
  /\ \E R : mem = Owned(R) /\ (~isOpen => R = {}) /\ Held(R)

(* A bound is kept.                                                         *)
LEMMA AtMostIs ==
  ASSUME NEW n \in Nat, NEW bound \in Nat
  PROVE  AtMost(n, bound) \in Nat /\ AtMost(n, bound) <= bound
BY DEF AtMost

(* A count is a number.                                                     *)
LEMMA CountedIs ==
  ASSUME NEW seen \in SUBSET Entry, NEW d
  PROVE  Counted(seen, d) \in Nat
<1>1. IsFiniteSet({e \in seen : Home(e) = d})
  BY EntryAssumption, FS_Subset
<1> QED BY <1>1, FS_CardinalityType DEF Counted

(* A memory without things needs nothing discovered.                        *)
LEMMA NothingHeld == Held({}) /\ Held({})'
BY DEF Held

(* An open holds its lists, or nothing.                                     *)
LEMMA ThermalInitOwns ==
  ASSUME lib = "linux_thermal", ThermalInv, LibInit
  PROVE  ThermalInv'
<1> USE DEF Answer, Opened, Emptied, Failed
<1>0. PICK R : mem = Owned(R) /\ (~isOpen => R = {}) /\ Held(R)
  BY DEF ThermalInv
<1>1. CASE UNCHANGED <<lib, isOpen, mem, thermal>>
  <2>1. UNCHANGED <<len, discovered>>
    BY <1>1 DEF thermal
  <2> QED BY <1>1, <2>1 DEF ThermalInv, ThermalTypes, Held
<1>2. CASE ~isOpen /\ ~isOpen' /\ UNCHANGED lib /\ mem' = Owned({}) /\ UNCHANGED thermal
  <2>1. UNCHANGED <<len, discovered>>
    BY <1>2 DEF thermal
  <2> QED BY <1>2, <2>1, NothingHeld DEF ThermalInv, ThermalTypes
<1>3. ASSUME NEW some \in TakeSome(mem, Metrics), ~isOpen
      PROVE  Release(some, Metrics) = Owned({})
  <2>1. PICK G \in SUBSET Metrics : some = TakeAll(Owned({}), G)
    BY <1>0, <1>3 DEF TakeSome
  <2>2. some = Owned({} \cup G) /\ {} \cup G = G /\ G \ Metrics = {}
    BY <2>1, TakeOwned
  <2> QED BY <2>2, ReleaseOwned
<1>4. ASSUME NEW seen \in SUBSET Entry, NEW n, NEW S,
             n = [d \in Domain |-> AtMost(Counted(seen, d), MaxNames)],
             \A r \in S : r[3] \in {"metrics", "block", "values", "nodes"},
             ~isOpen, Opened(TakeAll(mem, S), NoSize), len' = n, UNCHANGED discovered
      PROVE  ThermalInv'
  <2>1. mem' = Owned(S)
    <3>1. {} \cup S = S /\ {} \cap S = {}
      OBVIOUS
    <3> QED BY <1>0, <1>4, <3>1, TakeOwned
  <2>2. \A d \in Domain : AtMost(Counted(seen, d), MaxNames) \in 0 .. MaxNames
    <3>1. ASSUME NEW d \in Domain PROVE AtMost(Counted(seen, d), MaxNames) \in 0 .. MaxNames
      <4>1. Counted(seen, d) \in Nat /\ MaxNames \in Nat
        BY CountedIs, EntryAssumption
      <4>2. AtMost(Counted(seen, d), MaxNames) \in Nat
            /\ AtMost(Counted(seen, d), MaxNames) <= MaxNames
        BY <4>1, AtMostIs
      <4> QED BY <4>1, <4>2
    <3> QED BY <3>1
  <2>3. ThermalTypes'
    BY <1>4, <2>2 DEF ThermalInv, ThermalTypes
  <2>4. Held(S)'
    BY <1>4 DEF Held
  <2>5. UNCHANGED lib /\ isOpen'
    BY <1>4
  <2> QED BY <2>1, <2>3, <2>4, <2>5 DEF ThermalInv
<1>5. CASE ~isOpen
  <2>1. CASE Failed(mem) /\ UNCHANGED thermal
    BY <1>0, <1>2, <1>5, <2>1
  <2>2. ASSUME NEW some \in TakeSome(mem, Metrics), Failed(Release(some, Metrics)),
               UNCHANGED thermal
        PROVE  ThermalInv'
    BY <1>2, <1>3, <1>5, <2>2
  <2>3. ASSUME NEW seen \in SUBSET Entry, NEW n, NEW some,
               n = [d \in Domain |-> AtMost(Counted(seen, d), MaxNames)],
               \E poor \in SUBSET Parts(some, {"values", "nodes"}) :
                 /\ Opened(TakeAll(mem, Metrics \cup
                             (Parts(some, {"block", "values", "nodes"}) \ poor)),
                           NoSize)
                 /\ len' = n /\ UNCHANGED discovered
        PROVE  ThermalInv'
    <3>1. PICK poor \in SUBSET Parts(some, {"values", "nodes"}) :
                 /\ Opened(TakeAll(mem, Metrics \cup
                             (Parts(some, {"block", "values", "nodes"}) \ poor)),
                           NoSize)
                 /\ len' = n /\ UNCHANGED discovered
      BY <2>3
    <3> DEFINE S == Metrics \cup
                      (Parts(some, {"block", "values", "nodes"}) \ poor)
    <3>2. \A r \in S : r[3] \in {"metrics", "block", "values", "nodes"}
      BY DEF Metrics, Parts, Part
    <3>3. Opened(TakeAll(mem, S), NoSize)
      BY <3>1
    <3> HIDE DEF S
    <3> QED BY <1>4, <1>5, <2>3, <3>1, <3>2, <3>3
  <2>4. \/ Failed(mem) /\ UNCHANGED thermal
        \/ \E some \in TakeSome(mem, Metrics) : Failed(Release(some, Metrics)) /\ UNCHANGED thermal
        \/ \E seen \in SUBSET Entry :
             LET n == [d \in Domain |-> AtMost(Counted(seen, d), MaxNames)]
                 some == {d \in Domain : n[d] > 0}
             IN \E poor \in SUBSET Parts(some, {"values", "nodes"}) :
                  /\ Opened(TakeAll(mem, Metrics \cup
                              (Parts(some, {"block", "values", "nodes"}) \ poor)),
                            NoSize)
                  /\ len' = n /\ UNCHANGED discovered
    BY <1>5 DEF LibInit
  <2> HIDE DEF Opened, Failed
  <2> QED BY <2>1, <2>2, <2>3, <2>4
<1>6. CASE isOpen
  BY <1>1, <1>6 DEF LibInit
<1> QED BY <1>5, <1>6

(* A side is discovered once, and its slots are enough.                     *)
LEMMA DiscoverOwns ==
  ASSUME lib = "linux_thermal", ThermalInv, NEW side \in Side, Discover(side)
  PROVE  ThermalInv'
<1> USE DEF Answer
<1>0. PICK R : mem = Owned(R) /\ (~isOpen => R = {}) /\ Held(R)
  BY DEF ThermalInv
<1>1. CASE UNCHANGED <<lib, isOpen, mem, thermal>>
  <2>1. UNCHANGED <<len, discovered>>
    BY <1>1 DEF thermal
  <2> QED BY <1>1, <2>1 DEF ThermalInv, ThermalTypes, Held
<1>2. CASE ~isOpen \/ side \in discovered
  BY <1>1, <1>2 DEF Discover
<1>3. CASE isOpen /\ side \notin discovered
  <2>1. PICK found \in SUBSET {e \in Entry : SideOf[e] = side} :
          LET nodes == {d \in Domain : d[1] = side /\ Part(d, "nodes") \in mem.held}
              files == UNION {{File(d, i) : i \in 1 .. Slots(found, d)} : d \in nodes}
              m == IF \A d \in nodes : Slots(found, d) <= len[d] THEN mem
                   ELSE Overrun(mem, "nodes")
          IN \E opened \in SUBSET files :
               /\ mem' = TakeAll(m, opened) /\ answer' = <<"use", "success">>
               /\ discovered' = discovered \cup {side}
               /\ UNCHANGED <<lib, isOpen, size, len>>
    BY <1>3 DEF Discover
  <2> DEFINE nodes == {d \in Domain : d[1] = side /\ Part(d, "nodes") \in mem.held}
             files == UNION {{File(d, i) : i \in 1 .. Slots(found, d)} : d \in nodes}
  <2>2. \A d \in nodes : Slots(found, d) \in Nat /\ Slots(found, d) <= len[d]
    <3>1. ASSUME NEW d \in nodes PROVE Slots(found, d) \in Nat /\ Slots(found, d) <= len[d]
      <4>1. Counted(found, d) \in Nat /\ len[d] \in Nat
        BY CountedIs, EntryAssumption DEF ThermalInv, ThermalTypes
      <4> QED BY <4>1, AtMostIs DEF Slots
    <3> QED BY <3>1
  <2>3. PICK opened \in SUBSET files :
          /\ mem' = TakeAll(mem, opened) /\ discovered' = discovered \cup {side}
          /\ UNCHANGED <<lib, isOpen, len>>
    BY <2>1, <2>2
  <2>4. \A r \in opened : /\ r[3] = "file" /\ r[1] = side
                         /\ r[4] <= len[<<r[1], r[2]>>]
    <3>1. ASSUME NEW r \in opened
          PROVE  r[3] = "file" /\ r[1] = side /\ r[4] <= len[<<r[1], r[2]>>]
      <4>1. PICK d \in nodes : \E i \in 1 .. Slots(found, d) : r = File(d, i)
        OBVIOUS
      <4>2. PICK i \in 1 .. Slots(found, d) : r = File(d, i)
        BY <4>1
      <4>3. r = <<d[1], d[2], "file", i>> /\ d[1] = side
        BY <4>2 DEF File
      <4>4. d = <<d[1], d[2]>>
        BY DEF Domain, Home
      <4>5. i <= len[d]
        <5>1. i \in Nat /\ i <= Slots(found, d) /\ len[d] \in Nat
          BY <2>2 DEF ThermalInv, ThermalTypes
        <5> QED BY <2>2, <5>1
      <4>6. r[1] = d[1] /\ r[2] = d[2] /\ r[3] = "file" /\ r[4] = i
        BY <4>3
      <4> QED BY <4>3, <4>4, <4>5, <4>6
    <3> QED BY <3>1
  <2>5. R \cap opened = {}
    BY <1>0, <1>3, <2>4 DEF Held
  <2>6. mem' = Owned(R \cup opened)
    BY <1>0, <2>3, <2>5, TakeOwned
  <2>7. Held(R \cup opened)'
    BY <1>0, <2>3, <2>4 DEF Held
  <2>8. ThermalTypes'
    BY <2>3 DEF ThermalInv, ThermalTypes
  <2> QED BY <1>3, <2>3, <2>6, <2>7, <2>8 DEF ThermalInv
<1> QED BY <1>2, <1>3

(* A close reaches every node and list.                                     *)
LEMMA CleanupOwns ==
  ASSUME lib = "linux_thermal", ThermalInv, Cleanup
  PROVE  ThermalInv'
<1> USE DEF Answer, Closed, Emptied
<1>0. PICK R : mem = Owned(R) /\ (~isOpen => R = {}) /\ Held(R)
  BY DEF ThermalInv
<1>1. CASE ~isOpen
  <2>1. UNCHANGED <<lib, isOpen, mem, len, discovered>>
    BY <1>1 DEF Cleanup, thermal
  <2> QED BY <2>1 DEF ThermalInv, ThermalTypes, Held
<1>2. CASE isOpen
  <2> DEFINE X == Files(mem) \cup Nodes(mem)
             n == Release(mem, X)
             Y == {r \in n.held : r[3] \in {"metrics", "block", "values"}}
  <2>1. n = Owned(R \ X)
    BY <1>0, ReleaseOwned
  <2>2. n.held = R \ X /\ mem.held = R
    BY <1>0, <2>1, FieldsAre DEF Owned
  <2>3. (R \ X) \ Y = {}
    BY <1>0, <2>2 DEF Held, Files, Nodes
  <2>4. Release(n, Y) = Owned({})
    <3> HIDE DEF n, Y, X
    <3> QED BY <2>1, <2>3, ReleaseOwned
  <2>5. Cleaned(mem) = Release(n, Y)
    BY DEF Cleaned
  <2>6. mem' = Owned({}) /\ ~isOpen' /\ UNCHANGED lib /\ len' = [d \in Domain |-> 0]
        /\ discovered' = {}
    BY <1>2, <2>4, <2>5 DEF Cleanup
  <2>7. 0 \in 0 .. MaxNames
    BY EntryAssumption
  <2>8. ThermalTypes'
    BY <2>6, <2>7 DEF ThermalTypes
  <2> QED BY <2>6, <2>8, NothingHeld DEF ThermalInv
<1> QED BY <1>1, <1>2

(* So linux-thermal owns nothing while it is closed.                        *)
LEMMA ThermalOwns ==
  ASSUME lib = "linux_thermal", ThermalInv, Next
  PROVE  ThermalInv'
<1>1. CASE Info
  <2>1. UNCHANGED <<lib, isOpen, mem, len, discovered>>
    BY <1>1 DEF Info, Answer, thermal
  <2> QED BY <2>1 DEF ThermalInv, ThermalTypes, Held
<1> QED BY <1>1, ThermalInitOwns, DiscoverOwns, CleanupOwns DEF Next
=============================================================================
