---------------------------- MODULE QList_proofs ----------------------------
(***************************************************************************)
(* Proofs about QList, for any number of threads, nodes, data and indices, *)
(* with the recursive mutex of Windows, or with that of Linux and without  *)
(* insert_data, and callers that keep to the calls that may run together:  *)
(* first the locking, then the heap as a list that is well formed at every *)
(* step, then that the calls on it are those of a sequence on which each   *)
(* takes effect at one moment.                                             *)
(***************************************************************************)
EXTENDS QList, WellFoundedInduction, FunctionTheorems, FiniteSetTheorems,
        SequenceTheorems, TLAPS

Pushes == {"push_front", "push_back"}
Pcs == {"idle", "lock", "body", "yield", "unlock", "relock", "use", "read",
        "destroy", "return"}
Thens == {"return", "unlock", "relock", "use", "read", "destroy"}

ControlType ==
  /\ pc \in [Caller -> Pcs]
  /\ DOMAIN call = Caller
  /\ DOMAIN fn = Caller
  /\ then \in [Caller -> Thens]

(* Which calls reach which place (p: pc, f: fn, t: then, o: the operation). *)
Fitting(p, f, t, o) ==
  /\ f \in {"insert", "erase"} => t = "return" /\ o = f
  /\ p \in {"lock", "body"} /\ f \in Pushes /\ o = "insert" => t = "unlock"
  /\ t = "use" => f = "get_node" /\ o \in {"insert", "erase"}
  /\ t = "unlock" => f \in Pushes /\ o = "insert"
  /\ t = "relock" => o = "erase"
  /\ t = "destroy" => o = "delete"
  /\ p = "yield" => t \in {"unlock", "relock", "use"} /\ (t = "use" => o = "erase")
  /\ p = "relock" => t \in {"relock", "use"} /\ o = "erase"
  /\ p = "use" => t = "use"
  /\ p = "destroy" => o = "delete"
FittingAt(c) == Fitting(pc[c], fn[c], then[c], call[c].op)

(* How often the caller holds the mutex there.  The middle of an insert     *)
(* holds it around get_node, and its ends unlock once too often.            *)
Around(t, o) == IF t = "use" /\ o = "insert" THEN 1 ELSE 0
Held(p, f, t, o) ==
  CASE p = "lock" -> Around(t, o)
    [] p = "body" -> Around(t, o) + 1
    [] p = "unlock" -> IF f \in Pushes /\ t = "return" /\ o = "insert"
                       THEN 0 ELSE Around(t, o) + 1
    [] p \in {"yield", "use"} -> 1
    [] OTHER -> 0
HeldBy(c) == Held(pc[c], fn[c], then[c], call[c].op)

CountAt(c) ==
  /\ owner = c => depth = HeldBy(c) /\ HeldBy(c) > 0
  /\ owner # c => HeldBy(c) = 0

Apart ==
  \A c, d \in Caller : c # d /\ pc[c] # "idle" /\ pc[d] # "idle" =>
    ~Clash(call[c].op, call[d].op)

Asked == \A c \in Caller : pc[c] # "idle" => call[c].op \in Operations

(* Of insert_data only a recursive mutex keeps count.                       *)
MutexFits == Recursive \/ "insert" \notin Operations

LockInv ==
  /\ ControlType
  /\ owner \in Caller \cup {NULL}
  /\ owner = NULL => depth = 0
  /\ \A c \in Caller : FittingAt(c) /\ CountAt(c)
  /\ Apart
  /\ Asked

-----------------------------------------------------------------------------
(* A step of c leaves the control of the others alone ...                   *)
OthersStay(c) ==
  \A d \in Caller \ {c} :
    /\ pc'[d] = pc[d] /\ fn'[d] = fn[d]
    /\ then'[d] = then[d] /\ call'[d] = call[d]

(* ... and so only has to keep what the invariant says of c.                *)
LEMMA StepKeeps ==
  ASSUME LockInv, NEW c \in Caller, OthersStay(c), ControlType',
         \/ owner' = owner /\ depth' = depth
         \/ owner \in {c, NULL} /\ owner' \in {c, NULL} /\ (owner' = NULL => depth' = 0),
         FittingAt(c)', CountAt(c)',
         \/ pc'[c] = "idle"
         \/ pc[c] # "idle" /\ call'[c] = call[c]
         \/ /\ call'[c].op \in Operations
            /\ \A d \in Caller \ {c} : pc[d] # "idle" =>
                 ~Clash(call'[c].op, call[d].op) /\ ~Clash(call[d].op, call'[c].op)
  PROVE  LockInv'
<1>1. owner' \in Caller \cup {NULL} /\ (owner' = NULL => depth' = 0)
  BY DEF LockInv
<1>2. ASSUME NEW d \in Caller PROVE FittingAt(d)' /\ CountAt(d)'
  <2>1. CASE d = c
    BY <2>1
  <2>2. CASE d # c
    <3>1. FittingAt(d) /\ CountAt(d)
      BY DEF LockInv
    <3>2. FittingAt(d)' /\ HeldBy(d)' = HeldBy(d)
      BY <2>2, <3>1 DEF OthersStay, FittingAt, HeldBy
    <3>3. (owner' = d) = (owner = d) /\ (owner = d => depth' = depth)
      BY <2>2, QListAssumption
    <3> QED BY <3>1, <3>2, <3>3 DEF CountAt
  <2> QED BY <2>1, <2>2
<1>3. Apart'
  BY DEF LockInv, Apart, OthersStay
<1>4. Asked'
  BY DEF LockInv, Asked, OthersStay
<1> QED BY <1>1, <1>2, <1>3, <1>4 DEF LockInv

LEMMA InitInv == Init => LockInv
<1> SUFFICES ASSUME Init PROVE LockInv
  OBVIOUS
<1>1. ControlType
  BY DEF Init, ControlType, Pcs, Thens
<1>2. ASSUME NEW c \in Caller PROVE FittingAt(c) /\ CountAt(c)
  <2>1. /\ pc[c] = "idle" /\ fn[c] = "none" /\ then[c] = "return"
        /\ call[c].op = "none" /\ owner # c
    BY QListAssumption DEF Init, Nothing
  <2> QED BY <2>1 DEF FittingAt, CountAt, Fitting, HeldBy, Held, Pushes
<1> QED BY <1>1, <1>2 DEF Init, LockInv, Apart, Asked

LEMMA BeginKeeps ==
  ASSUME LockInv, Disciplined, NEW c \in Caller, Begin(c)
  PROVE  LockInv'
<1>1. PICK q \in Call :
        /\ Fits(c, q) /\ q.op \in Operations
        /\ call' = [call EXCEPT ![c] = q]
        /\ fn' = [fn EXCEPT ![c] = IF q.op = "get" THEN "get_node" ELSE q.op]
        /\ then' = [then EXCEPT ![c] = CASE q.op = "get" -> "read"
                                         [] q.op = "delete" -> "destroy"
                                         [] OTHER -> "return"]
        /\ pc' = [pc EXCEPT ![c] = "lock"]
        /\ owner' = owner /\ depth' = depth /\ pc[c] = "idle"
  BY DEF Begin, lock
<1>2. ControlType /\ CountAt(c)
  BY DEF LockInv
<1>3. /\ call'[c] = q /\ pc'[c] = "lock"
      /\ fn'[c] = (IF q.op = "get" THEN "get_node" ELSE q.op)
      /\ then'[c] = CASE q.op = "get" -> "read"
                      [] q.op = "delete" -> "destroy"
                      [] OTHER -> "return"
      /\ OthersStay(c)
  BY <1>1, <1>2 DEF ControlType, OthersStay
<1>4. ControlType'
  BY <1>1, <1>2 DEF ControlType, Pcs, Thens
<1>5. FittingAt(c)'
  BY <1>3 DEF FittingAt, Fitting, Pushes
<1>6. owner # c
  BY <1>1, <1>2 DEF CountAt, HeldBy, Held
<1>7. CountAt(c)'
  BY <1>1, <1>3, <1>6 DEF CountAt, HeldBy, Held, Around
<1>8. /\ call'[c].op \in Operations
      /\ \A d \in Caller \ {c} : pc[d] # "idle" =>
           ~Clash(call'[c].op, call[d].op) /\ ~Clash(call[d].op, call'[c].op)
  BY <1>1, <1>3 DEF Fits
<1> QED BY <1>1, <1>3, <1>4, <1>5, <1>7, <1>8, StepKeeps

LEMMA LockKeeps ==
  ASSUME LockInv, NEW c \in Caller, Lock(c)
  PROVE  LockInv'
<1>1. ControlType /\ CountAt(c) /\ FittingAt(c)
  BY DEF LockInv
<1>2. /\ owner \in {c, NULL} /\ owner' = c /\ depth' = depth + 1
      /\ pc' = [pc EXCEPT ![c] = "body"] /\ pc[c] = "lock"
      /\ fn' = fn /\ call' = call /\ then' = then
  BY DEF Lock, MutexLock
<1>3. OthersStay(c) /\ ControlType'
  BY <1>1, <1>2 DEF ControlType, OthersStay, Pcs
<1>4. FittingAt(c)' /\ HeldBy(c)' = HeldBy(c) + 1 /\ HeldBy(c) \in Nat
  BY <1>1, <1>2 DEF FittingAt, Fitting, HeldBy, Held, Around, ControlType
<1>5. depth = HeldBy(c)
  BY <1>1, <1>2, QListAssumption DEF LockInv, CountAt
<1>6. CountAt(c)'
  BY <1>2, <1>4, <1>5 DEF CountAt
<1> QED BY <1>2, <1>3, <1>4, <1>6, QListAssumption, StepKeeps

LEMMA RelockKeeps ==
  ASSUME LockInv, NEW c \in Caller, Relock(c)
  PROVE  LockInv'
<1>1. ControlType /\ CountAt(c) /\ FittingAt(c)
  BY DEF LockInv
<1>2. /\ owner \in {c, NULL} /\ owner' = c /\ depth' = depth + 1 /\ pc[c] = "relock"
      /\ fn' = fn /\ call' = call
      /\ \/ pc' = [pc EXCEPT ![c] = "use"] /\ then' = then /\ then[c] = "use"
         \/ pc' = [pc EXCEPT ![c] = "unlock"] /\ then' = [then EXCEPT ![c] = "return"]
  BY DEF Relock, MutexLock
<1>3. OthersStay(c) /\ ControlType'
  BY <1>1, <1>2 DEF ControlType, OthersStay, Pcs, Thens
<1>4. HeldBy(c) = 0
  BY <1>2 DEF HeldBy, Held
<1>5. FittingAt(c)' /\ HeldBy(c)' = 1
  <2>1. call'[c].op = "erase" /\ fn'[c] = fn[c]
    BY <1>1, <1>2 DEF FittingAt, Fitting
  <2>2. CASE pc'[c] = "use" /\ then'[c] = "use" /\ then[c] = "use"
    BY <2>1, <2>2, <1>1, <1>2 DEF FittingAt, Fitting, HeldBy, Held
  <2>3. CASE pc'[c] = "unlock" /\ then'[c] = "return"
    BY <2>1, <2>3, <1>1, <1>2 DEF FittingAt, Fitting, HeldBy, Held, Around
  <2> QED BY <1>1, <1>2, <2>2, <2>3 DEF ControlType
<1>6. depth = 0
  BY <1>1, <1>2, <1>4, QListAssumption DEF LockInv, CountAt
<1>7. CountAt(c)'
  BY <1>2, <1>5, <1>6 DEF CountAt
<1> QED BY <1>2, <1>3, <1>5, <1>7, QListAssumption, StepKeeps

LEMMA YieldKeeps ==
  ASSUME LockInv, NEW c \in Caller, Yield(c)
  PROVE  LockInv'
<1>1. ControlType /\ CountAt(c) /\ FittingAt(c)
  BY DEF LockInv
<1>2. /\ pc[c] = "yield" /\ MutexUnlock(c)
      /\ pc' = [pc EXCEPT ![c] = "lock"]
      /\ fn' = fn /\ call' = call /\ then' = then
  BY DEF Yield
<1>3. OthersStay(c) /\ ControlType'
  BY <1>1, <1>2 DEF ControlType, OthersStay, Pcs
<1>4. HeldBy(c) = 1
  BY <1>2 DEF HeldBy, Held
<1>5. FittingAt(c)' /\ HeldBy(c)' = 0
  BY <1>1, <1>2 DEF FittingAt, Fitting, HeldBy, Held, Around, ControlType
<1>6. owner = c /\ owner' = NULL /\ depth' = 0
  BY <1>1, <1>2, <1>4 DEF CountAt, MutexUnlock
<1>7. CountAt(c)'
  BY <1>5, <1>6, QListAssumption DEF CountAt
<1> QED BY <1>2, <1>3, <1>5, <1>6, <1>7, StepKeeps

(* The unlock that ends a function gives up one hold, or, at the end of an  *)
(* insert that went through a push, none.                                   *)
LEMMA UnlockKeeps ==
  ASSUME LockInv, MutexFits, NEW c \in Caller, Unlock(c)
  PROVE  LockInv'
<1>1. ControlType /\ CountAt(c) /\ FittingAt(c)
  BY DEF LockInv
<1>2. /\ pc[c] = "unlock" /\ MutexUnlock(c)
      /\ pc' = [pc EXCEPT ![c] = Following(c)]
      /\ fn' = fn /\ call' = call
      /\ then' = IF then[c] = "unlock" THEN [then EXCEPT ![c] = "return"] ELSE then
  BY DEF Unlock
<1>3. /\ pc'[c] = Following(c) /\ OthersStay(c)
      /\ then'[c] = IF then[c] = "unlock" THEN "return" ELSE then[c]
  BY <1>1, <1>2 DEF ControlType, OthersStay
<1>4. then[c] \in Thens /\ Following(c) \in Pcs
  BY <1>1 DEF ControlType, Following, Pcs, Thens
<1>5. ControlType'
  BY <1>1, <1>2, <1>4 DEF ControlType, Thens
<1>6. FittingAt(c)' /\ HeldBy(c)' = IF HeldBy(c) = 0 THEN 0 ELSE HeldBy(c) - 1
  <2>1. CASE then[c] = "unlock"
    <3>1. Following(c) = "unlock"
      BY <2>1 DEF Following
    <3> QED BY <2>1, <3>1, <1>1, <1>2, <1>3 DEF FittingAt, Fitting, HeldBy, Held, Around, Pushes
  <2>2. CASE then[c] = "use"
    <3>1. Following(c) = IF call[c].op = "insert" THEN "use" ELSE "relock"
      BY <2>2 DEF Following
    <3> QED BY <2>2, <3>1, <1>1, <1>2, <1>3 DEF FittingAt, Fitting, HeldBy, Held, Around, Pushes
  <2>3. CASE then[c] \in {"return", "relock", "read", "destroy"}
    <3>1. /\ Following(c) \in {"return", "relock", "read", "destroy"}
          /\ Following(c) = "relock" => then[c] = "relock"
          /\ Following(c) = "destroy" => then[c] = "destroy"
      BY <2>3 DEF Following
    <3>2. FittingAt(c)'
      BY <2>3, <3>1, <1>1, <1>2, <1>3 DEF FittingAt, Fitting, Pushes
    <3>3. HeldBy(c)' = 0 /\ HeldBy(c) \in {0, 1}
      BY <2>3, <3>1, <1>2, <1>3 DEF HeldBy, Held, Around
    <3> QED BY <3>2, <3>3
  <2> QED BY <1>4, <2>1, <2>2, <2>3 DEF Thens
<1>7. /\ CountAt(c)'
      /\ \/ owner' = owner /\ depth' = depth
         \/ owner \in {c, NULL} /\ owner' \in {c, NULL} /\ (owner' = NULL => depth' = 0)
  <2>1. CASE HeldBy(c) = 0
    <3>1. call[c].op = "insert"
      BY <2>1, <1>2 DEF HeldBy, Held, Around
    <3>2. Recursive
      BY <3>1, <1>2 DEF LockInv, Asked, MutexFits
    <3>3. owner # c /\ owner' = owner /\ depth' = depth
      BY <2>1, <3>2, <1>1, <1>2 DEF CountAt, MutexUnlock, lock
    <3> QED BY <2>1, <3>3, <1>6 DEF CountAt
  <2>2. CASE HeldBy(c) = 1
    <3>1. owner = c /\ owner' = NULL /\ depth' = 0
      BY <2>2, <1>1, <1>2 DEF CountAt, MutexUnlock
    <3> QED BY <2>2, <3>1, <1>6, QListAssumption DEF CountAt
  <2>3. CASE HeldBy(c) = 2
    <3>1. owner = c /\ owner' = owner /\ depth' = 1
      BY <2>3, <1>1, <1>2 DEF CountAt, MutexUnlock
    <3> QED BY <2>3, <3>1, <1>6, QListAssumption DEF CountAt
  <2> QED BY <2>1, <2>2, <2>3 DEF HeldBy, Held, Around
<1> QED BY <1>2, <1>3, <1>5, <1>6, <1>7, StepKeeps

(* Under the lock a caller either comes to its unlock or hands over.        *)
HandsOver(c) ==
  \/ fn[c] = "insert" /\ \/ HandOver(c, "push_front", "unlock", "yield")
                         \/ HandOver(c, "push_back", "unlock", "yield")
                         \/ HandOver(c, "get_node", "use", "lock")
  \/ fn[c] = "erase" /\ \/ HandOver(c, "pop_front", "relock", "yield")
                        \/ HandOver(c, "pop_back", "relock", "yield")
                        \/ HandOver(c, "get_node", "use", "yield")
ComesToUnlock(c) ==
  /\ pc' = [pc EXCEPT ![c] = "unlock"]
  /\ UNCHANGED <<owner, depth, call, fn, then>>

LEMMA BodyMoves ==
  ASSUME NEW c \in Caller, Body(c)
  PROVE  HandsOver(c) \/ ComesToUnlock(c)
<1>1. ASSUME NEW r, Ends(c, r) PROVE ComesToUnlock(c)
  BY <1>1 DEF Ends, ComesToUnlock
<1>2. ASSUME NEW r, EndsUnchanged(c, r) PROVE ComesToUnlock(c)
  BY <1>1, <1>2 DEF EndsUnchanged
<1>3. ASSUME Add(c) PROVE ComesToUnlock(c)
  BY <1>1, <1>2, <1>3 DEF Add, PushFront, PushBack
<1>4. ASSUME fn[c] = "insert", Insert(c) PROVE HandsOver(c) \/ ComesToUnlock(c)
  BY <1>2, <1>4 DEF Insert, HandsOver
<1>5. ASSUME fn[c] = "erase", Erase(c) PROVE HandsOver(c) \/ ComesToUnlock(c)
  BY <1>2, <1>5 DEF Erase, HandsOver
<1>6. ASSUME NonEmpty(c), fn[c] \notin Adds PROVE HandsOver(c) \/ ComesToUnlock(c)
  <2>1. ASSUME GetNode(c) PROVE ComesToUnlock(c)
    BY <2>1 DEF GetNode, ComesToUnlock, lock
  <2>2. PopFront(c) \/ PopBack(c) \/ Clear(c) => ComesToUnlock(c)
    BY <1>1 DEF PopFront, PopBack, Clear
  <2> QED BY <1>2, <1>5, <1>6, <2>1, <2>2 DEF NonEmpty
<1> QED BY <1>2, <1>3, <1>4, <1>6 DEF Body

LEMMA BodyKeeps ==
  ASSUME LockInv, NEW c \in Caller, Body(c)
  PROVE  LockInv'
<1>1. ControlType /\ CountAt(c) /\ FittingAt(c) /\ pc[c] = "body"
  BY DEF LockInv, Body
<1>2. owner' = owner /\ depth' = depth /\ call' = call
  BY BodyMoves DEF HandsOver, ComesToUnlock, HandOver, lock
<1>3. CASE ComesToUnlock(c)
  <2>1. OthersStay(c) /\ ControlType'
    BY <1>1, <1>3 DEF ComesToUnlock, ControlType, OthersStay, Pcs
  <2>2. FittingAt(c)' /\ HeldBy(c)' = HeldBy(c)
    BY <1>1, <1>3 DEF ComesToUnlock, FittingAt, Fitting, HeldBy, Held, Around, ControlType, Pushes
  <2>3. CountAt(c)'
    BY <1>1, <1>2, <2>2 DEF CountAt
  <2> QED BY <1>1, <1>2, <2>1, <2>2, <2>3, StepKeeps
<1>4. CASE HandsOver(c)
  <2>1. PICK f \in {"push_front", "push_back", "pop_front", "pop_back", "get_node"},
             t \in {"unlock", "relock", "use"}, p \in {"lock", "yield"} :
          HandOver(c, f, t, p)
    BY <1>4 DEF HandsOver
  <2>2. /\ fn' = [fn EXCEPT ![c] = f] /\ then' = [then EXCEPT ![c] = t]
        /\ pc' = [pc EXCEPT ![c] = p]
    BY <2>1 DEF HandOver
  <2>3. OthersStay(c) /\ ControlType'
    BY <1>1, <1>2, <2>2 DEF ControlType, OthersStay, Pcs, Thens
  <2>4. call[c].op = fn[c] /\ then[c] = "return" /\ fn[c] \in {"insert", "erase"}
    BY <1>1, <1>4 DEF HandsOver, FittingAt, Fitting
  <2>5. /\ fn'[c] = f /\ then'[c] = t /\ pc'[c] = p
        /\ \/ fn[c] = "insert" /\ f \in Pushes /\ t = "unlock" /\ p = "yield"
           \/ fn[c] = "insert" /\ f = "get_node" /\ t = "use" /\ p = "lock"
           \/ fn[c] = "erase" /\ f \notin Pushes /\ t = "relock" /\ p = "yield"
           \/ fn[c] = "erase" /\ f = "get_node" /\ t = "use" /\ p = "yield"
    BY <1>1, <1>4, <2>2 DEF HandsOver, HandOver, ControlType, Pushes
  <2>6. FittingAt(c)'
    BY <1>2, <2>4, <2>5 DEF FittingAt, Fitting, Pushes
  <2>7. HeldBy(c)' = 1 /\ HeldBy(c) = 1
    BY <1>1, <1>2, <2>4, <2>5 DEF HeldBy, Held, Around
  <2>8. CountAt(c)'
    BY <1>1, <1>2, <2>7 DEF CountAt
  <2> QED BY <1>1, <1>2, <2>3, <2>6, <2>8, StepKeeps
<1> QED BY <1>3, <1>4, BodyMoves

LEMMA UseKeeps ==
  ASSUME LockInv, NEW c \in Caller, InsertUse(c) \/ EraseUse(c)
  PROVE  LockInv'
<1>1. ControlType /\ CountAt(c) /\ FittingAt(c)
  BY DEF LockInv
<1>2. /\ pc[c] = "use"
      /\ then' = [then EXCEPT ![c] = "return"] /\ pc' = [pc EXCEPT ![c] = "unlock"]
      /\ owner' = owner /\ depth' = depth /\ call' = call /\ fn' = fn
  BY DEF InsertUse, EraseUse, lock
<1>3. OthersStay(c) /\ ControlType'
  BY <1>1, <1>2 DEF ControlType, OthersStay, Pcs, Thens
<1>4. pc'[c] = "unlock" /\ then'[c] = "return" /\ fn[c] = "get_node"
  BY <1>1, <1>2 DEF ControlType, FittingAt, Fitting
<1>5. FittingAt(c)' /\ HeldBy(c)' = 1 /\ HeldBy(c) = 1
  BY <1>1, <1>2, <1>4 DEF FittingAt, Fitting, HeldBy, Held, Around, Pushes
<1>6. CountAt(c)'
  BY <1>1, <1>2, <1>5 DEF CountAt
<1> QED BY <1>2, <1>3, <1>5, <1>6, StepKeeps

LEMMA GetReadKeeps ==
  ASSUME LockInv, NEW c \in Caller, GetRead(c)
  PROVE  LockInv'
<1>1. ControlType /\ CountAt(c) /\ FittingAt(c)
  BY DEF LockInv
<1>2. /\ pc[c] = "read" /\ pc' = [pc EXCEPT ![c] = "return"] /\ then' = then
      /\ owner' = owner /\ depth' = depth /\ call' = call /\ fn' = fn
  BY DEF GetRead, lock
<1>3. OthersStay(c) /\ ControlType' /\ pc'[c] = "return"
  BY <1>1, <1>2 DEF ControlType, OthersStay, Pcs
<1>4. FittingAt(c)' /\ HeldBy(c)' = HeldBy(c)
  BY <1>1, <1>2, <1>3 DEF FittingAt, Fitting, HeldBy, Held
<1>5. CountAt(c)'
  BY <1>1, <1>2, <1>4 DEF CountAt
<1> QED BY <1>2, <1>3, <1>4, <1>5, StepKeeps

(* No call runs beside a delete, so no one holds the mutex it destroys.     *)
LEMMA DestroyKeeps ==
  ASSUME LockInv, NEW c \in Caller, Destroy(c)
  PROVE  LockInv'
<1>1. ControlType /\ CountAt(c) /\ FittingAt(c)
  BY DEF LockInv
<1>2. /\ pc[c] = "destroy" /\ pc' = [pc EXCEPT ![c] = "return"] /\ then' = then
      /\ owner' = NULL /\ depth' = 0 /\ call' = call /\ fn' = fn
  BY DEF Destroy
<1>3. OthersStay(c) /\ ControlType' /\ pc'[c] = "return"
  BY <1>1, <1>2 DEF ControlType, OthersStay, Pcs
<1>4. FittingAt(c)' /\ HeldBy(c)' = 0 /\ HeldBy(c) = 0
  BY <1>1, <1>2, <1>3 DEF FittingAt, Fitting, HeldBy, Held
<1>5. \A d \in Caller \ {c} : pc[d] = "idle"
  BY <1>1, <1>2 DEF LockInv, Apart, Clash, FittingAt, Fitting
<1>6. \A d \in Caller : owner # d
  BY <1>1, <1>4, <1>5 DEF LockInv, CountAt, HeldBy, Held
<1>7. owner = NULL /\ CountAt(c)'
  BY <1>2, <1>4, <1>6, QListAssumption DEF LockInv, CountAt
<1> QED BY <1>2, <1>3, <1>4, <1>7, StepKeeps

LEMMA ReturnKeeps ==
  ASSUME LockInv, NEW c \in Caller, Return(c)
  PROVE  LockInv'
<1>1. ControlType /\ CountAt(c)
  BY DEF LockInv
<1>2. /\ pc[c] = "return" /\ pc' = [pc EXCEPT ![c] = "idle"]
      /\ call' = [call EXCEPT ![c] = Nothing] /\ fn' = [fn EXCEPT ![c] = "none"]
      /\ then' = [then EXCEPT ![c] = "return"] /\ owner' = owner /\ depth' = depth
  BY DEF Return, lock
<1>3. /\ OthersStay(c) /\ ControlType'
      /\ pc'[c] = "idle" /\ fn'[c] = "none" /\ then'[c] = "return"
  BY <1>1, <1>2 DEF ControlType, OthersStay, Pcs, Thens
<1>4. FittingAt(c)' /\ HeldBy(c)' = 0 /\ HeldBy(c) = 0
  BY <1>2, <1>3 DEF FittingAt, Fitting, HeldBy, Held, Pushes
<1>5. CountAt(c)'
  BY <1>1, <1>2, <1>4 DEF CountAt
<1> QED BY <1>2, <1>3, <1>4, <1>5, StepKeeps

LEMMA LockInductive ==
  ASSUME MutexFits, Disciplined
  PROVE  LockInv /\ [Next]_vars => LockInv'
<1> SUFFICES ASSUME LockInv, [Next]_vars PROVE LockInv'
  OBVIOUS
<1>1. CASE UNCHANGED vars
  BY <1>1 DEF vars, lock, flow, LockInv, ControlType, FittingAt, CountAt, HeldBy, Apart,
     Asked
<1>2. ASSUME NEW c \in Caller, Create(c) PROVE LockInv'
  BY <1>2 DEF Create, lock, flow, LockInv, ControlType, FittingAt, CountAt, HeldBy, Apart,
     Asked
<1> QED BY <1>1, <1>2, BeginKeeps, LockKeeps, YieldKeeps, RelockKeeps, UnlockKeeps,
           BodyKeeps, UseKeeps, GetReadKeeps, DestroyKeeps, ReturnKeeps DEF Next

(* With a mutex that fits, recursive as on Windows, or any when nobody      *)
(* calls insert_data, and callers that keep to the calls that may run       *)
(* together, every caller inside a critical section holds the mutex and     *)
(* none returns with it, for any number of threads.                         *)
THEOREM LockPairedHolds ==
  ASSUME MutexFits, Disciplined
  PROVE  Spec => []LockPaired
<1>1. ASSUME LockInv, NEW c \in Caller
      PROVE  /\ pc[c] \in {"body", "use", "yield"} => owner = c
             /\ pc[c] \in {"return", "idle", "read", "relock"} => owner # c
             /\ (pc[c] = "use" \/ (pc[c] = "unlock" /\ then[c] = "return")) /\ owner = c
                  => depth = 1
  <2>1. CountAt(c) /\ FittingAt(c)
    BY <1>1 DEF LockInv
  <2>2. /\ pc[c] \in {"body", "use", "yield"} => HeldBy(c) > 0
        /\ pc[c] \in {"return", "idle", "read", "relock"} => HeldBy(c) = 0
        /\ pc[c] = "use" \/ (pc[c] = "unlock" /\ then[c] = "return") => HeldBy(c) \in {0, 1}
    BY DEF HeldBy, Held, Around
  <2> QED BY <2>1, <2>2 DEF CountAt
<1>2. LockInv => LockPaired
  BY <1>1 DEF LockPaired
<1> QED BY <1>2, InitInv, LockInductive, PTL DEF Spec

(* Under the same assumptions no two callers are inside critical sections.  *)
THEOREM MutualExclusion ==
  ASSUME MutexFits, Disciplined
  PROVE  Spec => [](\A c, d \in Caller :
           {pc[c], pc[d]} \subseteq {"body", "use", "yield"} => c = d)
<1>1. LockPaired => \A c, d \in Caller :
        {pc[c], pc[d]} \subseteq {"body", "use", "yield"} => c = d
  BY DEF LockPaired
<1> QED BY <1>1, LockPairedHolds, PTL

-----------------------------------------------------------------------------
(* The heap as a list: what linking a node in and out does to it.           *)

(* Every set of numbers has a least one: the induction over the length of   *)
(* a walk rests on this.                                                    *)
LEMMA NatMin ==
  ASSUME NEW T, T \subseteq Nat, T # {}
  PROVE  \E n \in T : \A m \in T : n <= m
<1>1. \A x, y \in Nat : y < x => <<y, x>> \in OpToRel(<, Nat)
  BY Zenon DEF OpToRel
<1>2. \E x \in T : \A y \in T : <<y, x>> \notin OpToRel(<, Nat)
  <2>1. ASSUME NEW R, IsWellFoundedOn(R, Nat)
        PROVE  \E x \in T : \A y \in T : <<y, x>> \notin R
    BY <2>1, WFMin
  <2> QED BY <2>1, NatLessThanWellFounded, Zenon
<1>3. PICK x \in T : \A y \in T : <<y, x>> \notin OpToRel(<, Nat)
  BY <1>2, Zenon
<1>4. \A y \in T : ~(y < x)
  BY <1>1, <1>3, Zenon
<1> QED BY <1>4

(* The nodes of h are s[0], ..., s[N-1], linked in this order, from x to y. *)
Linked(s, h, x, y, N) ==
  /\ N \in Nat
  /\ s \in [0 .. N - 1 -> DOMAIN h]
  /\ \A n \in DOMAIN h : \E k \in 0 .. N - 1 : s[k] = n
  /\ \A j, k \in 0 .. N - 1 : s[j] = s[k] => j = k
  /\ x = IF N = 0 THEN NULL ELSE s[0]
  /\ y = IF N = 0 THEN NULL ELSE s[N - 1]
  /\ \A k \in 0 .. N - 1 :
       /\ h[s[k]].next = IF k = N - 1 THEN NULL ELSE s[k + 1]
       /\ h[s[k]].prev = IF k = 0 THEN NULL ELSE s[k - 1]

Inserted(s, N, i, n) ==
  [k \in 0 .. N |-> IF k < i THEN s[k] ELSE IF k = i THEN n ELSE s[k - 1]]
Removed(s, N, i) ==
  [k \in 0 .. N - 2 |-> IF k < i THEN s[k] ELSE s[k + 1]]

(* g is h with a node n more, linked in at place i ...                      *)
InsertsAt(s, h, N, g, n, i) ==
  /\ n \notin DOMAIN h /\ DOMAIN g = DOMAIN h \cup {n}
  /\ g[n].next = IF i = N THEN NULL ELSE s[i]
  /\ g[n].prev = IF i = 0 THEN NULL ELSE s[i - 1]
  /\ \A m \in DOMAIN h :
       /\ g[m].next = IF i > 0 /\ m = s[i - 1] THEN n ELSE h[m].next
       /\ g[m].prev = IF i < N /\ m = s[i] THEN n ELSE h[m].prev

(* ... or without the one at place i, its neighbours joined.                *)
RemovesAt(s, h, N, g, i) ==
  /\ DOMAIN g = DOMAIN h \ {s[i]}
  /\ \A m \in DOMAIN g :
       /\ g[m].next = IF i > 0 /\ m = s[i - 1] THEN h[s[i]].next ELSE h[m].next
       /\ g[m].prev = IF i < N - 1 /\ m = s[i + 1] THEN h[s[i]].prev ELSE h[m].prev

(* What the pushes and the insert make of a list ...                        *)
LEMMA LinkedInsert ==
  ASSUME NEW s, NEW h, NEW x, NEW y, NEW N, Linked(s, h, x, y, N),
         NEW g, NEW n, NEW i \in 0 .. N, InsertsAt(s, h, N, g, n, i),
         NEW u, u = (IF i = 0 THEN n ELSE x), NEW w, w = (IF i = N THEN n ELSE y)
  PROVE  Linked(Inserted(s, N, i, n), g, u, w, N + 1)
<1> USE DEF InsertsAt
<1> DEFINE t == Inserted(s, N, i, n)
<1>1. N \in Nat /\ s \in [0 .. N - 1 -> DOMAIN h]
  BY DEF Linked
<1>2. /\ \A k \in 0 .. N : k < i => t[k] = s[k] /\ k \in 0 .. N - 1
      /\ t[i] = n
      /\ \A k \in 0 .. N : k > i => t[k] = s[k - 1] /\ k - 1 \in 0 .. N - 1
  BY <1>1 DEF Inserted
<1>3. DOMAIN t = 0 .. N /\ t = [k \in 0 .. N |-> t[k]]
  BY DEF Inserted
<1> HIDE DEF t
<1>4. \A k \in 0 .. N : t[k] \in DOMAIN g
  BY <1>1, <1>2
<1>5. t \in [0 .. N -> DOMAIN g]
  BY <1>3, <1>4
<1>6. \A m \in DOMAIN g : \E k \in 0 .. N : t[k] = m
  <2> SUFFICES ASSUME NEW m \in DOMAIN h PROVE \E k \in 0 .. N : t[k] = m
    BY <1>2
  <2>1. PICK k \in 0 .. N - 1 : s[k] = m
    BY DEF Linked
  <2>2. (k < i => t[k] = m) /\ (k >= i => t[k + 1] = m)
    BY <1>1, <1>2, <2>1
  <2> QED BY <1>1, <2>2
<1>7. \A j, k \in 0 .. N : t[j] = t[k] => j = k
  <2> SUFFICES ASSUME NEW j \in 0 .. N, NEW k \in 0 .. N, t[j] = t[k] PROVE j = k
    OBVIOUS
  <2>1. \A a, b \in 0 .. N - 1 : s[a] = s[b] => a = b
    BY DEF Linked
  <2>2. \A a \in 0 .. N - 1 : s[a] # n
    BY <1>1
  <2> QED BY <1>1, <1>2, <2>1, <2>2
<1>8. u = t[0] /\ w = t[N]
  BY <1>1, <1>2 DEF Linked
<1>9. ASSUME NEW k \in 0 .. N
      PROVE  /\ g[t[k]].next = IF k = N THEN NULL ELSE t[k + 1]
             /\ g[t[k]].prev = IF k = 0 THEN NULL ELSE t[k - 1]
  <2>1. CASE k = i
    BY <2>1, <1>1, <1>2
  <2>2. CASE k < i
    <3>1. t[k] = s[k] /\ k \in 0 .. N - 1 /\ s[k] \in DOMAIN h
      BY <2>2, <1>1, <1>2
    <3>2. (s[k] = s[i - 1]) = (k = i - 1) /\ (i < N => s[k] # s[i])
      BY <2>2, <1>1 DEF Linked
    <3>3. /\ h[s[k]].next = IF k = N - 1 THEN NULL ELSE s[k + 1]
          /\ h[s[k]].prev = IF k = 0 THEN NULL ELSE s[k - 1]
      BY <3>1 DEF Linked
    <3>4. g[s[k]].next = t[k + 1]
      BY <2>2, <3>1, <3>2, <3>3, <1>1, <1>2
    <3>5. g[s[k]].prev = IF k = 0 THEN NULL ELSE t[k - 1]
      BY <2>2, <3>1, <3>2, <3>3, <1>1, <1>2
    <3> QED BY <2>2, <3>1, <3>4, <3>5
  <2>3. CASE k > i
    <3>1. t[k] = s[k - 1] /\ k - 1 \in 0 .. N - 1 /\ s[k - 1] \in DOMAIN h
      BY <2>3, <1>1, <1>2
    <3>2. (i > 0 => s[k - 1] # s[i - 1]) /\ (i < N => (s[k - 1] = s[i]) = (k - 1 = i))
      BY <2>3, <3>1, <1>1 DEF Linked
    <3>3. /\ h[s[k - 1]].next = IF k = N THEN NULL ELSE s[k]
          /\ h[s[k - 1]].prev = IF k = 1 THEN NULL ELSE s[k - 2]
      BY <2>3, <3>1, <1>1 DEF Linked
    <3>4. g[s[k - 1]].next = IF k = N THEN NULL ELSE t[k + 1]
      BY <2>3, <3>1, <3>2, <3>3, <1>1, <1>2
    <3>5. g[s[k - 1]].prev = t[k - 1]
      BY <2>3, <3>1, <3>2, <3>3, <1>1, <1>2
    <3> QED BY <2>3, <3>1, <3>4, <3>5
  <2> QED BY <1>1, <2>1, <2>2, <2>3
<1>10. (N + 1) - 1 = N /\ N + 1 \in Nat /\ N + 1 # 0
  BY <1>1
<1> QED BY <1>5, <1>6, <1>7, <1>8, <1>9, <1>10 DEF Linked, t

(* ... and the pops and the erase.                                          *)
LEMMA LinkedRemove ==
  ASSUME NEW s, NEW h, NEW x, NEW y, NEW N, Linked(s, h, x, y, N),
         NEW g, NEW i \in 0 .. N - 1, RemovesAt(s, h, N, g, i),
         NEW u, u = (IF i = 0 THEN h[s[i]].next ELSE x),
         NEW w, w = (IF i = N - 1 THEN h[s[i]].prev ELSE y)
  PROVE  Linked(Removed(s, N, i), g, u, w, N - 1)
<1> USE DEF RemovesAt
<1> DEFINE t == Removed(s, N, i)
<1>1. N \in Nat /\ s \in [0 .. N - 1 -> DOMAIN h] /\ N > 0
  BY DEF Linked
<1>2. \A a, b \in 0 .. N - 1 : s[a] = s[b] => a = b
  BY DEF Linked
<1>3. /\ \A k \in 0 .. N - 2 : k < i => t[k] = s[k] /\ k \in 0 .. N - 1 /\ k # i
      /\ \A k \in 0 .. N - 2 : k >= i => t[k] = s[k + 1] /\ k + 1 \in 0 .. N - 1 /\ k + 1 # i
  BY <1>1 DEF Removed
<1>4. DOMAIN t = 0 .. N - 2 /\ t = [k \in 0 .. N - 2 |-> t[k]]
  BY DEF Removed
<1> HIDE DEF t
<1>5. t \in [0 .. N - 2 -> DOMAIN g]
  <2>1. \A k \in 0 .. N - 2 : t[k] \in DOMAIN h /\ t[k] # s[i]
    BY <1>1, <1>2, <1>3
  <2> QED BY <1>4, <2>1
<1>6. \A m \in DOMAIN g : \E k \in 0 .. N - 2 : t[k] = m
  <2> SUFFICES ASSUME NEW m \in DOMAIN h, m # s[i] PROVE \E k \in 0 .. N - 2 : t[k] = m
    OBVIOUS
  <2>1. PICK k \in 0 .. N - 1 : s[k] = m /\ k # i
    BY DEF Linked
  <2>2. (k < i => k \in 0 .. N - 2 /\ t[k] = m) /\ (k > i => k - 1 \in 0 .. N - 2 /\ t[k - 1] = m)
    BY <1>1, <1>3, <2>1
  <2> QED BY <1>1, <2>1, <2>2
<1>7. \A j, k \in 0 .. N - 2 : t[j] = t[k] => j = k
  BY <1>1, <1>2, <1>3
<1>8. /\ u = IF N = 1 THEN NULL ELSE t[0]
      /\ w = IF N = 1 THEN NULL ELSE t[N - 2]
  BY <1>1, <1>3 DEF Linked
<1>9. ASSUME NEW k \in 0 .. N - 2
      PROVE  /\ g[t[k]].next = IF k = N - 2 THEN NULL ELSE t[k + 1]
             /\ g[t[k]].prev = IF k = 0 THEN NULL ELSE t[k - 1]
  <2>1. /\ h[s[i]].next = IF i = N - 1 THEN NULL ELSE s[i + 1]
        /\ h[s[i]].prev = IF i = 0 THEN NULL ELSE s[i - 1]
    BY DEF Linked
  <2>2. t[k] \in DOMAIN g
    BY <1>5
  <2>3. CASE k < i
    <3>1. t[k] = s[k] /\ k \in 0 .. N - 1
      BY <2>3, <1>1, <1>3
    <3>2. (s[k] = s[i - 1]) = (k = i - 1) /\ (i < N - 1 => s[k] # s[i + 1])
      BY <2>3, <1>1, <1>2
    <3>3. /\ h[s[k]].next = IF k = N - 1 THEN NULL ELSE s[k + 1]
          /\ h[s[k]].prev = IF k = 0 THEN NULL ELSE s[k - 1]
      BY <3>1 DEF Linked
    <3>4. g[s[k]].next = IF k = N - 2 THEN NULL ELSE t[k + 1]
      BY <2>1, <2>2, <2>3, <3>1, <3>2, <3>3, <1>1, <1>3
    <3>5. g[s[k]].prev = IF k = 0 THEN NULL ELSE t[k - 1]
      BY <2>1, <2>2, <2>3, <3>1, <3>2, <3>3, <1>1, <1>3
    <3> QED BY <3>1, <3>4, <3>5
  <2>4. CASE k >= i
    <3>1. t[k] = s[k + 1] /\ k + 1 \in 0 .. N - 1
      BY <2>4, <1>1, <1>3
    <3>2. (i > 0 => s[k + 1] # s[i - 1]) /\ (i < N - 1 => (s[k + 1] = s[i + 1]) = (k = i))
      BY <2>4, <3>1, <1>1, <1>2
    <3>3. /\ h[s[k + 1]].next = IF k = N - 2 THEN NULL ELSE s[k + 2]
          /\ h[s[k + 1]].prev = s[k]
      BY <2>4, <3>1, <1>1 DEF Linked
    <3>4. g[s[k + 1]].next = IF k = N - 2 THEN NULL ELSE t[k + 1]
      BY <2>1, <2>2, <2>4, <3>1, <3>2, <3>3, <1>1, <1>3
    <3>5. g[s[k + 1]].prev = IF k = 0 THEN NULL ELSE t[k - 1]
      BY <2>1, <2>2, <2>4, <3>1, <3>2, <3>3, <1>1, <1>3
    <3> QED BY <3>1, <3>4, <3>5
  <2> QED BY <1>1, <2>3, <2>4
<1>10. PICK M : M = N - 1
  OBVIOUS
<1>11. M \in Nat /\ M - 1 = N - 2 /\ (M = 0) = (N = 1)
  BY <1>1, <1>10
<1>12. Linked(t, g, u, w, M)
  BY ONLY <1>5, <1>6, <1>7, <1>8, <1>9, <1>11 DEF Linked
<1> QED BY <1>10, <1>12 DEF t

(* So the list is as long as there are nodes.                               *)
LEMMA LinkedCount ==
  ASSUME NEW s, NEW h, NEW x, NEW y, NEW N, Linked(s, h, x, y, N)
  PROVE  IsFiniteSet(DOMAIN h) /\ Cardinality(DOMAIN h) = N
<1>1. N \in Nat /\ s \in [0 .. N - 1 -> DOMAIN h]
  BY DEF Linked
<1>2. IsFiniteSet(0 .. N - 1) /\ Cardinality(0 .. N - 1) = N
  BY <1>1, FS_Interval
<1>3. s \in Bijection(0 .. N - 1, DOMAIN h)
  <2>1. /\ \A j, k \in 0 .. N - 1 : s[j] = s[k] => j = k
        /\ \A n \in DOMAIN h : \E k \in 0 .. N - 1 : s[k] = n
    BY DEF Linked
  <2> QED BY <1>1, <2>1, Fun_IsBij
<1> QED BY <1>2, <1>3, FS_Bijection DEF ExistsBijection

-----------------------------------------------------------------------------
(* The walks along the links, and the invariant of the list.                *)

(* The walks of list_get_node, list_clear_all and the readers: from a node  *)
(* by one of its links, k times.                                            *)
LEMMA ForwardWalks ==
  \A s : Linked(s, heap, head, tail, size) /\ NULL \notin DOMAIN heap =>
    \A k \in Nat : Forward[k] = IF k < size THEN s[k] ELSE NULL
<1> SUFFICES ASSUME NEW s, Linked(s, heap, head, tail, size), NULL \notin DOMAIN heap
             PROVE  \A k \in Nat : Forward[k] = IF k < size THEN s[k] ELSE NULL
  OBVIOUS
<1> DEFINE At(k) == IF k < size THEN s[k] ELSE NULL
           g == [k \in Nat |-> At(k)]
<1>1. ASSUME NEW k \in Nat PROVE At(k) = IF k = 0 THEN head ELSE Reached(At(k - 1), "next")
  BY DEF Reached, Linked
<1>2. Forward = [k \in Nat |-> IF k = 0 THEN head ELSE Reached(Forward[k - 1], "next")]
  <2>1. g = [k \in Nat |-> IF k = 0 THEN head ELSE Reached(g[k - 1], "next")]
    BY <1>1
  <2> HIDE DEF g
  <2> QED BY <2>1 DEF Forward
<1> DEFINE T == {k \in Nat : Forward[k] # At(k)}
<1>3. ASSUME T # {} PROVE FALSE
  <2>1. PICK k \in T : \A m \in T : k <= m
    BY <1>3, NatMin
  <2>2. k \in Nat /\ (k # 0 => k - 1 \in Nat /\ k - 1 \notin T)
    BY <2>1
  <2>3. At(k) = IF k = 0 THEN head ELSE Reached(At(k - 1), "next")
    BY <1>1, <2>2
  <2>4. Forward[k] = IF k = 0 THEN head ELSE Reached(Forward[k - 1], "next")
    <3> HIDE DEF At
    <3> QED BY <1>2, <2>2
  <2>5. k # 0 => Forward[k - 1] = At(k - 1)
    BY <2>2
  <2> QED BY <2>1, <2>3, <2>4, <2>5
<1> QED BY <1>3

(* ... and backward from the tail.                                          *)
LEMMA BackwardWalks ==
  \A s : Linked(s, heap, head, tail, size) /\ NULL \notin DOMAIN heap =>
    \A k \in Nat : Backward[k] = IF k < size THEN s[size - 1 - k] ELSE NULL
<1> SUFFICES ASSUME NEW s, Linked(s, heap, head, tail, size), NULL \notin DOMAIN heap
             PROVE  \A k \in Nat : Backward[k] = IF k < size THEN s[size - 1 - k] ELSE NULL
  OBVIOUS
<1> DEFINE At(k) == IF k < size THEN s[size - 1 - k] ELSE NULL
           g == [k \in Nat |-> At(k)]
<1>1. ASSUME NEW k \in Nat PROVE At(k) = IF k = 0 THEN tail ELSE Reached(At(k - 1), "prev")
  <2>0. size \in Nat /\ s \in [0 .. size - 1 -> DOMAIN heap]
    BY DEF Linked
  <2>1. CASE k = 0
    BY <2>0, <2>1 DEF Linked
  <2>2. CASE 0 < k /\ k < size + 1
    <3> DEFINE j == size - 1 - (k - 1)
    <3>1. j \in 0 .. size - 1 /\ j = size - k
      BY <2>0, <2>2
    <3>2. s[j] \in DOMAIN heap /\ heap[s[j]].prev = IF j = 0 THEN NULL ELSE s[j - 1]
      BY <2>0, <3>1 DEF Linked
    <3>3. At(k - 1) = s[j] /\ At(k) = IF j = 0 THEN NULL ELSE s[j - 1]
      BY <2>0, <2>2, <3>1
    <3> QED BY <2>2, <3>2, <3>3 DEF Reached
  <2>3. CASE k > size
    BY <2>0, <2>3 DEF Reached
  <2> QED BY <2>0, <2>1, <2>2, <2>3
<1>2. Backward = [k \in Nat |-> IF k = 0 THEN tail ELSE Reached(Backward[k - 1], "prev")]
  <2>1. g = [k \in Nat |-> IF k = 0 THEN tail ELSE Reached(g[k - 1], "prev")]
    BY <1>1
  <2> HIDE DEF g
  <2> QED BY <2>1 DEF Backward
<1> DEFINE T == {k \in Nat : Backward[k] # At(k)}
<1>3. ASSUME T # {} PROVE FALSE
  <2>1. PICK k \in T : \A m \in T : k <= m
    BY <1>3, NatMin
  <2>2. k \in Nat /\ (k # 0 => k - 1 \in Nat /\ k - 1 \notin T)
    BY <2>1
  <2>3. At(k) = IF k = 0 THEN tail ELSE Reached(At(k - 1), "prev")
    BY <1>1, <2>2
  <2>4. Backward[k] = IF k = 0 THEN tail ELSE Reached(Backward[k - 1], "prev")
    <3> HIDE DEF At
    <3> QED BY <1>2, <2>2
  <2>5. k # 0 => Backward[k - 1] = At(k - 1)
    BY <2>2
  <2> QED BY <2>1, <2>3, <2>4, <2>5
<1> QED BY <1>3

-----------------------------------------------------------------------------
Pops == {"pop_front", "pop_back"}

(* Which function a call is in, and whether it has had its effect (p: pc,   *)
(* f: fn, t: then, q: the call, r: result, x: found).                       *)
Flow(p, f, t, q, r, x) ==
  /\ q \in Call \cup {Nothing}
  /\ f \in {"none", "get_node"} \cup Adds \cup Frees \cup Reads
  /\ x \in Node \cup {NULL}
  /\ p = "idle" <=> q = Nothing
  /\ p # "idle" => \/ f = q.op
                   \/ f = "get_node" /\ q.op \in {"get", "insert", "erase"}
                   \/ f \in Pushes /\ q.op = "insert"
                   \/ f \in Pops /\ q.op = "erase"
  /\ q.op = "get" => f = "get_node" /\ t = "read"
  /\ p = "read" \/ t = "read" => q.op = "get"
  /\ p \in {"yield", "lock", "body"} /\ f = "get_node" /\ q.op # "get" => t = "use"
  /\ p \in {"yield", "lock", "body", "use", "read"} => r = "pending"
  /\ p \in {"return", "destroy"} => r # "pending"
  /\ p \in {"unlock", "relock"} =>
       (t = "use" => r = "pending") /\ (r = "pending" => t \in {"use", "read"})
FlowAt(c) == Flow(pc[c], fn[c], then[c], call[c], result[c], found[c])

(* What a call still knows of a list of N nodes s in the heap h, though it  *)
(* may have given the lock up: its index is where it was when it looked,    *)
(* and the node it found is there.                                          *)
Spot(s, h, N, p, f, t, q, r, x) ==
  /\ t = "use" =>
       /\ q.index \in 1 .. N - 1 /\ (q.op = "erase" => q.index < N - 1)
       /\ p \in {"unlock", "relock", "use"} => x = s[q.index]
  /\ p \in {"yield", "lock", "body"} =>
       /\ q.op = "insert" /\ f = "push_front" => q.index = 0
       /\ q.op = "insert" /\ f = "push_back" => q.index = N
       /\ q.op = "erase" /\ f = "pop_front" => q.index = 0
       /\ q.op = "erase" /\ f = "pop_back" => q.index = N - 1
  /\ q.op = "get" =>
       /\ x \in DOMAIN h \cup {NULL}
       /\ p \in {"lock", "body"} => x = NULL /\ (q.index = 0 \/ q.index < N)
       /\ p = "read" \/ (p = "unlock" /\ r = "pending") => x # NULL
SpotAt(s, c) ==
  Spot(s, heap, size, pc[c], fn[c], then[c], call[c], result[c], found[c])

NodeType == [next : Node \cup {NULL}, prev : Node \cup {NULL}, data : Datum]
HeapType(h) == DOMAIN h \subseteq Node /\ \A n \in DOMAIN h : h[n] \in NodeType

ListInv ==
  /\ DOMAIN result = Caller /\ DOMAIN found = Caller
  /\ \A c \in Caller : FlowAt(c)
  /\ HeapType(heap)
  /\ \E s : Linked(s, heap, head, tail, size) /\ \A c \in Caller : SpotAt(s, c)

(* The assumption on the constants, without its Boolean part, for the steps *)
(* that do arithmetic.                                                      *)
LEMMA Constants ==
  /\ Index \subseteq Nat /\ NULL \notin Node /\ NULL \notin Caller
  /\ IsFiniteSet(Node) /\ "pending" \notin Datum
  BY Zenon, QListAssumption

(* What a call asks for, by its kind.                                       *)
LEMMA CallParts ==
  ASSUME NEW q \in Call
  PROVE  /\ q.op \in Adds \cup Frees \cup Reads /\ q.index \in Nat
         /\ q.op \in Adds => q.datum \in Datum
         /\ q # Nothing
<1>1. \/ q.op \in Adds /\ q.index \in Index /\ q.datum \in Datum
      \/ q.op \in Frees \cup Reads /\ q.index \in Index
  <2>1. CASE q \in [op : Adds, index : Index, datum : Datum]
    BY <2>1
  <2>2. CASE q \in [op : Frees \cup Reads, index : Index, datum : {"none"}]
    BY <2>2
  <2> QED BY <2>1, <2>2 DEF Call
<1>2. q.index \in Nat
  BY <1>1, Constants
<1>3. q.op # "none"
  BY <1>1 DEF Adds, Frees, Reads
<1>4. q # Nothing
  BY <1>3 DEF Nothing
<1>5. q.op \in Adds => q.datum \in Datum
  BY <1>1 DEF Adds, Frees, Reads
<1> QED BY <1>1, <1>2, <1>4, <1>5

OthersRest(c) ==
  /\ OthersStay(c)
  /\ \A d \in Caller \ {c} : result'[d] = result[d] /\ found'[d] = found[d]

(* A step of c that leaves the list alone ...                               *)
LEMMA QuietStep ==
  ASSUME ListInv, NEW c \in Caller, OthersRest(c),
         DOMAIN result' = Caller, DOMAIN found' = Caller,
         UNCHANGED <<heap, head, tail, size>>, FlowAt(c)',
         \A s : Linked(s, heap, head, tail, size) /\ SpotAt(s, c) =>
           Spot(s, heap, size, pc'[c], fn'[c], then'[c], call'[c], result'[c], found'[c])
  PROVE  ListInv'
<1>1. PICK s : Linked(s, heap, head, tail, size) /\ \A d \in Caller : SpotAt(s, d)
  BY DEF ListInv
<1>2. ASSUME NEW d \in Caller
      PROVE  /\ FlowAt(d)'
             /\ Spot(s, heap', size', pc'[d], fn'[d], then'[d], call'[d], result'[d], found'[d])
  <2>1. CASE d = c
    BY <1>1, <2>1
  <2>2. CASE d # c
    <3>1. FlowAt(d) /\ SpotAt(s, d)
      BY <1>1 DEF ListInv
    <3> QED BY <2>2, <3>1 DEF OthersRest, OthersStay, FlowAt, SpotAt
  <2> QED BY <2>1, <2>2
<1>3. Linked(s, heap', head', tail', size')
  BY <1>1
<1>4. HeapType(heap')
  BY DEF ListInv
<1>5. \E u : /\ Linked(u, heap', head', tail', size')
             /\ \A d \in Caller : Spot(u, heap', size', pc'[d], fn'[d], then'[d], call'[d],
                                       result'[d], found'[d])
  BY <1>2, <1>3
<1> QED BY <1>2, <1>4, <1>5 DEF ListInv, SpotAt

(* ... and one that changes it: nothing else is under way then that acts on *)
(* an index, and a node that a get has found is only added to.              *)
LEMMA ChangingStep ==
  ASSUME LockInv, ListInv, NEW c \in Caller, OthersRest(c),
         DOMAIN result' = Caller, DOMAIN found' = Caller,
         pc[c] # "idle", call[c].op \notin Reads,
         HeapType(heap'), NEW t, Linked(t, heap', head', tail', size'),
         call[c].op \in Adds => DOMAIN heap \subseteq DOMAIN heap' /\ size <= size',
         FlowAt(c)', 
         Spot(t, heap', size', pc'[c], fn'[c], then'[c], call'[c], result'[c], found'[c])
  PROVE  ListInv'
<1>1. PICK s : Linked(s, heap, head, tail, size) /\ \A d \in Caller : SpotAt(s, d)
  BY DEF ListInv
<1>2. size \in Nat /\ size' \in Nat
  BY <1>1 DEF Linked
<1>3. ASSUME NEW d \in Caller
      PROVE  /\ FlowAt(d)'
             /\ Spot(t, heap', size', pc'[d], fn'[d], then'[d], call'[d], result'[d], found'[d])
  <2>1. CASE d = c
    BY <2>1
  <2>2. CASE d # c
    <3>1. FlowAt(d) /\ SpotAt(s, d) /\ FittingAt(d)
      BY <1>1 DEF ListInv, LockInv
    <3>2. /\ pc'[d] = pc[d] /\ fn'[d] = fn[d] /\ then'[d] = then[d] /\ call'[d] = call[d]
          /\ result'[d] = result[d] /\ found'[d] = found[d]
      BY <2>2 DEF OthersRest, OthersStay
    <3>3. FlowAt(d)'
      BY <3>1, <3>2 DEF FlowAt
    <3>4. call[d].op \notin {"insert", "erase"}
      <4>1. CASE pc[d] = "idle"
        BY <3>1, <4>1 DEF FlowAt, Flow, Nothing
      <4>2. CASE pc[d] # "idle"
        BY <2>2, <4>2 DEF LockInv, Apart, Clash
      <4> QED BY <4>1, <4>2
    <3>5. call[d].op = "get" => call[c].op \in Adds
      <4> SUFFICES ASSUME call[d].op = "get" PROVE call[c].op \in Adds
        OBVIOUS
      <4>1. pc[d] # "idle"
        BY <3>1 DEF FlowAt, Flow, Nothing
      <4>2. call[c].op \notin Frees
        BY <2>2, <4>1 DEF LockInv, Apart, Clash
      <4>3. call[c] \in Call
        BY DEF ListInv, FlowAt, Flow
      <4> QED BY <4>2, <4>3, CallParts
    <3>6. then[d] # "use"
      BY <3>1, <3>4 DEF FittingAt, Fitting
    <3>7. call[d].op = "get" => call[d].index \in Nat
      <4> SUFFICES ASSUME call[d].op = "get" PROVE call[d].index \in Nat
        OBVIOUS
      <4>1. call[d] \in Call
        BY <3>1 DEF FlowAt, Flow, Nothing
      <4> QED BY <4>1, CallParts
    <3>8. Spot(t, heap', size', pc[d], fn[d], then[d], call[d], result[d], found[d])
      BY <1>2, <3>1, <3>4, <3>5, <3>6, <3>7 DEF SpotAt, Spot
    <3> QED BY <3>2, <3>3, <3>8
  <2> QED BY <2>1, <2>2
<1>4. \E u : /\ Linked(u, heap', head', tail', size')
             /\ \A d \in Caller : Spot(u, heap', size', pc'[d], fn'[d], then'[d], call'[d],
                                       result'[d], found'[d])
  BY <1>3
<1> QED BY <1>3, <1>4 DEF ListInv, SpotAt

-----------------------------------------------------------------------------
(* The steps that leave the list alone.                                     *)

(* The empty list, nobody in a call.                                        *)
LEMMA ListInit == Init => ListInv
<1> SUFFICES ASSUME Init PROVE ListInv
  OBVIOUS
<1>1. ASSUME NEW c \in Caller PROVE FlowAt(c) /\ SpotAt(<<>>, c)
  <2>1. /\ pc[c] = "idle" /\ fn[c] = "none" /\ then[c] = "return"
        /\ call[c] = Nothing /\ result[c] = "none" /\ found[c] = NULL
    BY <1>1 DEF Init
  <2> QED BY <2>1 DEF FlowAt, Flow, SpotAt, Spot, Nothing
<1>2. DOMAIN heap = {} /\ size = 0 /\ head = NULL /\ tail = NULL
  BY DEF Init
<1>3. HeapType(heap)
  BY <1>2 DEF HeapType
<1>4. <<>> \in [0 .. size - 1 -> DOMAIN heap]
  BY <1>2
<1>5. Linked(<<>>, heap, head, tail, size)
  BY <1>2, <1>4 DEF Linked
<1> QED BY <1>1, <1>3, <1>5 DEF Init, ListInv

(* The facts about the caller that every step below starts from.            *)
LEMMA ListFacts ==
  ASSUME LockInv, ListInv, NEW c \in Caller
  PROVE  /\ FittingAt(c) /\ FlowAt(c) /\ pc[c] \in Pcs /\ then[c] \in Thens
         /\ DOMAIN pc = Caller /\ DOMAIN call = Caller /\ DOMAIN fn = Caller
         /\ DOMAIN then = Caller /\ DOMAIN result = Caller /\ DOMAIN found = Caller
  BY DEF LockInv, ListInv, ControlType

(* A call begins: with an index in the list, when it is a get.              *)
LEMMA ListBegin ==
  ASSUME LockInv, ListInv, Disciplined, NEW c \in Caller, Begin(c)
  PROVE  ListInv'
<1>1. PICK q \in Call :
        /\ Fits(c, q)
        /\ call' = [call EXCEPT ![c] = q]
        /\ fn' = [fn EXCEPT ![c] = IF q.op = "get" THEN "get_node" ELSE q.op]
        /\ then' = [then EXCEPT ![c] = CASE q.op = "get" -> "read"
                                         [] q.op = "delete" -> "destroy"
                                         [] OTHER -> "return"]
        /\ pc' = [pc EXCEPT ![c] = "lock"]
        /\ found' = [found EXCEPT ![c] = NULL]
        /\ result' = [result EXCEPT ![c] = "pending"]
        /\ UNCHANGED <<heap, head, tail, size>>
  BY DEF Begin, body
<1>2. /\ call'[c] = q /\ pc'[c] = "lock" /\ found'[c] = NULL /\ result'[c] = "pending"
      /\ fn'[c] = (IF q.op = "get" THEN "get_node" ELSE q.op)
      /\ then'[c] = CASE q.op = "get" -> "read"
                      [] q.op = "delete" -> "destroy"
                      [] OTHER -> "return"
      /\ OthersRest(c) /\ DOMAIN result' = Caller /\ DOMAIN found' = Caller
  BY <1>1, ListFacts DEF OthersRest, OthersStay
<1>3. q.op \in Adds \cup Frees \cup Reads /\ q # Nothing
  BY CallParts
<1>4. FlowAt(c)'
  <2>1. CASE q.op = "get"
    BY <1>2, <1>3, <2>1 DEF FlowAt, Flow
  <2>2. CASE q.op # "get"
    <3>1. /\ fn'[c] = q.op /\ then'[c] \in {"destroy", "return"}
          /\ fn'[c] # "get_node"
      BY <1>2, <1>3, <2>2 DEF Adds, Frees, Reads
    <3> QED BY <1>2, <1>3, <2>2, <3>1 DEF FlowAt, Flow
  <2> QED BY <2>1, <2>2
<1>5. q.op = "get" => q.index = 0 \/ q.index < size
  BY <1>1 DEF Fits
<1>6. \A s : Spot(s, heap, size, pc'[c], fn'[c], then'[c], call'[c], result'[c], found'[c])
  <2>1. then'[c] # "use" /\ fn'[c] = (IF q.op = "get" THEN "get_node" ELSE q.op)
    BY <1>2
  <2>2. q.op \in {"insert", "erase"} => fn'[c] \notin Pushes \cup Pops
    BY <2>1 DEF Pushes, Pops
  <2> QED BY <1>2, <1>5, <2>1, <2>2 DEF Spot, Pushes, Pops
<1> QED BY <1>1, <1>2, <1>4, <1>6, QuietStep

(* The steps that only lock, unlock or come back.                           *)
LEMMA ListMove ==
  ASSUME LockInv, ListInv, NEW c \in Caller, Lock(c) \/ Yield(c) \/ Relock(c) \/ Unlock(c)
  PROVE  ListInv'
<1>1. /\ UNCHANGED <<heap, head, tail, size>>
      /\ call' = call /\ fn' = fn /\ found' = found /\ result' = result
      /\ \/ pc[c] = "lock" /\ pc' = [pc EXCEPT ![c] = "body"] /\ then' = then
         \/ pc[c] = "yield" /\ pc' = [pc EXCEPT ![c] = "lock"] /\ then' = then
         \/ /\ pc[c] = "relock"
            /\ IF then[c] = "use" /\ result[c] = "pending"
               THEN pc' = [pc EXCEPT ![c] = "use"] /\ then' = then
               ELSE pc' = [pc EXCEPT ![c] = "unlock"] /\ then' = [then EXCEPT ![c] = "return"]
         \/ /\ pc[c] = "unlock" /\ pc' = [pc EXCEPT ![c] = Following(c)]
            /\ then' = IF then[c] = "unlock" THEN [then EXCEPT ![c] = "return"] ELSE then
  BY DEF Lock, Yield, Relock, Unlock, body
<1>2. FittingAt(c) /\ FlowAt(c)
  BY ListFacts
<1>3. OthersRest(c) /\ DOMAIN result' = Caller /\ DOMAIN found' = Caller
  BY <1>1, ListFacts DEF OthersRest, OthersStay
<1>4. /\ call'[c] = call[c] /\ fn'[c] = fn[c] /\ found'[c] = found[c] /\ result'[c] = result[c]
      /\ \/ pc[c] = "lock" /\ pc'[c] = "body" /\ then'[c] = then[c]
         \/ pc[c] = "yield" /\ pc'[c] = "lock" /\ then'[c] = then[c]
         \/ /\ pc[c] = "relock"
            /\ IF then[c] = "use" /\ result[c] = "pending"
               THEN pc'[c] = "use" /\ then'[c] = then[c]
               ELSE pc'[c] = "unlock" /\ then'[c] = "return"
         \/ /\ pc[c] = "unlock" /\ pc'[c] = Following(c)
            /\ then'[c] = IF then[c] = "unlock" THEN "return" ELSE then[c]
  <2>1. DOMAIN pc = Caller /\ DOMAIN then = Caller
    BY ListFacts
  <2> QED BY <1>1, <2>1
<1>5. CASE pc[c] = "lock" \/ pc[c] = "yield"
  <2>1. /\ pc'[c] \in {"lock", "body"} /\ then'[c] = then[c]
        /\ pc[c] = "lock" => pc'[c] = "body"
        /\ pc[c] = "yield" => pc'[c] = "lock" /\ call[c].op # "get"
    BY <1>2, <1>4, <1>5 DEF FittingAt, Fitting, FlowAt, Flow
  <2>2. FlowAt(c)'
    BY <1>2, <1>4, <1>5, <2>1 DEF FlowAt, Flow
  <2>3. \A s : Linked(s, heap, head, tail, size) /\ SpotAt(s, c) =>
          Spot(s, heap, size, pc'[c], fn'[c], then'[c], call'[c], result'[c], found'[c])
    BY <1>4, <1>5, <2>1 DEF SpotAt, Spot
  <2> QED BY <1>1, <1>3, <2>2, <2>3, QuietStep
<1>6. CASE pc[c] = "relock"
  <2>1. \/ then[c] = "use" /\ result[c] = "pending" /\ pc'[c] = "use" /\ then'[c] = "use"
        \/ then[c] = "relock" /\ result[c] # "pending" /\ pc'[c] = "unlock" /\ then'[c] = "return"
    BY <1>2, <1>4, <1>6 DEF FittingAt, Fitting, FlowAt, Flow
  <2>2. call[c].op = "erase"
    BY <1>2, <1>6 DEF FittingAt, Fitting
  <2>3. FlowAt(c)'
    BY <1>2, <1>4, <1>6, <2>1, <2>2 DEF FlowAt, Flow
  <2>4. \A s : Linked(s, heap, head, tail, size) /\ SpotAt(s, c) =>
          Spot(s, heap, size, pc'[c], fn'[c], then'[c], call'[c], result'[c], found'[c])
    BY <1>4, <1>6, <2>1, <2>2 DEF SpotAt, Spot
  <2> QED BY <1>1, <1>3, <2>3, <2>4, QuietStep
<1>7. CASE pc[c] = "unlock"
  <2>1. /\ pc'[c] = Following(c) /\ then[c] \in Thens
        /\ then'[c] = IF then[c] = "unlock" THEN "return" ELSE then[c]
    BY <1>4, <1>7, ListFacts
  <2>2. \/ then[c] = "use" /\ pc'[c] = (IF call[c].op = "insert" THEN "use" ELSE "relock")
        \/ then[c] = "read" /\ pc'[c] = (IF result[c] = "pending" THEN "read" ELSE "return")
        \/ then[c] = "destroy" /\ pc'[c] \in {"destroy", "return"}
        \/ then[c] = "unlock" /\ pc'[c] = "unlock"
        \/ then[c] = "relock" /\ pc'[c] = "relock"
        \/ then[c] = "return" /\ pc'[c] = "return"
    BY <2>1 DEF Following, Thens
  <2>3. call[c] # Nothing
    BY <1>2, <1>7 DEF FlowAt, Flow
  <2>4. FlowAt(c)'
    BY <1>2, <1>4, <1>7, <2>1, <2>2, <2>3 DEF FlowAt, Flow
  <2>5. \A s : Linked(s, heap, head, tail, size) /\ SpotAt(s, c) =>
          Spot(s, heap, size, pc'[c], fn'[c], then'[c], call'[c], result'[c], found'[c])
    BY <1>2, <1>4, <1>7, <2>1, <2>2 DEF SpotAt, Spot, FlowAt, Flow
  <2> QED BY <1>1, <1>3, <2>4, <2>5, QuietStep
<1> QED BY <1>4, <1>5, <1>6, <1>7

(* The steps of a call after its effect, and list_create.                   *)
LEMMA ListReturn ==
  ASSUME LockInv, ListInv, NEW c \in Caller, GetRead(c) \/ Destroy(c) \/ Return(c) \/ Create(c)
  PROVE  ListInv'
<1>1. UNCHANGED <<heap, head, tail, size>>
  BY DEF GetRead, Destroy, Return, Create, body
<1>2. FittingAt(c) /\ FlowAt(c)
  BY ListFacts
<1>3. CASE GetRead(c)
  <2>1. /\ pc[c] = "read" /\ pc' = [pc EXCEPT ![c] = "return"]
        /\ result' = [result EXCEPT ![c] = heap[found[c]].data]
        /\ call' = call /\ fn' = fn /\ then' = then /\ found' = found
    BY <1>3 DEF GetRead
  <2>2. /\ OthersRest(c) /\ DOMAIN result' = Caller /\ DOMAIN found' = Caller
        /\ pc'[c] = "return" /\ result'[c] = heap[found[c]].data
        /\ call'[c] = call[c] /\ fn'[c] = fn[c] /\ then'[c] = then[c] /\ found'[c] = found[c]
    BY <2>1, ListFacts DEF OthersRest, OthersStay
  <2>3. call[c].op = "get"
    BY <2>1, <1>2 DEF FittingAt, Fitting, FlowAt, Flow, Pcs
  <2>4. found[c] \in DOMAIN heap
    BY <2>1, <2>3 DEF ListInv, SpotAt, Spot
  <2>5. result'[c] # "pending"
    <3>1. heap[found[c]] \in NodeType
      BY <2>4 DEF ListInv, HeapType
    <3>2. heap[found[c]].data \in Datum
      BY <3>1 DEF NodeType
    <3> QED BY <2>2, <3>2, Constants
  <2>6. FlowAt(c)'
    BY <1>2, <2>1, <2>2, <2>5 DEF FlowAt, Flow
  <2>7. \A s : Linked(s, heap, head, tail, size) /\ SpotAt(s, c) =>
          Spot(s, heap, size, pc'[c], fn'[c], then'[c], call'[c], result'[c], found'[c])
    BY <2>1, <2>2 DEF SpotAt, Spot
  <2> QED BY <1>1, <2>2, <2>6, <2>7, QuietStep
<1>4. CASE Destroy(c)
  <2>1. /\ pc[c] = "destroy" /\ pc' = [pc EXCEPT ![c] = "return"]
        /\ call' = call /\ fn' = fn /\ then' = then /\ found' = found /\ result' = result
    BY <1>4 DEF Destroy
  <2>2. /\ OthersRest(c) /\ DOMAIN result' = Caller /\ DOMAIN found' = Caller
        /\ pc'[c] = "return" /\ result'[c] = result[c]
        /\ call'[c] = call[c] /\ fn'[c] = fn[c] /\ then'[c] = then[c] /\ found'[c] = found[c]
    BY <2>1, ListFacts DEF OthersRest, OthersStay
  <2>6. FlowAt(c)'
    BY <1>2, <2>1, <2>2 DEF FlowAt, Flow
  <2>7. \A s : Linked(s, heap, head, tail, size) /\ SpotAt(s, c) =>
          Spot(s, heap, size, pc'[c], fn'[c], then'[c], call'[c], result'[c], found'[c])
    BY <2>1, <2>2 DEF SpotAt, Spot
  <2> QED BY <1>1, <2>2, <2>6, <2>7, QuietStep
<1>5. CASE Return(c)
  <2>1. /\ pc' = [pc EXCEPT ![c] = "idle"]
        /\ call' = [call EXCEPT ![c] = Nothing] /\ fn' = [fn EXCEPT ![c] = "none"]
        /\ then' = [then EXCEPT ![c] = "return"] /\ found' = [found EXCEPT ![c] = NULL]
        /\ result' = result
    BY <1>5 DEF Return
  <2>2. /\ OthersRest(c) /\ DOMAIN result' = Caller /\ DOMAIN found' = Caller
        /\ pc'[c] = "idle" /\ fn'[c] = "none" /\ then'[c] = "return"
        /\ call'[c] = Nothing /\ found'[c] = NULL
    BY <2>1, ListFacts DEF OthersRest, OthersStay
  <2>6. FlowAt(c)'
    BY <2>2 DEF FlowAt, Flow, Nothing
  <2>7. \A s : Spot(s, heap, size, pc'[c], fn'[c], then'[c], call'[c], result'[c], found'[c])
    BY <2>2 DEF Spot, Nothing
  <2> QED BY <1>1, <2>2, <2>6, <2>7, QuietStep
<1>6. CASE Create(c)
  <2>1. /\ pc' = pc /\ call' = call /\ fn' = fn /\ then' = then
        /\ found' = found /\ result' = result
    BY <1>6 DEF Create, flow
  <2>2. /\ OthersRest(c) /\ DOMAIN result' = Caller /\ DOMAIN found' = Caller /\ FlowAt(c)'
    BY <1>2, <2>1, ListFacts DEF OthersRest, OthersStay, FlowAt
  <2>3. \A s : Linked(s, heap, head, tail, size) /\ SpotAt(s, c) =>
          Spot(s, heap, size, pc'[c], fn'[c], then'[c], call'[c], result'[c], found'[c])
    BY <2>1 DEF SpotAt
  <2> QED BY <1>1, <2>2, <2>3, QuietStep
<1> QED BY <1>3, <1>4, <1>5, <1>6

-----------------------------------------------------------------------------
(* What the functions that change the list do to the heap.                  *)

(* list_get_node finds the node at the index, from whichever end it walks.  *)
LEMMA NodeAtFinds ==
  ASSUME NEW s, Linked(s, heap, head, tail, size), NULL \notin DOMAIN heap,
         NEW i \in 0 .. size - 1
  PROVE  NodeAt(i) = s[i]
<1>1. size \in Nat
  BY DEF Linked
<1>2. Forward[i] = s[i]
  BY <1>1, ForwardWalks
<1>3. size - i - 1 \in Nat /\ size - 1 - (size - i - 1) = i /\ size - i - 1 < size
  BY <1>1
<1>4. Backward[size - i - 1] = s[i]
  BY <1>1, <1>3, BackwardWalks
<1> QED BY <1>2, <1>4 DEF NodeAt

SetPrev(r, v) == [r EXCEPT !.prev = v]
SetNext(r, v) == [r EXCEPT !.next = v]
(* Changing one link of a node.                                             *)
LEMMA NodeSet ==
  ASSUME NEW r \in NodeType, NEW v \in Node \cup {NULL}
  PROVE  /\ SetPrev(r, v) \in NodeType /\ SetPrev(r, v).prev = v
         /\ SetPrev(r, v).next = r.next /\ SetPrev(r, v).data = r.data
         /\ SetNext(r, v) \in NodeType /\ SetNext(r, v).next = v
         /\ SetNext(r, v).prev = r.prev /\ SetNext(r, v).data = r.data
  BY DEF NodeType, SetPrev, SetNext

(* The nodes that the pushes and the insert allocate.                       *)
LEMMA NodeMade ==
  ASSUME NEW d \in Datum, NEW v \in Node \cup {NULL}, NEW w \in Node \cup {NULL}
  PROVE  /\ [Fresh(d) EXCEPT !.next = v] = [next |-> v, prev |-> NULL, data |-> d]
         /\ [Fresh(d) EXCEPT !.prev = w] = [next |-> NULL, prev |-> w, data |-> d]
         /\ [next |-> v, prev |-> w, data |-> d] \in NodeType
  BY DEF Fresh, NodeType

(* What the list's head, tail and size say of it: list_check_valid always   *)
(* agrees.                                                                  *)
LEMMA ListEnds ==
  ASSUME HeapType(heap), NEW s, Linked(s, heap, head, tail, size)
  PROVE  /\ size \in Nat /\ s \in [0 .. size - 1 -> DOMAIN heap] /\ NULL \notin DOMAIN heap
         /\ size # 0 => head = s[0] /\ tail = s[size - 1] /\ {head, tail} \subseteq DOMAIN heap
                        /\ head # NULL /\ tail # NULL
         /\ size = 0 => head = NULL /\ tail = NULL /\ DOMAIN heap = {}
         /\ Valid
<1>1. size \in Nat /\ s \in [0 .. size - 1 -> DOMAIN heap] /\ NULL \notin DOMAIN heap
  BY Constants DEF Linked, HeapType
<1>2. size # 0 => head = s[0] /\ tail = s[size - 1] /\ head \in DOMAIN heap /\ tail \in DOMAIN heap
  BY <1>1 DEF Linked
<1>3. size = 0 => head = NULL /\ tail = NULL
  BY DEF Linked
<1>4. ASSUME size = 0, NEW n \in DOMAIN heap PROVE FALSE
  <2>1. \E k \in 0 .. size - 1 : s[k] = n
    BY DEF Linked
  <2> QED BY <1>4, <2>1
<1>5. size = 0 => DOMAIN heap = {}
  BY <1>4
<1> QED BY <1>1, <1>2, <1>3, <1>5 DEF Valid

(* A list with one node more, holding d, at place i ...                     *)
Grown(s, i, n, d) ==
  /\ HeapType(heap') /\ size' = size + 1
  /\ Linked(Inserted(s, size, i, n), heap', head', tail', size')
  /\ n \notin DOMAIN heap /\ DOMAIN heap' = DOMAIN heap \cup {n}
  /\ heap'[n].data = d /\ \A m \in DOMAIN heap : heap'[m].data = heap[m].data

(* ... and with the one at place i less.                                    *)
Shrunk(s, i) ==
  /\ HeapType(heap') /\ size' = size - 1
  /\ Linked(Removed(s, size, i), heap', head', tail', size')
  /\ DOMAIN heap' = DOMAIN heap \ {s[i]}
  /\ \A m \in DOMAIN heap' : heap'[m].data = heap[m].data

(* The five functions that cut a link leave a list behind.  Each names the  *)
(* place: what the C code reads from head, tail or a node it found.         *)
LEMMA PushFrontGrows ==
  ASSUME HeapType(heap), NEW s, Linked(s, heap, head, tail, size),
         NEW c \in Caller, call[c].datum \in Datum, NEW n \in Node \ DOMAIN heap, PushFront(c, n)
  PROVE  Grown(s, 0, n, call[c].datum)
<1> DEFINE new == [next |-> head, prev |-> NULL, data |-> call[c].datum]
           h == IF size = 0 THEN heap ELSE [heap EXCEPT ![head].prev = n]
<1>0. head \in Node \cup {NULL}
  BY ListEnds DEF HeapType
<1>1. /\ size \in Nat /\ s \in [0 .. size - 1 -> DOMAIN heap]
      /\ size # 0 => head = s[0] /\ head \in DOMAIN heap
      /\ size = 0 => head = NULL /\ DOMAIN heap = {}
  BY ListEnds
<1>2. /\ heap' = Allocated(h, n, new) /\ head' = n /\ size' = size + 1
      /\ tail' = IF size = 0 THEN n ELSE tail
  <2>1. [Fresh(call[c].datum) EXCEPT !.next = head] = new /\ new \in NodeType
    BY <1>0, NodeMade, Constants
  <2>2. CASE size = 0
    BY <2>1, <2>2, ListEnds DEF PushFront
  <2>3. CASE size # 0
    BY <2>1, <2>3, ListEnds DEF PushFront
  <2> QED BY <2>2, <2>3
<1>3. DOMAIN h = DOMAIN heap
  OBVIOUS
<1>4. ASSUME NEW m \in DOMAIN heap
      PROVE  /\ h[m] \in NodeType /\ h[m].data = heap[m].data /\ h[m].next = heap[m].next
             /\ h[m].prev = IF 0 < size /\ m = s[0] THEN n ELSE heap[m].prev
  <2>1. heap[m] \in NodeType
    BY DEF HeapType
  <2>2. h[m] = IF size # 0 /\ m = head THEN SetPrev(heap[m], n) ELSE heap[m]
    BY <1>1 DEF SetPrev, SetNext
  <2> HIDE DEF h
  <2> QED BY <1>1, <2>1, <2>2, NodeSet
<1>5. new \in NodeType
  BY <1>0, NodeMade, Constants
<1> HIDE DEF h, new
<1>6. /\ DOMAIN heap' = DOMAIN heap \cup {n} /\ heap'[n] = new
      /\ \A m \in DOMAIN heap : heap'[m] = h[m]
  BY <1>2, <1>3 DEF Allocated
<1>7. HeapType(heap')
  BY <1>4, <1>5, <1>6 DEF HeapType
<1>8. /\ new.next = (IF 0 = size THEN NULL ELSE s[0]) /\ new.prev = NULL
      /\ new.data = call[c].datum
  BY <1>1 DEF new
<1>9. InsertsAt(s, heap, size, heap', n, 0) /\ 0 \in 0 .. size
  BY <1>1, <1>4, <1>6, <1>8 DEF InsertsAt
<1>10. Linked(Inserted(s, size, 0, n), heap', head', tail', size + 1)
  BY <1>2, <1>9, LinkedInsert
<1> QED BY <1>2, <1>4, <1>6, <1>7, <1>8, <1>10 DEF Grown

LEMMA PushBackGrows ==
  ASSUME HeapType(heap), NEW s, Linked(s, heap, head, tail, size),
         NEW c \in Caller, call[c].datum \in Datum, NEW n \in Node \ DOMAIN heap, PushBack(c, n)
  PROVE  Grown(s, size, n, call[c].datum)
<1> DEFINE new == [next |-> NULL, prev |-> tail, data |-> call[c].datum]
           h == IF size = 0 THEN heap ELSE [heap EXCEPT ![tail].next = n]
<1>0. tail \in Node \cup {NULL}
  BY ListEnds DEF HeapType
<1>1. /\ size \in Nat /\ s \in [0 .. size - 1 -> DOMAIN heap]
      /\ size # 0 => tail = s[size - 1] /\ tail \in DOMAIN heap
      /\ size = 0 => tail = NULL /\ DOMAIN heap = {}
  BY ListEnds
<1>2. /\ heap' = Allocated(h, n, new) /\ tail' = n /\ size' = size + 1
      /\ head' = IF size = 0 THEN n ELSE head
  <2>1. [Fresh(call[c].datum) EXCEPT !.prev = tail] = new /\ new \in NodeType
    BY <1>0, NodeMade, Constants
  <2>2. CASE size = 0
    BY <2>1, <2>2, ListEnds DEF PushBack
  <2>3. CASE size # 0
    BY <2>1, <2>3, ListEnds DEF PushBack
  <2> QED BY <2>2, <2>3
<1>3. DOMAIN h = DOMAIN heap
  OBVIOUS
<1>4. ASSUME NEW m \in DOMAIN heap
      PROVE  /\ h[m] \in NodeType /\ h[m].data = heap[m].data /\ h[m].prev = heap[m].prev
             /\ h[m].next = IF size > 0 /\ m = s[size - 1] THEN n ELSE heap[m].next
  <2>1. heap[m] \in NodeType
    BY DEF HeapType
  <2>2. h[m] = IF size # 0 /\ m = tail THEN SetNext(heap[m], n) ELSE heap[m]
    BY <1>1 DEF SetPrev, SetNext
  <2> HIDE DEF h
  <2> QED BY <1>1, <2>1, <2>2, NodeSet
<1>5. new \in NodeType
  BY <1>0, NodeMade, Constants
<1> HIDE DEF h, new
<1>6. /\ DOMAIN heap' = DOMAIN heap \cup {n} /\ heap'[n] = new
      /\ \A m \in DOMAIN heap : heap'[m] = h[m]
  BY <1>2, <1>3 DEF Allocated
<1>7. HeapType(heap')
  BY <1>4, <1>5, <1>6 DEF HeapType
<1>8. /\ new.prev = (IF size = 0 THEN NULL ELSE s[size - 1]) /\ new.next = NULL
      /\ new.data = call[c].datum
  BY <1>1 DEF new
<1>9. InsertsAt(s, heap, size, heap', n, size) /\ size \in 0 .. size
  BY <1>1, <1>4, <1>6, <1>8 DEF InsertsAt
<1>10. Linked(Inserted(s, size, size, n), heap', head', tail', size + 1)
  BY <1>1, <1>2, <1>9, LinkedInsert
<1> QED BY <1>2, <1>4, <1>6, <1>7, <1>8, <1>10 DEF Grown

LEMMA InsertUseGrows ==
  ASSUME HeapType(heap), NEW s, Linked(s, heap, head, tail, size),
         NEW c \in Caller, call[c].datum \in Datum, NEW i \in 1 .. size - 1, found[c] = s[i],
         NEW n \in Node \ DOMAIN heap, size' = size + 1, head' = head, tail' = tail,
         heap' = Allocated([heap EXCEPT ![heap[s[i]].prev].next = n, ![s[i]].prev = n], n,
                           [next |-> s[i], prev |-> heap[s[i]].prev, data |-> call[c].datum])
  PROVE  Grown(s, i, n, call[c].datum)
<1> DEFINE at == s[i]
           before == s[i - 1]
           new == [next |-> at, prev |-> before, data |-> call[c].datum]
           h == [heap EXCEPT ![before].next = n, ![at].prev = n]
<1>1. /\ size \in Nat /\ s \in [0 .. size - 1 -> DOMAIN heap]
      /\ at \in DOMAIN heap /\ before \in DOMAIN heap
      /\ DOMAIN heap \subseteq Node
  <2>1. size \in Nat /\ s \in [0 .. size - 1 -> DOMAIN heap]
    BY ListEnds
  <2> QED BY <2>1 DEF HeapType
<1>2. at # before /\ heap[at].prev = before
  BY <1>1 DEF Linked
<1>3. heap' = Allocated(h, n, new)
  BY <1>2
<1>4. ASSUME NEW m \in DOMAIN heap
      PROVE  /\ h[m] \in NodeType /\ h[m].data = heap[m].data
             /\ h[m].next = IF m = before THEN n ELSE heap[m].next
             /\ h[m].prev = IF m = at THEN n ELSE heap[m].prev
  <2>1. heap[m] \in NodeType
    BY DEF HeapType
  <2>2. h[m] = CASE m = at -> SetPrev(heap[m], n)
                 [] m = before -> SetNext(heap[m], n)
                 [] OTHER -> heap[m]
    BY <1>1, <1>2 DEF SetPrev, SetNext
  <2> HIDE DEF h, at, before
  <2> QED BY <1>2, <2>1, <2>2, NodeSet
<1>5. new \in NodeType
  BY <1>1, NodeMade
<1>6. DOMAIN h = DOMAIN heap
  OBVIOUS
<1> HIDE DEF h, new
<1>7. /\ DOMAIN heap' = DOMAIN heap \cup {n} /\ heap'[n] = new
      /\ \A m \in DOMAIN heap : heap'[m] = h[m]
  BY <1>3, <1>6 DEF Allocated
<1>8. HeapType(heap')
  BY <1>4, <1>5, <1>7 DEF HeapType
<1>9. new.next = at /\ new.prev = before /\ new.data = call[c].datum
  BY DEF new
<1>10. i \in 0 .. size /\ i # 0 /\ i # size /\ i > 0 /\ i < size
  BY <1>1
<1>11. InsertsAt(s, heap, size, heap', n, i)
  <2>1. /\ heap'[n].next = (IF i = size THEN NULL ELSE s[i])
        /\ heap'[n].prev = (IF i = 0 THEN NULL ELSE s[i - 1])
    BY <1>7, <1>9, <1>10
  <2>2. \A m \in DOMAIN heap :
          /\ heap'[m].next = (IF i > 0 /\ m = s[i - 1] THEN n ELSE heap[m].next)
          /\ heap'[m].prev = (IF i < size /\ m = s[i] THEN n ELSE heap[m].prev)
    <3> SUFFICES ASSUME NEW m \in DOMAIN heap
                 PROVE  /\ heap'[m].next = (IF m = before THEN n ELSE heap[m].next)
                        /\ heap'[m].prev = (IF m = at THEN n ELSE heap[m].prev)
      BY <1>10
    <3>1. heap'[m] = h[m]
      BY ONLY <1>7, m \in DOMAIN heap
    <3> HIDE DEF at, before
    <3>2. /\ h[m].next = IF m = before THEN n ELSE heap[m].next
          /\ h[m].prev = IF m = at THEN n ELSE heap[m].prev
      BY ONLY <1>4, m \in DOMAIN heap
    <3> QED BY ONLY <3>1, <3>2
  <2> QED BY <1>7, <2>1, <2>2 DEF InsertsAt
<1>12. Linked(Inserted(s, size, i, n), heap', head', tail', size + 1)
  BY <1>10, <1>11, LinkedInsert
<1> QED BY <1>4, <1>7, <1>8, <1>9, <1>12 DEF Grown

LEMMA PopFrontShrinks ==
  ASSUME HeapType(heap), NEW s, Linked(s, heap, head, tail, size), size # 0,
         NEW c \in Caller, PopFront(c)
  PROVE  Shrunk(s, 0)
<1> DEFINE second == heap[head].next
           rest == Restrict(heap, DOMAIN heap \ {head})
<1>1. /\ size \in Nat /\ s \in [0 .. size - 1 -> DOMAIN heap] /\ head = s[0]
      /\ tail = s[size - 1] /\ head \in DOMAIN heap /\ NULL \notin DOMAIN heap
  BY ListEnds
<1>2. second = IF size = 1 THEN NULL ELSE s[1]
  BY <1>1 DEF Linked
<1>3. second # NULL => second \in DOMAIN heap \ {head} /\ size > 1 /\ second = s[1]
  BY <1>1, <1>2 DEF Linked
<1>4. /\ size' = size - 1
      /\ second # NULL => /\ heap' = [rest EXCEPT ![second].prev = NULL]
                          /\ head' = second /\ tail' = tail
      /\ second = NULL => heap' = rest /\ head' = NULL /\ tail' = NULL
  BY DEF PopFront
<1>5. DOMAIN rest = DOMAIN heap \ {head} /\ \A m \in DOMAIN rest : rest[m] = heap[m]
  BY DEF Restrict
<1> HIDE DEF rest
<1>6. DOMAIN heap' = DOMAIN heap \ {head}
  BY <1>4, <1>5
<1>7. ASSUME NEW m \in DOMAIN heap'
      PROVE  /\ heap'[m] \in NodeType /\ heap'[m].data = heap[m].data
             /\ heap'[m].next = heap[m].next
             /\ heap'[m].prev = IF 0 < size - 1 /\ m = s[1] THEN NULL ELSE heap[m].prev
  <2>1. heap[m] \in NodeType
    BY <1>6 DEF HeapType
  <2>2. heap'[m] = IF second # NULL /\ m = second THEN SetPrev(heap[m], NULL) ELSE heap[m]
    BY <1>3, <1>4, <1>5, <1>6 DEF SetPrev, SetNext
  <2>3. (second # NULL) = (0 < size - 1)
    BY <1>1, <1>2, <1>3 DEF SetPrev, SetNext
  <2> HIDE DEF second
  <2> QED BY <1>3, <2>1, <2>2, <2>3, NodeSet
<1>8. HeapType(heap')
  BY <1>6, <1>7 DEF HeapType
<1>9. heap[s[0]].prev = NULL
  BY <1>1 DEF Linked
<1>10. /\ head' = heap[s[0]].next
       /\ tail' = IF 0 = size - 1 THEN heap[s[0]].prev ELSE tail
  BY <1>1, <1>2, <1>3, <1>4, <1>9
<1>11. 0 \in 0 .. size - 1
  BY <1>1
<1> HIDE DEF second
<1>12. RemovesAt(s, heap, size, heap', 0)
  BY <1>1, <1>6, <1>7, <1>9 DEF RemovesAt
<1>13. Linked(Removed(s, size, 0), heap', head', tail', size - 1)
  BY <1>10, <1>11, <1>12, LinkedRemove
<1> QED BY <1>1, <1>4, <1>6, <1>7, <1>8, <1>13 DEF Shrunk

LEMMA PopBackShrinks ==
  ASSUME HeapType(heap), NEW s, Linked(s, heap, head, tail, size), size # 0,
         NEW c \in Caller, PopBack(c)
  PROVE  Shrunk(s, size - 1)
<1> DEFINE last == heap[tail].prev
           rest == Restrict(heap, DOMAIN heap \ {tail})
<1>1. /\ size \in Nat /\ s \in [0 .. size - 1 -> DOMAIN heap] /\ head = s[0]
      /\ tail = s[size - 1] /\ tail \in DOMAIN heap /\ NULL \notin DOMAIN heap
  BY ListEnds
<1>2. last = IF size = 1 THEN NULL ELSE s[size - 2]
  BY <1>1 DEF Linked
<1>3. last # NULL => last \in DOMAIN heap \ {tail} /\ size > 1 /\ last = s[size - 2]
  BY <1>1, <1>2 DEF Linked
<1>4. /\ size' = size - 1
      /\ last # NULL => /\ heap' = [rest EXCEPT ![last].next = NULL]
                        /\ tail' = last /\ head' = head
      /\ last = NULL => heap' = rest /\ head' = NULL /\ tail' = NULL
  BY DEF PopBack
<1>5. DOMAIN rest = DOMAIN heap \ {tail} /\ \A m \in DOMAIN rest : rest[m] = heap[m]
  BY DEF Restrict
<1> HIDE DEF rest
<1>6. DOMAIN heap' = DOMAIN heap \ {tail}
  BY <1>4, <1>5
<1>7. ASSUME NEW m \in DOMAIN heap'
      PROVE  /\ heap'[m] \in NodeType /\ heap'[m].data = heap[m].data
             /\ heap'[m].prev = heap[m].prev
             /\ heap'[m].next = IF size > 1 /\ m = s[size - 2] THEN NULL ELSE heap[m].next
  <2>1. heap[m] \in NodeType
    BY <1>6 DEF HeapType
  <2>2. heap'[m] = IF last # NULL /\ m = last THEN SetNext(heap[m], NULL) ELSE heap[m]
    BY <1>3, <1>4, <1>5, <1>6 DEF SetPrev, SetNext
  <2>3. (last # NULL) = (size > 1)
    BY <1>1, <1>2, <1>3 DEF SetPrev, SetNext
  <2> HIDE DEF last
  <2> QED BY <1>3, <2>1, <2>2, <2>3, NodeSet
<1>8. HeapType(heap')
  BY <1>6, <1>7 DEF HeapType
<1> DEFINE i == size - 1
<1>9. i \in 0 .. size - 1 /\ i - 1 = size - 2 /\ (i > 0) = (size > 1) /\ ~(i < size - 1)
      /\ (i = 0) = (size = 1) /\ i = size - 1
  BY <1>1
<1>10. heap[s[i]].next = NULL /\ heap[s[i]].prev = last /\ tail = s[i]
  BY <1>1, <1>9 DEF Linked
<1>11. tail' = last /\ head' = IF i = 0 THEN heap[s[i]].next ELSE head
  BY <1>1, <1>2, <1>3, <1>4, <1>9, <1>10
<1> HIDE DEF last, i
<1>12. RemovesAt(s, heap, size, heap', i)
  BY <1>6, <1>7, <1>9, <1>10 DEF RemovesAt
<1>13. Linked(Removed(s, size, i), heap', head', tail', size - 1)
  BY <1>9, <1>10, <1>11, <1>12, LinkedRemove
<1> QED BY <1>4, <1>6, <1>7, <1>8, <1>9, <1>10, <1>13 DEF Shrunk

LEMMA EraseUseShrinks ==
  ASSUME HeapType(heap), NEW s, Linked(s, heap, head, tail, size),
         NEW c \in Caller, NEW i \in 1 .. size - 2, found[c] = s[i], EraseUse(c)
  PROVE  Shrunk(s, i)
<1> DEFINE at == s[i]
           before == s[i - 1]
           after == s[i + 1]
           h == [heap EXCEPT ![before].next = after, ![after].prev = before]
<1>1. /\ size \in Nat /\ s \in [0 .. size - 1 -> DOMAIN heap]
      /\ at \in DOMAIN heap /\ before \in DOMAIN heap /\ after \in DOMAIN heap
      /\ DOMAIN heap \subseteq Node /\ i - 1 \in 0 .. size - 1 /\ i \in 0 .. size - 1
      /\ i + 1 \in 0 .. size - 1
  BY ListEnds DEF HeapType
<1>2. at # before /\ at # after /\ before # after
  BY <1>1 DEF Linked
<1>3. heap[at].prev = before /\ heap[at].next = after
  <2>1. i # 0 /\ i # size - 1
    BY <1>1
  <2> QED BY <1>1, <2>1 DEF Linked
<1>4. /\ heap' = Restrict(h, DOMAIN heap \ {at})
      /\ head' = head /\ tail' = tail /\ size' = size - 1
  BY <1>3 DEF EraseUse
<1>5. ASSUME NEW m \in DOMAIN heap
      PROVE  /\ h[m] \in NodeType /\ h[m].data = heap[m].data
             /\ h[m].next = IF m = before THEN after ELSE heap[m].next
             /\ h[m].prev = IF m = after THEN before ELSE heap[m].prev
  <2>1. heap[m] \in NodeType
    BY DEF HeapType
  <2>3. before \in Node \cup {NULL} /\ after \in Node \cup {NULL}
    BY <1>1
  <2>2. h[m] = CASE m = before -> SetNext(heap[m], after)
                 [] m = after -> SetPrev(heap[m], before)
                 [] OTHER -> heap[m]
    BY <1>1, <1>2 DEF SetPrev, SetNext
  <2> HIDE DEF h, at, before, after
  <2>4. CASE m = before
    BY <1>2, <2>1, <2>2, <2>3, <2>4, NodeSet
  <2>5. CASE m = after
    BY <1>2, <2>1, <2>2, <2>3, <2>5, NodeSet
  <2>6. CASE m # before /\ m # after
    BY <2>1, <2>2, <2>6
  <2> QED BY <2>4, <2>5, <2>6
<1> HIDE DEF h
<1>6. /\ DOMAIN heap' = DOMAIN heap \ {at}
      /\ \A m \in DOMAIN heap' : heap'[m] = h[m]
  BY <1>4 DEF Restrict
<1>7. HeapType(heap')
  BY <1>1, <1>5, <1>6 DEF HeapType
<1>8. i > 0 /\ i < size - 1 /\ i # 0 /\ i # size - 1
  BY <1>1
<1>9. RemovesAt(s, heap, size, heap', i)
  BY <1>1, <1>3, <1>5, <1>6, <1>8 DEF RemovesAt
<1>10. Linked(Removed(s, size, i), heap', head', tail', size - 1)
  BY <1>1, <1>4, <1>8, <1>9, LinkedRemove
<1> QED BY <1>4, <1>5, <1>6, <1>7, <1>10 DEF Shrunk

(* Clearing frees every node, because the walk reaches every node.          *)
LEMMA EmptyLinked ==
  ASSUME NEW h, DOMAIN h = {}
  PROVE  Linked(<<>>, h, NULL, NULL, 0)
<1>1. <<>> \in [0 .. 0 - 1 -> DOMAIN h]
  OBVIOUS
<1> QED BY <1>1 DEF Linked

LEMMA ClearEmpties ==
  ASSUME HeapType(heap), NEW s, Linked(s, heap, head, tail, size),
         NEW c \in Caller, Clear(c)
  PROVE  HeapType(heap') /\ Linked(<<>>, heap', head', tail', size') /\ size' = 0
<1> DEFINE reached == {Forward[k] : k \in 0 .. Cardinality(DOMAIN heap)} \ {NULL}
<1>1. /\ size \in Nat /\ s \in [0 .. size - 1 -> DOMAIN heap] /\ NULL \notin DOMAIN heap
  BY ListEnds
<1>2. Cardinality(DOMAIN heap) = size
  BY LinkedCount
<1>3. \A k \in Nat : Forward[k] = IF k < size THEN s[k] ELSE NULL
  BY <1>1, ForwardWalks
<1>4. \A n \in DOMAIN heap : \E k \in 0 .. size - 1 : s[k] = n
  BY DEF Linked
<1>5. reached = DOMAIN heap
  <2>1. ASSUME NEW n \in DOMAIN heap PROVE n \in reached
    <3>1. PICK k \in 0 .. size - 1 : s[k] = n
      BY <1>4
    <3>2. k \in 0 .. size /\ Forward[k] = n
      BY <1>1, <1>3, <3>1
    <3> QED BY <1>1, <1>2, <3>2
  <2>2. ASSUME NEW k \in 0 .. size, Forward[k] # NULL PROVE Forward[k] \in DOMAIN heap
    BY <1>1, <1>3, <2>2
  <2> QED BY <1>2, <2>1, <2>2
<1>6. /\ heap' = Restrict(heap, DOMAIN heap \ DOMAIN heap)
      /\ size' = size - Cardinality(DOMAIN heap) /\ head' = NULL /\ tail' = NULL
  BY <1>5 DEF Clear
<1>7. DOMAIN heap' = {}
  BY <1>6 DEF Restrict
<1>8. size' = 0
  BY <1>1, <1>2, <1>6
<1>9. Linked(<<>>, heap', head', tail', size')
  BY <1>6, <1>7, <1>8, EmptyLinked
<1> QED BY <1>7, <1>8, <1>9 DEF HeapType

-----------------------------------------------------------------------------
(* The steps under the lock keep the invariant of the list.                 *)

(* The end of a function under the lock: without a change of the list ...   *)
LEMMA ListQuietEnd ==
  ASSUME LockInv, ListInv, NEW c \in Caller, pc[c] = "body", then[c] # "use",
         NEW r, r # "pending", EndsUnchanged(c, r)
  PROVE  ListInv'
<1>1. /\ UNCHANGED <<heap, head, tail, size>>
      /\ result' = [result EXCEPT ![c] = r] /\ pc' = [pc EXCEPT ![c] = "unlock"]
      /\ call' = call /\ fn' = fn /\ then' = then /\ found' = found
  BY DEF EndsUnchanged, Ends
<1>2. /\ OthersRest(c) /\ DOMAIN result' = Caller /\ DOMAIN found' = Caller
      /\ pc'[c] = "unlock" /\ result'[c] = r
      /\ call'[c] = call[c] /\ fn'[c] = fn[c] /\ then'[c] = then[c] /\ found'[c] = found[c]
  BY <1>1, ListFacts DEF OthersRest, OthersStay
<1>3. FlowAt(c)
  BY ListFacts
<1>4. FlowAt(c)'
  BY <1>2, <1>3 DEF FlowAt, Flow
<1>5. \A s : Linked(s, heap, head, tail, size) /\ SpotAt(s, c) =>
        Spot(s, heap, size, pc'[c], fn'[c], then'[c], call'[c], result'[c], found'[c])
  BY <1>2 DEF SpotAt, Spot
<1> QED BY <1>1, <1>2, <1>4, <1>5, QuietStep

(* ... and with one.                                                        *)
LEMMA ListChangingEnd ==
  ASSUME LockInv, ListInv, NEW c \in Caller, pc[c] = "body", then[c] # "use",
         NEW r, r # "pending", Ends(c, r), call[c].op \notin Reads,
         HeapType(heap'), NEW t, Linked(t, heap', head', tail', size'),
         call[c].op \in Adds => DOMAIN heap \subseteq DOMAIN heap' /\ size <= size'
  PROVE  ListInv'
<1>1. /\ result' = [result EXCEPT ![c] = r] /\ pc' = [pc EXCEPT ![c] = "unlock"]
      /\ call' = call /\ fn' = fn /\ then' = then /\ found' = found
  BY DEF Ends
<1>2. /\ OthersRest(c) /\ DOMAIN result' = Caller /\ DOMAIN found' = Caller
      /\ pc'[c] = "unlock" /\ result'[c] = r
      /\ call'[c] = call[c] /\ fn'[c] = fn[c] /\ then'[c] = then[c] /\ found'[c] = found[c]
  BY <1>1, ListFacts DEF OthersRest, OthersStay
<1>3. FlowAt(c)
  BY ListFacts
<1>4. FlowAt(c)'
  BY <1>2, <1>3 DEF FlowAt, Flow
<1>5. Spot(t, heap', size', pc'[c], fn'[c], then'[c], call'[c], result'[c], found'[c])
  BY <1>2 DEF Spot, Reads
<1>6. pc[c] # "idle"
  OBVIOUS
<1> QED BY <1>2, <1>4, <1>5, <1>6, ChangingStep

(* insert_data and erase_node before they hand over.                        *)
LEMMA ListHandOver ==
  ASSUME LockInv, ListInv, NEW c \in Caller, pc[c] = "body",
         NEW f, NEW after, NEW how, HandOver(c, f, after, how), how \in {"lock", "yield"},
         \/ f \in Pushes /\ call[c].op = "insert" /\ after = "unlock"
         \/ f \in Pops /\ call[c].op = "erase" /\ after = "relock"
         \/ f = "get_node" /\ call[c].op \in {"insert", "erase"} /\ after = "use",
         f = "get_node" => call[c].index \in 1 .. size - 1
                           /\ (call[c].op = "erase" => call[c].index < size - 1),
         f \in {"push_front", "pop_front"} => call[c].index = 0,
         f = "push_back" => call[c].index = size,
         f = "pop_back" => call[c].index = size - 1
  PROVE  ListInv'
<1>1. /\ UNCHANGED <<heap, head, tail, size>>
      /\ fn' = [fn EXCEPT ![c] = f] /\ then' = [then EXCEPT ![c] = after]
      /\ pc' = [pc EXCEPT ![c] = how]
      /\ call' = call /\ found' = found /\ result' = result
  BY DEF HandOver, body
<1>2. /\ OthersRest(c) /\ DOMAIN result' = Caller /\ DOMAIN found' = Caller
      /\ pc'[c] = how /\ fn'[c] = f /\ then'[c] = after
      /\ call'[c] = call[c] /\ result'[c] = result[c] /\ found'[c] = found[c]
  BY <1>1, ListFacts DEF OthersRest, OthersStay
<1>3. FlowAt(c) /\ result[c] = "pending"
  BY ListFacts DEF FlowAt, Flow
<1>4. FlowAt(c)'
  <2>1. call[c].op # "get" /\ after # "read" /\ how \notin {"idle", "return", "read"}
    OBVIOUS
  <2>2. f \in {"none", "get_node"} \cup Adds \cup Frees \cup Reads
    BY DEF Adds, Frees, Pushes, Pops
  <2>3. call[c] # Nothing
    BY DEF Nothing
  <2> QED BY <1>2, <1>3, <2>1, <2>2, <2>3 DEF FlowAt, Flow, Pushes, Pops
<1>5. ASSUME NEW s, SpotAt(s, c)
      PROVE  Spot(s, heap, size, pc'[c], fn'[c], then'[c], call'[c], result'[c], found'[c])
  <2>1. pc'[c] \in {"lock", "yield"} /\ call'[c].op # "get"
    BY <1>2
  <2>2. /\ then'[c] = "use" => f = "get_node"
        /\ fn'[c] = f
    BY <1>2
  <2> QED BY <1>2, <2>1, <2>2 DEF Spot
<1> QED BY <1>1, <1>2, <1>4, <1>5, QuietStep

(* insert_data and erase_node look at the index, and hand over or fail.     *)
LEMMA ListInsert ==
  ASSUME LockInv, ListInv, NEW c \in Caller, pc[c] = "body", fn[c] = "insert", Insert(c)
  PROVE  ListInv'
<1> DEFINE i == call[c].index
<1>1. call[c].op = "insert" /\ then[c] # "use"
  BY ListFacts DEF FittingAt, Fitting
<1>2. i \in Nat /\ size \in Nat
  <2>1. call[c] \in Call
    BY <1>1, ListFacts DEF FlowAt, Flow, Nothing
  <2>2. size \in Nat
    BY DEF ListInv, Linked
  <2> QED BY <2>1, <2>2, CallParts
<1>3. \/ i = 0 /\ HandOver(c, "push_front", "unlock", "yield")
      \/ i = size /\ HandOver(c, "push_back", "unlock", "yield")
      \/ i # 0 /\ i < size /\ HandOver(c, "get_node", "use", "lock")
      \/ EndsUnchanged(c, "failed")
  BY DEF Insert
<1>4. i # 0 /\ i < size => i \in 1 .. size - 1
  BY <1>2
<1>5. CASE EndsUnchanged(c, "failed")
  BY <1>1, <1>5, ListQuietEnd
<1>6. CASE i = 0 /\ HandOver(c, "push_front", "unlock", "yield")
  BY <1>1, <1>6, ListHandOver DEF Pushes
<1>7. CASE i = size /\ HandOver(c, "push_back", "unlock", "yield")
  BY <1>1, <1>7, ListHandOver DEF Pushes
<1>8. CASE i # 0 /\ i < size /\ HandOver(c, "get_node", "use", "lock")
  BY <1>1, <1>4, <1>8, ListHandOver
<1> QED BY <1>3, <1>5, <1>6, <1>7, <1>8

LEMMA ListErase ==
  ASSUME LockInv, ListInv, NEW c \in Caller, pc[c] = "body", fn[c] = "erase", Erase(c)
  PROVE  ListInv'
<1> DEFINE i == call[c].index
<1>1. call[c].op = "erase" /\ then[c] # "use"
  BY ListFacts DEF FittingAt, Fitting
<1>2. i \in Nat /\ size \in Nat
  <2>1. call[c] \in Call
    BY <1>1, ListFacts DEF FlowAt, Flow, Nothing
  <2>2. size \in Nat
    BY DEF ListInv, Linked
  <2> QED BY <2>1, <2>2, CallParts
<1>3. \/ i = 0 /\ HandOver(c, "pop_front", "relock", "yield")
      \/ i = size - 1 /\ HandOver(c, "pop_back", "relock", "yield")
      \/ i # 0 /\ i < size - 1 /\ HandOver(c, "get_node", "use", "yield")
      \/ EndsUnchanged(c, "failed")
  BY DEF Erase
<1>4. i # 0 /\ i < size - 1 => i \in 1 .. size - 1
  BY <1>2
<1>5. CASE EndsUnchanged(c, "failed")
  BY <1>1, <1>5, ListQuietEnd
<1>6. CASE i = 0 /\ HandOver(c, "pop_front", "relock", "yield")
  BY <1>1, <1>6, ListHandOver DEF Pops
<1>7. CASE i = size - 1 /\ HandOver(c, "pop_back", "relock", "yield")
  BY <1>1, <1>7, ListHandOver DEF Pops
<1>8. CASE i # 0 /\ i < size - 1 /\ HandOver(c, "get_node", "use", "yield")
  BY <1>1, <1>4, <1>8, ListHandOver
<1> QED BY <1>3, <1>5, <1>6, <1>7, <1>8

(* get_node finds what is at its index: for a get, one within the list      *)
(* because the caller saw to it; for the others, because they looked.       *)
LEMMA ListGetNode ==
  ASSUME LockInv, ListInv, NEW c \in Caller, pc[c] = "body", fn[c] = "get_node",
         size # 0, GetNode(c)
  PROVE  ListInv'
<1>1. /\ UNCHANGED <<heap, head, tail, size>>
      /\ found' = [found EXCEPT ![c] = NodeAt(call[c].index)]
      /\ pc' = [pc EXCEPT ![c] = "unlock"]
      /\ call' = call /\ fn' = fn /\ then' = then /\ result' = result
  BY DEF GetNode, body
<1>2. /\ OthersRest(c) /\ DOMAIN result' = Caller /\ DOMAIN found' = Caller
      /\ pc'[c] = "unlock" /\ found'[c] = NodeAt(call[c].index)
      /\ call'[c] = call[c] /\ fn'[c] = fn[c] /\ then'[c] = then[c] /\ result'[c] = result[c]
  BY <1>1, ListFacts DEF OthersRest, OthersStay
<1>3. /\ FlowAt(c) /\ result[c] = "pending" /\ call[c] \in Call /\ call[c].index \in Nat
      /\ \/ call[c].op = "get" /\ then[c] = "read"
         \/ call[c].op \in {"insert", "erase"} /\ then[c] = "use"
  <2>1. /\ FlowAt(c) /\ result[c] = "pending" /\ call[c] \in Call
        /\ call[c].op = "get_node" \/ call[c].op \in {"get", "insert", "erase"}
        /\ call[c].op = "get" => then[c] = "read"
        /\ call[c].op # "get" => then[c] = "use"
    BY ListFacts DEF FlowAt, Flow, Pushes, Pops
  <2>2. call[c].op # "get_node" /\ call[c].index \in Nat
    BY <2>1, CallParts DEF Adds, Frees, Reads
  <2> QED BY <2>1, <2>2
<1>4. ASSUME NEW s, Linked(s, heap, head, tail, size), SpotAt(s, c)
      PROVE  /\ call[c].index \in 0 .. size - 1 /\ found'[c] = s[call[c].index]
             /\ found'[c] \in DOMAIN heap /\ found'[c] # NULL /\ found'[c] \in Node
  <2>1. HeapType(heap)
    BY DEF ListInv
  <2>2. size \in Nat /\ s \in [0 .. size - 1 -> DOMAIN heap] /\ NULL \notin DOMAIN heap
    BY <1>4, <2>1, ListEnds
  <2>3. call[c].index = 0 \/ call[c].index < size
    BY <1>3, <1>4, <2>2 DEF SpotAt, Spot
  <2>4. call[c].index \in 0 .. size - 1
    BY <1>3, <2>2, <2>3
  <2>5. found'[c] = s[call[c].index]
    BY <1>2, <1>4, <2>2, <2>4, NodeAtFinds
  <2> QED BY <2>1, <2>2, <2>4, <2>5 DEF HeapType
<1>5. FlowAt(c)'
  <2>1. PICK s : Linked(s, heap, head, tail, size) /\ SpotAt(s, c)
    BY DEF ListInv
  <2>2. found'[c] \in Node
    BY <1>4, <2>1
  <2> QED BY <1>2, <1>3, <2>2 DEF FlowAt, Flow
<1>6. ASSUME NEW s, Linked(s, heap, head, tail, size), SpotAt(s, c)
      PROVE  Spot(s, heap, size, pc'[c], fn'[c], then'[c], call'[c], result'[c], found'[c])
  <2>1. found'[c] = s[call[c].index] /\ found'[c] \in DOMAIN heap /\ found'[c] # NULL
    BY <1>4, <1>6
  <2> QED BY <1>2, <1>3, <1>6, <2>1 DEF SpotAt, Spot
<1> QED BY <1>1, <1>2, <1>5, <1>6, QuietStep

(* The functions that change the list under the lock they took.             *)
LEMMA GrownKeeps ==
  ASSUME LockInv, ListInv, NEW c \in Caller, pc[c] = "body", fn[c] \in Pushes, Ends(c, "ok"),
         NEW s, NEW i, NEW n, NEW d, Linked(s, heap, head, tail, size), Grown(s, i, n, d)
  PROVE  ListInv'
<1>1. call[c].op \in Adds /\ then[c] # "use"
  BY ListFacts DEF FittingAt, Fitting, FlowAt, Flow, Pushes, Pops, Adds
<1>2. size \in Nat
  BY DEF Linked
<1>3. DOMAIN heap \subseteq DOMAIN heap' /\ size <= size'
  BY <1>2 DEF Grown
<1>4. call[c].op \notin Reads
  BY <1>1 DEF Adds, Reads
<1>5. HeapType(heap') /\ Linked(Inserted(s, size, i, n), heap', head', tail', size')
  BY DEF Grown
<1> QED BY <1>1, <1>3, <1>4, <1>5, ListChangingEnd

LEMMA ShrunkKeeps ==
  ASSUME LockInv, ListInv, NEW c \in Caller, pc[c] = "body", fn[c] \in Pops,
         NEW r \in Datum, Ends(c, r),
         NEW s, NEW i, Linked(s, heap, head, tail, size), Shrunk(s, i)
  PROVE  ListInv'
<1>1. call[c].op \in Frees /\ then[c] # "use"
  BY ListFacts DEF FittingAt, Fitting, FlowAt, Flow, Pushes, Pops, Frees
<1>2. call[c].op \notin Reads /\ call[c].op \notin Adds
  BY <1>1 DEF Adds, Frees, Reads
<1>3. HeapType(heap') /\ Linked(Removed(s, size, i), heap', head', tail', size')
  BY DEF Shrunk
<1>4. r # "pending"
  BY Constants
<1> QED BY <1>1, <1>2, <1>3, <1>4, ListChangingEnd

LEMMA ListAdd ==
  ASSUME LockInv, ListInv, NEW c \in Caller, pc[c] = "body", Add(c)
  PROVE  ListInv'
<1>1. PICK s : Linked(s, heap, head, tail, size)
  BY DEF ListInv
<1>2. /\ fn[c] \in Pushes
      /\ \/ EndsUnchanged(c, "failed")
         \/ \E n \in Node \ DOMAIN heap :
              IF fn[c] = "push_front" THEN PushFront(c, n) ELSE PushBack(c, n)
  BY DEF Add, Pushes
<1>3. /\ HeapType(heap) /\ then[c] # "use" /\ call[c] \in Call /\ call[c].op \in Adds
  BY <1>2, ListFacts DEF ListInv, FittingAt, Fitting, FlowAt, Flow, Pushes, Pops, Adds
<1>4. call[c].datum \in Datum
  BY <1>3, CallParts
<1>5. CASE EndsUnchanged(c, "failed")
  BY <1>3, <1>5, ListQuietEnd
<1>6. ASSUME NEW n \in Node \ DOMAIN heap, PushFront(c, n) PROVE ListInv'
  <2>1. Grown(s, 0, n, call[c].datum)
    BY <1>1, <1>3, <1>4, <1>6, PushFrontGrows
  <2>2. Ends(c, "ok")
    BY <1>6 DEF PushFront
  <2> QED BY <1>1, <1>2, <2>1, <2>2, GrownKeeps
<1>7. ASSUME NEW n \in Node \ DOMAIN heap, PushBack(c, n) PROVE ListInv'
  <2>1. Grown(s, size, n, call[c].datum)
    BY <1>1, <1>3, <1>4, <1>7, PushBackGrows
  <2>2. Ends(c, "ok")
    BY <1>7 DEF PushBack
  <2> QED BY <1>1, <1>2, <2>1, <2>2, GrownKeeps
<1> QED BY <1>2, <1>5, <1>6, <1>7

(* What the ends of a list that is not empty hold.                          *)
LEMMA EndsHold ==
  ASSUME ListInv, size # 0
  PROVE  heap[head].data \in Datum /\ heap[tail].data \in Datum
<1>1. PICK s : Linked(s, heap, head, tail, size)
  BY DEF ListInv
<1>2. HeapType(heap)
  BY DEF ListInv
<1>3. head \in DOMAIN heap /\ tail \in DOMAIN heap
  BY <1>1, <1>2, ListEnds
<1>4. heap[head] \in NodeType /\ heap[tail] \in NodeType
  BY <1>2, <1>3 DEF HeapType
<1> QED BY <1>4 DEF NodeType

(* The functions that need an element ...                                   *)
LEMMA ListNonEmpty ==
  ASSUME LockInv, ListInv, NEW c \in Caller, pc[c] = "body", size # 0, NonEmpty(c)
  PROVE  ListInv'
<1>1. PICK s : Linked(s, heap, head, tail, size)
  BY DEF ListInv
<1>2. HeapType(heap) /\ heap[head].data \in Datum /\ heap[tail].data \in Datum
  BY EndsHold DEF ListInv
<1>3. heap[head].data # "pending" /\ heap[tail].data # "pending"
  BY <1>2, Constants
<1>4. then[c] = "use" => fn[c] = "get_node"
  BY ListFacts DEF FittingAt, Fitting
<1>5. CASE fn[c] = "pop_front" /\ PopFront(c)
  <2>1. Shrunk(s, 0)
    BY <1>1, <1>2, <1>5, PopFrontShrinks
  <2>2. Ends(c, heap[head].data) /\ fn[c] \in Pops
    BY <1>5 DEF PopFront, Pops
  <2> QED BY <1>1, <1>2, <2>1, <2>2, ShrunkKeeps
<1>6. CASE fn[c] = "pop_back" /\ PopBack(c)
  <2>1. Shrunk(s, size - 1)
    BY <1>1, <1>2, <1>6, PopBackShrinks
  <2>2. Ends(c, heap[tail].data) /\ fn[c] \in Pops
    BY <1>6 DEF PopBack, Pops
  <2> QED BY <1>1, <1>2, <2>1, <2>2, ShrunkKeeps
<1>7. CASE fn[c] = "seek_front" /\ EndsUnchanged(c, heap[head].data)
  <2>1. then[c] # "use"
    BY <1>4, <1>7
  <2> QED BY <1>3, <1>7, <2>1, ListQuietEnd
<1>8. CASE fn[c] = "seek_back" /\ EndsUnchanged(c, heap[tail].data)
  <2>1. then[c] # "use"
    BY <1>4, <1>8
  <2> QED BY <1>3, <1>8, <2>1, ListQuietEnd
<1>9. CASE fn[c] = "erase" /\ Erase(c)
  BY <1>9, ListErase
<1>10. CASE fn[c] = "get_node" /\ GetNode(c)
  BY <1>10, ListGetNode
<1>11. CASE fn[c] \in {"clear", "delete"} /\ Clear(c)
  <2>1. HeapType(heap') /\ Linked(<<>>, heap', head', tail', size')
    BY <1>1, <1>2, <1>11, ClearEmpties
  <2>2. call[c].op \in {"clear", "delete"} /\ then[c] # "use"
    BY <1>11, ListFacts DEF FittingAt, Fitting, FlowAt, Flow, Pushes, Pops
  <2>3. call[c].op \notin Reads /\ call[c].op \notin Adds
    BY <2>2 DEF Adds, Reads
  <2>4. Ends(c, "ok")
    BY <1>11 DEF Clear
  <2> QED BY <2>1, <2>2, <2>3, <2>4, ListChangingEnd
<1> QED BY <1>5, <1>6, <1>7, <1>8, <1>9, <1>10, <1>11 DEF NonEmpty

(* ... and all there is under the lock.                                     *)
LEMMA ListBody ==
  ASSUME LockInv, ListInv, NEW c \in Caller, Body(c)
  PROVE  ListInv'
<1>1. PICK s : Linked(s, heap, head, tail, size) /\ SpotAt(s, c)
  BY DEF ListInv
<1>2. Valid /\ size \in Nat
  BY <1>1, ListEnds DEF ListInv
<1>3. /\ pc[c] = "body"
      /\ \/ Add(c)
         \/ fn[c] = "insert" /\ Insert(c)
         \/ size = 0 /\ EndsUnchanged(c, "empty")
         \/ size # 0 /\ NonEmpty(c)
  BY <1>2 DEF Body
<1>4. then[c] = "use" => size # 0
  BY <1>1, <1>2 DEF SpotAt, Spot
<1>5. CASE size = 0 /\ EndsUnchanged(c, "empty")
  BY <1>3, <1>4, <1>5, ListQuietEnd
<1> QED BY <1>3, <1>5, ListAdd, ListInsert, ListNonEmpty

-----------------------------------------------------------------------------
(* insert_data and erase_node on the node that they found.                  *)
LEMMA ListInsertUse ==
  ASSUME LockInv, ListInv, NEW c \in Caller, InsertUse(c)
  PROVE  ListInv'
<1>1. PICK s : Linked(s, heap, head, tail, size) /\ \A d \in Caller : SpotAt(s, d)
  BY DEF ListInv
<1>2. /\ pc[c] = "use" /\ call[c].op = "insert" /\ then[c] = "use"
      /\ call' = call /\ fn' = fn /\ found' = found
      /\ then' = [then EXCEPT ![c] = "return"] /\ pc' = [pc EXCEPT ![c] = "unlock"]
      /\ \E r \in {"ok", "failed"} : result' = [result EXCEPT ![c] = r]
  BY ListFacts DEF InsertUse, FittingAt, Fitting
<1>3. /\ OthersRest(c) /\ DOMAIN result' = Caller /\ DOMAIN found' = Caller
      /\ pc'[c] = "unlock" /\ then'[c] = "return" /\ result'[c] \in {"ok", "failed"}
      /\ call'[c] = call[c] /\ fn'[c] = fn[c] /\ found'[c] = found[c]
  BY <1>2, ListFacts DEF OthersRest, OthersStay
<1>4. FlowAt(c)
  BY ListFacts
<1>5. FlowAt(c)'
  BY <1>2, <1>3, <1>4 DEF FlowAt, Flow
<1>6. \A t, h, N : Spot(t, h, N, pc'[c], fn'[c], then'[c], call'[c], result'[c], found'[c])
  BY <1>2, <1>3 DEF Spot
<1>7. CASE UNCHANGED <<size, heap>>
  <2>1. UNCHANGED <<heap, head, tail, size>>
    BY <1>7 DEF InsertUse
  <2> QED BY <1>3, <1>5, <1>6, <2>1, QuietStep
<1>8. CASE ~UNCHANGED <<size, heap>>
  <2> DEFINE i == call[c].index
  <2>1. i \in 1 .. size - 1 /\ found[c] = s[i]
    <3>1. SpotAt(s, c)
      BY <1>1
    <3> QED BY <1>2, <3>1 DEF SpotAt, Spot
  <2>2. call[c].datum \in Datum
    <3>1. call[c] \in Call /\ call[c].op \in Adds
      BY <1>2, <1>4 DEF FlowAt, Flow, Adds
    <3> QED BY <3>1, CallParts
  <2>3. PICK n \in Node \ DOMAIN heap :
          /\ size' = size + 1 /\ head' = head /\ tail' = tail
          /\ heap' = Allocated([heap EXCEPT ![heap[s[i]].prev].next = n, ![s[i]].prev = n], n,
                       [next |-> s[i], prev |-> heap[s[i]].prev, data |-> call[c].datum])
    BY <1>8, <2>1 DEF InsertUse
  <2>4. HeapType(heap)
    BY DEF ListInv
  <2>5. Grown(s, i, n, call[c].datum)
    <3> HIDE DEF i
    <3> QED BY <1>1, <2>1, <2>2, <2>3, <2>4, InsertUseGrows
  <2>6. /\ HeapType(heap') /\ DOMAIN heap \subseteq DOMAIN heap' /\ size <= size'
        /\ Linked(Inserted(s, size, i, n), heap', head', tail', size')
    <3>1. size \in Nat
      BY <1>1 DEF Linked
    <3> QED BY <2>5, <3>1 DEF Grown
  <2>7. pc[c] # "idle" /\ call[c].op \notin Reads
    BY <1>2 DEF Reads
  <2> QED BY <1>3, <1>5, <1>6, <2>6, <2>7, ChangingStep
<1> QED BY <1>7, <1>8

LEMMA ListEraseUse ==
  ASSUME LockInv, ListInv, NEW c \in Caller, EraseUse(c)
  PROVE  ListInv'
<1>1. PICK s : Linked(s, heap, head, tail, size) /\ \A d \in Caller : SpotAt(s, d)
  BY DEF ListInv
<1>2. /\ pc[c] = "use" /\ call[c].op = "erase" /\ then[c] = "use"
      /\ call' = call /\ fn' = fn /\ found' = found
      /\ then' = [then EXCEPT ![c] = "return"] /\ pc' = [pc EXCEPT ![c] = "unlock"]
      /\ result' = [result EXCEPT ![c] = heap[found[c]].data]
  BY ListFacts DEF EraseUse, FittingAt, Fitting
<1> DEFINE i == call[c].index
<1>3. i \in 1 .. size - 2 /\ found[c] = s[i]
  <2>1. SpotAt(s, c)
    BY <1>1
  <2>2. size \in Nat
    BY <1>1 DEF Linked
  <2>3. i \in 1 .. size - 1 /\ i < size - 1 /\ found[c] = s[i]
    BY <1>2, <2>1 DEF SpotAt, Spot
  <2> QED BY <2>2, <2>3
<1>4. heap[found[c]].data # "pending"
  <2>1. found[c] \in DOMAIN heap
    <3>1. size \in Nat /\ s \in [0 .. size - 1 -> DOMAIN heap]
      BY <1>1 DEF Linked
    <3> QED BY <1>3, <3>1
  <2>2. heap[found[c]] \in NodeType
    BY <2>1 DEF ListInv, HeapType
  <2>3. heap[found[c]].data \in Datum
    BY <2>2 DEF NodeType
  <2> QED BY <2>3, Constants
<1>5. /\ OthersRest(c) /\ DOMAIN result' = Caller /\ DOMAIN found' = Caller
      /\ pc'[c] = "unlock" /\ then'[c] = "return" /\ result'[c] # "pending"
      /\ call'[c] = call[c] /\ fn'[c] = fn[c] /\ found'[c] = found[c]
  BY <1>2, <1>4, ListFacts DEF OthersRest, OthersStay
<1>6. FlowAt(c)
  BY ListFacts
<1>7. FlowAt(c)'
  BY <1>2, <1>5, <1>6 DEF FlowAt, Flow
<1>8. \A t, h, N : Spot(t, h, N, pc'[c], fn'[c], then'[c], call'[c], result'[c], found'[c])
  BY <1>2, <1>5 DEF Spot
<1>9. Shrunk(s, i)
  <2>1. HeapType(heap)
    BY DEF ListInv
  <2> HIDE DEF i
  <2> QED BY <1>1, <1>3, <2>1, EraseUseShrinks
<1>10. HeapType(heap') /\ Linked(Removed(s, size, i), heap', head', tail', size')
  BY <1>9 DEF Shrunk
<1>11. pc[c] # "idle" /\ call[c].op \notin Reads /\ call[c].op \notin Adds
  BY <1>2 DEF Reads, Adds
<1> QED BY <1>5, <1>7, <1>8, <1>10, <1>11, ChangingStep

-----------------------------------------------------------------------------
(* The invariant and what follows from it.                                  *)

(* That what the steps update are functions over the callers.               *)
ShapeInv ==
  /\ made \in BOOLEAN
  /\ call = [c \in Caller |-> call[c]]
  /\ fn = [c \in Caller |-> fn[c]]
  /\ found = [c \in Caller |-> found[c]]

QListInv == LockInv /\ ListInv /\ ShapeInv

(* Every step updates them in place.                                        *)
LEMMA ShapeKeeps ==
  ASSUME ShapeInv, [Next]_vars
  PROVE  ShapeInv'
<1> DEFINE Updates ==
             /\ \/ call' = call
                \/ \E c \in Caller : \E q : call' = [call EXCEPT ![c] = q]
             /\ \/ fn' = fn
                \/ \E c \in Caller : \E f : fn' = [fn EXCEPT ![c] = f]
             /\ \/ found' = found
                \/ \E c \in Caller : \E n : found' = [found EXCEPT ![c] = n]
             /\ made' \in {made, TRUE, FALSE}
<1>1. Updates
  <2>1. CASE UNCHANGED vars
    BY <2>1 DEF vars, body, flow
  <2>2. ASSUME NEW c \in Caller, Create(c) PROVE Updates
    BY <2>2 DEF Create, flow
  <2>3. ASSUME NEW c \in Caller, Begin(c) PROVE Updates
    BY <2>3 DEF Begin, body
  <2>4. ASSUME NEW c \in Caller, Lock(c) \/ Yield(c) \/ Relock(c) \/ Unlock(c) PROVE Updates
    BY <2>4 DEF Lock, Yield, Relock, Unlock, body
  <2>5. ASSUME NEW c \in Caller, GetRead(c) \/ Destroy(c) \/ Return(c) PROVE Updates
    BY <2>5 DEF GetRead, Destroy, Return, body
  <2>6. ASSUME NEW c \in Caller, InsertUse(c) \/ EraseUse(c) PROVE Updates
    BY <2>6 DEF InsertUse, EraseUse
  <2>7. ASSUME NEW c \in Caller, Body(c) PROVE Updates
    <3>1. ASSUME NEW r, EndsUnchanged(c, r) \/ Ends(c, r) PROVE Updates
      BY <3>1 DEF EndsUnchanged, Ends
    <3>2. ASSUME NEW f, NEW a, NEW h, HandOver(c, f, a, h) PROVE Updates
      BY <3>2 DEF HandOver, body
    <3>3. Insert(c) => Updates
      BY <3>1, <3>2 DEF Insert
    <3>4. Erase(c) => Updates
      BY <3>1, <3>2 DEF Erase
    <3>5. GetNode(c) => Updates
      BY DEF GetNode, body
    <3>6. Add(c) => Updates
      BY <3>1 DEF Add, PushFront, PushBack
    <3>7. NonEmpty(c) => Updates
      BY <3>1, <3>4, <3>5 DEF NonEmpty, PopFront, PopBack, Clear
    <3> QED BY <2>7, <3>1, <3>3, <3>6, <3>7 DEF Body
  <2> QED BY <2>1, <2>2, <2>3, <2>4, <2>5, <2>6, <2>7 DEF Next
<1>2. made' \in BOOLEAN
  BY <1>1 DEF ShapeInv
<1>3. call' = [c \in Caller |-> call'[c]]
  BY <1>1 DEF ShapeInv
<1>4. fn' = [c \in Caller |-> fn'[c]]
  BY <1>1 DEF ShapeInv
<1>5. found' = [c \in Caller |-> found'[c]]
  BY <1>1 DEF ShapeInv
<1> QED BY <1>2, <1>3, <1>4, <1>5 DEF ShapeInv

(* The list is well formed across every step.                               *)
LEMMA ListInductive ==
  ASSUME LockInv, ListInv, Disciplined, [Next]_vars
  PROVE  ListInv'
<1>1. CASE UNCHANGED vars
  <2>1. UNCHANGED <<head, tail, size, heap, pc, call, fn, then, found, result>>
    BY <1>1 DEF vars, body, flow
  <2> QED BY <2>1 DEF ListInv, FlowAt, SpotAt
<1> QED BY <1>1, ListBegin, ListMove, ListReturn, ListBody, ListInsertUse, ListEraseUse DEF Next

(* Under the same assumptions the invariant holds in every state: the       *)
(* locking, where each call is, and the nodes linked one after the other.   *)
THEOREM QListInvariant ==
  ASSUME MutexFits, Disciplined
  PROVE  Spec => []QListInv
<1>1. Init => QListInv
  BY InitInv, ListInit DEF QListInv, Init, ShapeInv
<1>2. QListInv /\ [Next]_vars => QListInv'
  BY LockInductive, ListInductive, ShapeKeeps DEF QListInv
<1> QED BY <1>1, <1>2, PTL DEF Spec

(* The variables keep their types: the size never leaves the room there is, *)
(* no pointer leaves the nodes, and no caller locks the mutex a third time. *)
THEOREM QListTypeOK ==
  ASSUME MutexFits, Disciplined
  PROVE  Spec => []TypeOK
<1>1. ASSUME QListInv PROVE TypeOK
  <2> USE <1>1
  <2>1. PICK s : Linked(s, heap, head, tail, size)
    BY DEF QListInv, ListInv
  <2>2. HeapType(heap) /\ size \in Nat
    BY <2>1 DEF QListInv, ListInv, Linked
  <2>3. {head, tail} \subseteq Node \cup {NULL}
    BY <2>1, <2>2, ListEnds DEF HeapType
  <2>4. size \in 0 .. Cardinality(Node)
    <3>1. Cardinality(DOMAIN heap) = size
      BY <2>1, LinkedCount
    <3>2. Cardinality(DOMAIN heap) <= Cardinality(Node) /\ Cardinality(Node) \in Nat
      BY <2>2, Constants, FS_Subset, FS_CardinalityType DEF HeapType
    <3> QED BY <2>2, <3>1, <3>2
  <2>5. owner \in Caller \cup {NULL} /\ depth \in 0 .. 2
    <3>1. owner \in Caller \cup {NULL} /\ (owner = NULL => depth = 0)
      BY DEF QListInv, LockInv
    <3>2. ASSUME owner \in Caller PROVE depth \in {0, 1, 2}
      <4>1. depth = HeldBy(owner)
        BY <3>2 DEF QListInv, LockInv, CountAt
      <4> QED BY <4>1 DEF HeldBy, Held, Around
    <3> QED BY <3>1, <3>2
  <2>6. \A c \in Caller : FlowAt(c)
    BY DEF QListInv, ListInv
  <2>7. call \in [Caller -> Call \cup {Nothing}]
    BY <2>6 DEF QListInv, ShapeInv, FlowAt, Flow
  <2>8. fn \in [Caller -> {"none", "get_node"} \cup Adds \cup Frees \cup Reads]
    BY <2>6 DEF QListInv, ShapeInv, FlowAt, Flow
  <2>9. found \in [Caller -> Node \cup {NULL}]
    BY <2>6 DEF QListInv, ShapeInv, FlowAt, Flow
  <2>10. pc \in [Caller -> Pcs] /\ then \in [Caller -> Thens]
    BY DEF QListInv, LockInv, ControlType
  <2>11. made \in BOOLEAN
    BY DEF QListInv, ShapeInv
  <2> QED BY <2>2, <2>3, <2>4, <2>5, <2>7, <2>8, <2>9, <2>10, <2>11
          DEF TypeOK, HeapType, NodeType, Pcs, Thens
<1> QED BY <1>1, QListInvariant, PTL

(* Under the same assumptions the nodes form one list that reads the same   *)
(* from both ends, whatever the callers do and at every step of theirs.     *)
THEOREM ListIsWellFormed ==
  ASSUME MutexFits, Disciplined
  PROVE  Spec => []WellFormed
<1>1. ASSUME QListInv PROVE WellFormed
  <2>1. PICK s : Linked(s, heap, head, tail, size)
    BY <1>1 DEF QListInv, ListInv
  <2>2. /\ Valid /\ size \in Nat /\ s \in [0 .. size - 1 -> DOMAIN heap]
        /\ NULL \notin DOMAIN heap
    BY <1>1, <2>1, ListEnds DEF QListInv, ListInv
  <2>3. size = Cardinality(DOMAIN heap)
    BY <2>1, LinkedCount
  <2>4. /\ \A k \in Nat : Forward[k] = IF k < size THEN s[k] ELSE NULL
        /\ \A k \in Nat : Backward[k] = IF k < size THEN s[size - 1 - k] ELSE NULL
    BY <2>1, <2>2, ForwardWalks, BackwardWalks
  <2>5. {Forward[k] : k \in 0 .. (size - 1)} = DOMAIN heap
    <3>1. \A k \in 0 .. size - 1 : Forward[k] = s[k] /\ s[k] \in DOMAIN heap
      BY <2>2, <2>4
    <3>2. \A n \in DOMAIN heap : \E k \in 0 .. size - 1 : s[k] = n
      BY <2>1 DEF Linked
    <3> QED BY <3>1, <3>2
  <2>6. ASSUME NEW k \in 0 .. (size - 1) PROVE Forward[k] = Backward[size - 1 - k]
    <3>1. k \in Nat /\ k < size /\ size - 1 - k \in Nat /\ size - 1 - k < size
          /\ size - 1 - (size - 1 - k) = k
      BY <2>2
    <3>2. Backward[size - 1 - k] = s[k]
      BY <2>4, <3>1
    <3> QED BY <2>4, <3>1, <3>2
  <2>7. Forward[size] = NULL /\ Backward[size] = NULL
    BY <2>2, <2>4
  <2> QED BY <2>2, <2>3, <2>5, <2>6, <2>7 DEF WellFormed
<1> QED BY <1>1, QListInvariant, PTL

(* Under the same assumptions a node that get_node returned is still in the *)
(* list, with the neighbours that are to be joined, when it is used, though *)
(* the lock was given up since.                                             *)
THEOREM NodesInUseAreLive ==
  ASSUME MutexFits, Disciplined
  PROVE  Spec => []UsesLiveNode
<1>1. ASSUME QListInv, NEW c \in Caller
      PROVE  /\ pc[c] \in {"use", "read"} => found[c] \in DOMAIN heap
             /\ pc[c] = "use" => heap[found[c]].prev \in DOMAIN heap
             /\ pc[c] = "use" /\ call[c].op = "erase" => heap[found[c]].next \in DOMAIN heap
  <2>1. PICK s : Linked(s, heap, head, tail, size) /\ SpotAt(s, c)
    BY <1>1 DEF QListInv, ListInv
  <2>2. FittingAt(c) /\ FlowAt(c)
    BY <1>1, ListFacts DEF QListInv
  <2>3. pc[c] = "read" => found[c] \in DOMAIN heap
    BY <2>1, <2>2 DEF FlowAt, Flow, SpotAt, Spot
  <2>4. ASSUME pc[c] = "use"
        PROVE  /\ found[c] \in DOMAIN heap /\ heap[found[c]].prev \in DOMAIN heap
               /\ call[c].op = "erase" => heap[found[c]].next \in DOMAIN heap
    <3> DEFINE i == call[c].index
    <3>1. i \in 1 .. size - 1 /\ found[c] = s[i] /\ (call[c].op = "erase" => i < size - 1)
      BY <2>1, <2>2, <2>4 DEF FittingAt, Fitting, SpotAt, Spot
    <3>2. size \in Nat /\ s \in [0 .. size - 1 -> DOMAIN heap]
      BY <2>1 DEF Linked
    <3>3. /\ i \in 0 .. size - 1 /\ i # 0 /\ i - 1 \in 0 .. size - 1
          /\ i < size - 1 => i # size - 1 /\ i + 1 \in 0 .. size - 1
      BY <3>1, <3>2
    <3> HIDE DEF i
    <3>4. /\ heap[s[i]].next = IF i = size - 1 THEN NULL ELSE s[i + 1]
          /\ heap[s[i]].prev = IF i = 0 THEN NULL ELSE s[i - 1]
      BY <2>1, <3>3 DEF Linked
    <3> QED BY <3>1, <3>2, <3>3, <3>4
  <2> QED BY <2>3, <2>4
<1>2. QListInv => UsesLiveNode
  BY <1>1 DEF UsesLiveNode
<1> QED BY <1>2, QListInvariant, PTL

-----------------------------------------------------------------------------
(* What the list holds, as a sequence.                                      *)

(* What the list s in the heap h holds.                                     *)
Data(s, h, N) == [k \in 1 .. N |-> h[s[k - 1]].data]

(* The refinement mapping, along the nodes of the list ...                  *)
LEMMA ContentsAre ==
  \A s : Linked(s, heap, head, tail, size) /\ NULL \notin DOMAIN heap =>
           Contents = Data(s, heap, size)
<1> SUFFICES ASSUME NEW s, Linked(s, heap, head, tail, size), NULL \notin DOMAIN heap
             PROVE  Contents = Data(s, heap, size)
  OBVIOUS
<1>1. size \in Nat
  BY DEF Linked
<1>2. \A k \in 1 .. size : Forward[k - 1] = s[k - 1]
  <2> SUFFICES ASSUME NEW k \in 1 .. size PROVE Forward[k - 1] = s[k - 1]
    OBVIOUS
  <2>1. k - 1 \in Nat /\ k - 1 < size
    BY <1>1
  <2> QED BY <2>1, ForwardWalks
<1> QED BY <1>2 DEF Contents, Data

(* ... before and after a step.                                             *)
LEMMA ContentsAreNext ==
  (\A s : Linked(s, heap, head, tail, size) /\ NULL \notin DOMAIN heap =>
            Contents = Data(s, heap, size))'
  BY ContentsAre, PTL

(* It is a sequence of data, with one element for each node.                *)
LEMMA DataIsSeq ==
  ASSUME NEW s, NEW h, NEW x, NEW y, NEW N, Linked(s, h, x, y, N), HeapType(h)
  PROVE  /\ Data(s, h, N) \in Seq(Datum) /\ Len(Data(s, h, N)) = N /\ N \in Nat
         /\ DOMAIN Data(s, h, N) = 1 .. N
         /\ \A k \in 1 .. N : Data(s, h, N)[k] = h[s[k - 1]].data
<1>1. N \in Nat /\ s \in [0 .. N - 1 -> DOMAIN h]
  BY DEF Linked
<1>2. ASSUME NEW k \in 1 .. N PROVE h[s[k - 1]].data \in Datum
  <2>1. k - 1 \in 0 .. N - 1
    BY <1>1
  <2>2. h[s[k - 1]] \in NodeType
    BY <1>1, <2>1 DEF HeapType
  <2> QED BY <2>2 DEF NodeType
<1>3. Data(s, h, N) \in [1 .. N -> Datum]
  BY <1>2 DEF Data
<1>4. Data(s, h, N) \in Seq(Datum)
  BY <1>1, <1>3, SeqDef
<1>5. DOMAIN Data(s, h, N) = 1 .. N /\ \A k \in 1 .. N : Data(s, h, N)[k] = h[s[k - 1]].data
  BY DEF Data
<1>6. Len(Data(s, h, N)) = N
  BY <1>1, <1>4, <1>5, LenProperties
<1> QED BY <1>1, <1>4, <1>5, <1>6

(* What the operators of the abstract list return, place by place.          *)
LEMMA InsertAtIs ==
  ASSUME NEW D, NEW a \in Seq(D), NEW d \in D, NEW i \in 1 .. Len(a) + 1,
         NEW b \in Seq(D), Len(b) = Len(a) + 1, b[i] = d,
         \A k \in 1 .. Len(a) : k < i => b[k] = a[k],
         \A k \in 1 .. Len(a) + 1 : k > i => b[k] = a[k - 1]
  PROVE  b = Shared!InsertAt(a, i, d)
<1> DEFINE p == SubSeq(a, 1, i - 1)
           q == SubSeq(a, i, Len(a))
           c == p \o <<d>>
<1>1. Len(a) \in Nat /\ \A k \in 1 .. Len(a) : a[k] \in D
  BY LenProperties, ElementOfSeq
<1>2. /\ p \in Seq(D) /\ Len(p) = i - 1 /\ \A k \in 1 .. i - 1 : p[k] = a[k]
  <2>1. \A k \in 1 .. i - 1 : a[k] \in D
    BY <1>1
  <2>2. /\ p \in Seq(D) /\ Len(p) = IF 1 <= i - 1 THEN i - 1 - 1 + 1 ELSE 0
        /\ \A k \in 1 .. i - 1 - 1 + 1 : p[k] = a[1 + k - 1]
    BY <1>1, <2>1, SubSeqProperties
  <2> HIDE DEF p
  <2> QED BY <1>1, <2>2
<1>3. /\ q \in Seq(D) /\ Len(q) = Len(a) - i + 1
      /\ \A k \in 1 .. Len(a) - i + 1 : q[k] = a[i + k - 1]
  <2>1. \A k \in i .. Len(a) : a[k] \in D
    BY <1>1
  <2>2. /\ q \in Seq(D) /\ Len(q) = IF i <= Len(a) THEN Len(a) - i + 1 ELSE 0
        /\ \A k \in 1 .. Len(a) - i + 1 : q[k] = a[i + k - 1]
    BY <1>1, <2>1, SubSeqProperties
  <2> HIDE DEF q
  <2> QED BY <1>1, <2>2
<1> HIDE DEF p, q
<1>4. <<d>> \in Seq(D) /\ Len(<<d>>) = 1 /\ <<d>>[1] = d
  OBVIOUS
<1>5. /\ c \in Seq(D) /\ Len(c) = i
      /\ \A k \in 1 .. i : c[k] = IF k <= i - 1 THEN a[k] ELSE d
  <2>1. /\ c \in Seq(D) /\ Len(c) = Len(p) + 1
        /\ \A k \in 1 .. Len(p) + 1 : c[k] = IF k <= Len(p) THEN p[k] ELSE <<d>>[k - Len(p)]
    BY <1>2, <1>4, ConcatProperties
  <2> HIDE DEF c
  <2>2. c \in Seq(D) /\ Len(c) = i
    BY <1>1, <1>2, <2>1
  <2>3. ASSUME NEW k \in 1 .. i PROVE c[k] = IF k <= i - 1 THEN a[k] ELSE d
    <3>1. c[k] = IF k <= i - 1 THEN p[k] ELSE <<d>>[k - (i - 1)]
      BY <1>1, <1>2, <2>1
    <3>2. CASE k <= i - 1
      BY <1>1, <1>2, <3>1, <3>2
    <3>3. CASE k = i
      <4>1. k - (i - 1) = 1 /\ ~(k <= i - 1)
        BY <1>1, <3>3
      <4> QED BY <1>4, <3>1, <4>1
    <3> QED BY <1>1, <3>2, <3>3
  <2> QED BY <2>2, <2>3
<1> HIDE DEF c
<1>6. /\ c \o q \in Seq(D) /\ Len(c \o q) = Len(a) + 1
      /\ \A k \in 1 .. Len(a) + 1 :
           (c \o q)[k] = IF k < i THEN a[k] ELSE IF k = i THEN d ELSE a[k - 1]
  <2>1. /\ c \o q \in Seq(D) /\ Len(c \o q) = Len(c) + Len(q)
        /\ \A k \in 1 .. Len(c) + Len(q) :
             (c \o q)[k] = IF k <= Len(c) THEN c[k] ELSE q[k - Len(c)]
    BY <1>3, <1>5, ConcatProperties
  <2> DEFINE e == c \o q
  <2> HIDE DEF e
  <2>2. e \in Seq(D) /\ Len(e) = Len(a) + 1
    BY <1>1, <1>3, <1>5, <2>1 DEF e
  <2>3. ASSUME NEW k \in 1 .. Len(a) + 1
        PROVE  e[k] = IF k < i THEN a[k] ELSE IF k = i THEN d ELSE a[k - 1]
    <3>1. e[k] = IF k <= i THEN c[k] ELSE q[k - i]
      BY <1>1, <1>3, <1>5, <2>1 DEF e
    <3>2. CASE k <= i
      <4>1. k \in 1 .. i /\ (k <= i - 1 <=> k < i) /\ (~(k < i) => k = i)
        BY <1>1, <3>2
      <4>2. c[k] = IF k <= i - 1 THEN a[k] ELSE d
        BY <1>5, <4>1
      <4>3. e[k] = c[k]
        BY <3>1, <3>2
      <4> QED BY <4>1, <4>2, <4>3
    <3>3. CASE k > i
      <4>1. k - i \in 1 .. Len(a) - i + 1 /\ i + (k - i) - 1 = k - 1
        BY <1>1, <3>3
      <4>2. q[k - i] = a[k - 1]
        BY <1>3, <4>1
      <4> QED BY <1>1, <3>1, <3>3, <4>2
    <3> QED BY <1>1, <3>2, <3>3
  <2> QED BY <2>2, <2>3 DEF e
<1>7. Shared!InsertAt(a, i, d) = c \o q
  BY DEF Shared!InsertAt, c, p, q
<1>8. \A k \in 1 .. Len(b) : b[k] = (c \o q)[k]
  <2> SUFFICES ASSUME NEW k \in 1 .. Len(b) PROVE b[k] = (c \o q)[k]
    OBVIOUS
  <2>1. k \in 1 .. Len(a) + 1
    OBVIOUS
  <2>2. (c \o q)[k] = IF k < i THEN a[k] ELSE IF k = i THEN d ELSE a[k - 1]
    BY <1>6, <2>1
  <2>3. b[k] = IF k < i THEN a[k] ELSE IF k = i THEN d ELSE a[k - 1]
    BY <1>1, <2>1
  <2> QED BY <2>2, <2>3
<1> QED BY <1>6, <1>7, <1>8, SeqEqual

LEMMA RemoveAtIs ==
  ASSUME NEW D, NEW a \in Seq(D), NEW i \in 1 .. Len(a),
         NEW b \in Seq(D), Len(b) = Len(a) - 1,
         \A k \in 1 .. Len(a) - 1 : k < i => b[k] = a[k],
         \A k \in 1 .. Len(a) - 1 : k >= i => b[k] = a[k + 1]
  PROVE  b = Shared!RemoveAt(a, i)
<1> DEFINE p == SubSeq(a, 1, i - 1)
           q == SubSeq(a, i + 1, Len(a))
<1>1. Len(a) \in Nat /\ \A k \in 1 .. Len(a) : a[k] \in D
  BY LenProperties, ElementOfSeq
<1>2. /\ p \in Seq(D) /\ Len(p) = i - 1 /\ \A k \in 1 .. i - 1 : p[k] = a[k]
  <2>1. \A k \in 1 .. i - 1 : a[k] \in D
    BY <1>1
  <2>2. /\ p \in Seq(D) /\ Len(p) = IF 1 <= i - 1 THEN i - 1 - 1 + 1 ELSE 0
        /\ \A k \in 1 .. i - 1 - 1 + 1 : p[k] = a[1 + k - 1]
    BY <1>1, <2>1, SubSeqProperties
  <2> HIDE DEF p
  <2> QED BY <1>1, <2>2
<1>3. /\ q \in Seq(D) /\ Len(q) = Len(a) - i
      /\ \A k \in 1 .. Len(a) - i : q[k] = a[i + k]
  <2>1. \A k \in i + 1 .. Len(a) : a[k] \in D
    BY <1>1
  <2>2. /\ q \in Seq(D) /\ Len(q) = IF i + 1 <= Len(a) THEN Len(a) - (i + 1) + 1 ELSE 0
        /\ \A k \in 1 .. Len(a) - (i + 1) + 1 : q[k] = a[i + 1 + k - 1]
    BY <1>1, <2>1, SubSeqProperties
  <2> HIDE DEF q
  <2> QED BY <1>1, <2>2
<1> HIDE DEF p, q
<1>4. /\ p \o q \in Seq(D) /\ Len(p \o q) = Len(a) - 1
      /\ \A k \in 1 .. Len(a) - 1 : (p \o q)[k] = IF k < i THEN a[k] ELSE a[k + 1]
  <2>1. /\ p \o q \in Seq(D) /\ Len(p \o q) = Len(p) + Len(q)
        /\ \A k \in 1 .. Len(p) + Len(q) :
             (p \o q)[k] = IF k <= Len(p) THEN p[k] ELSE q[k - Len(p)]
    BY <1>2, <1>3, ConcatProperties
  <2> DEFINE e == p \o q
  <2> HIDE DEF e
  <2>2. e \in Seq(D) /\ Len(e) = Len(a) - 1
    BY <1>1, <1>2, <1>3, <2>1 DEF e
  <2>3. ASSUME NEW k \in 1 .. Len(a) - 1
        PROVE  e[k] = IF k < i THEN a[k] ELSE a[k + 1]
    <3>1. e[k] = IF k <= i - 1 THEN p[k] ELSE q[k - (i - 1)]
      BY <1>1, <1>2, <1>3, <2>1 DEF e
    <3>2. CASE k < i
      BY <1>1, <1>2, <3>1, <3>2
    <3>3. CASE k >= i
      <4>1. k - (i - 1) \in 1 .. Len(a) - i /\ i + (k - (i - 1)) = k + 1
        BY <1>1, <3>3
      <4>2. q[k - (i - 1)] = a[k + 1]
        BY <1>3, <4>1
      <4> QED BY <1>1, <3>1, <3>3, <4>2
    <3> QED BY <1>1, <3>2, <3>3
  <2> QED BY <2>2, <2>3 DEF e
<1>5. Shared!RemoveAt(a, i) = p \o q
  BY DEF Shared!RemoveAt, p, q
<1>6. \A k \in 1 .. Len(b) : b[k] = (p \o q)[k]
  <2> SUFFICES ASSUME NEW k \in 1 .. Len(b) PROVE b[k] = (p \o q)[k]
    OBVIOUS
  <2>1. k \in 1 .. Len(a) - 1 /\ (k < i \/ k >= i)
    BY <1>1
  <2>2. (p \o q)[k] = IF k < i THEN a[k] ELSE a[k + 1]
    BY <1>4, <2>1
  <2>3. b[k] = IF k < i THEN a[k] ELSE a[k + 1]
    BY <1>1, <2>1
  <2> QED BY <2>2, <2>3
<1> QED BY <1>4, <1>5, <1>6, SeqEqual

(* The abstract list of a state ...                                         *)
LEMMA ContentsFacts ==
  ASSUME HeapType(heap), NEW s, Linked(s, heap, head, tail, size)
  PROVE  /\ Contents = Data(s, heap, size) /\ Contents \in Seq(Datum)
         /\ Len(Contents) = size /\ size \in Nat /\ DOMAIN Contents = 1 .. size
         /\ \A i \in 0 .. size - 1 : Contents[i + 1] = heap[s[i]].data
         /\ size = 0 => Contents = <<>>
         /\ size # 0 => Contents # <<>>
<1>1. Contents = Data(s, heap, size)
  BY ListEnds, ContentsAre
<1>2. /\ Data(s, heap, size) \in Seq(Datum) /\ Len(Data(s, heap, size)) = size
      /\ size \in Nat /\ DOMAIN Data(s, heap, size) = 1 .. size
      /\ \A k \in 1 .. size : Data(s, heap, size)[k] = heap[s[k - 1]].data
  BY DataIsSeq
<1>3. \A i \in 0 .. size - 1 : Contents[i + 1] = heap[s[i]].data
  <2> SUFFICES ASSUME NEW i \in 0 .. size - 1 PROVE Contents[i + 1] = heap[s[i]].data
    OBVIOUS
  <2>1. i + 1 \in 1 .. size /\ (i + 1) - 1 = i
    BY <1>2
  <2> QED BY <1>1, <1>2, <2>1
<1>4. size = 0 => Contents = <<>>
  BY <1>1, <1>2
<1>5. size # 0 => Contents # <<>>
  <2>1. Len(<<>>) = 0
    BY EmptySeq
  <2> QED BY <1>1, <1>2, <2>1
<1> QED BY <1>1, <1>2, <1>3, <1>4, <1>5

(* ... and of the next.                                                     *)
LEMMA ContentsNextFacts ==
  ASSUME HeapType(heap'), NEW s, Linked(s, heap', head', tail', size')
  PROVE  Contents' = Data(s, heap', size')
<1>1. NULL \notin DOMAIN heap'
  BY Constants DEF HeapType
<1> QED BY <1>1, ContentsAreNext

(* A push or an insert is InsertAt ...                                      *)
LEMMA GrownInserts ==
  ASSUME HeapType(heap), NEW s, Linked(s, heap, head, tail, size), NEW i \in 0 .. size,
         NEW n, NEW d \in Datum, Grown(s, i, n, d)
  PROVE  Contents' = Shared!InsertAt(Contents, i + 1, d)
<1> DEFINE a == Contents
           t == Inserted(s, size, i, n)
           b == Data(t, heap', size')
<1>1. /\ a \in Seq(Datum) /\ Len(a) = size /\ size \in Nat
      /\ \A j \in 0 .. size - 1 : a[j + 1] = heap[s[j]].data
  BY ContentsFacts
<1>2. /\ HeapType(heap') /\ size' = size + 1 /\ Linked(t, heap', head', tail', size')
      /\ heap'[n].data = d /\ \A m \in DOMAIN heap : heap'[m].data = heap[m].data
  BY DEF Grown
<1>3. Contents' = b
  BY <1>2, ContentsNextFacts
<1>4. /\ b \in Seq(Datum) /\ Len(b) = size + 1
      /\ \A k \in 1 .. size + 1 : b[k] = heap'[t[k - 1]].data
  BY <1>2, DataIsSeq
<1>5. s \in [0 .. size - 1 -> DOMAIN heap]
  BY DEF Linked
<1>6. /\ t[i] = n
      /\ \A j \in 0 .. size - 1 : j < i => t[j] = s[j]
      /\ \A j \in 0 .. size - 1 : j >= i => t[j + 1] = s[j]
  BY <1>1 DEF Inserted
<1> HIDE DEF a, b, t
<1>7. i + 1 \in 1 .. Len(a) + 1
  BY <1>1
<1>8. b[i + 1] = d
  <2>1. i + 1 \in 1 .. size + 1 /\ (i + 1) - 1 = i
    BY <1>1
  <2> QED BY <1>2, <1>4, <1>6, <2>1
<1>9. \A k \in 1 .. Len(a) : k < i + 1 => b[k] = a[k]
  <2> SUFFICES ASSUME NEW k \in 1 .. size, k < i + 1 PROVE b[k] = a[k]
    BY <1>1
  <2>1. k - 1 \in 0 .. size - 1 /\ k - 1 < i /\ (k - 1) + 1 = k /\ k \in 1 .. size + 1
    BY <1>1
  <2>2. b[k] = heap'[s[k - 1]].data /\ a[k] = heap[s[k - 1]].data
    BY <1>1, <1>4, <1>6, <2>1
  <2> QED BY <1>2, <1>5, <2>1, <2>2
<1>10. \A k \in 1 .. Len(a) + 1 : k > i + 1 => b[k] = a[k - 1]
  <2> SUFFICES ASSUME NEW k \in 1 .. size + 1, k > i + 1 PROVE b[k] = a[k - 1]
    BY <1>1
  <2>1. PICK j \in 0 .. size - 1 : j >= i /\ j = k - 2 /\ j + 1 = k - 1
    BY <1>1
  <2>2. b[k] = heap'[s[j]].data
    BY <1>4, <1>6, <2>1
  <2>3. a[k - 1] = heap[s[j]].data
    BY <1>1, <2>1
  <2> QED BY <1>2, <1>5, <2>1, <2>2, <2>3
<1>11. b = Shared!InsertAt(a, i + 1, d)
  BY <1>1, <1>4, <1>7, <1>8, <1>9, <1>10, InsertAtIs
<1> QED BY <1>3, <1>11 DEF a

(* ... and a pop or an erase is RemoveAt.                                   *)
LEMMA ShrunkRemoves ==
  ASSUME HeapType(heap), NEW s, Linked(s, heap, head, tail, size), NEW i \in 0 .. size - 1,
         Shrunk(s, i)
  PROVE  Contents' = Shared!RemoveAt(Contents, i + 1)
<1> DEFINE a == Contents
           t == Removed(s, size, i)
           b == Data(t, heap', size')
<1>1. /\ a \in Seq(Datum) /\ Len(a) = size /\ size \in Nat
      /\ \A j \in 0 .. size - 1 : a[j + 1] = heap[s[j]].data
  BY ContentsFacts
<1>2. /\ HeapType(heap') /\ size' = size - 1 /\ Linked(t, heap', head', tail', size')
      /\ \A m \in DOMAIN heap' : heap'[m].data = heap[m].data
  BY DEF Shrunk
<1>3. Contents' = b
  BY <1>2, ContentsNextFacts
<1>4. /\ b \in Seq(Datum) /\ Len(b) = size - 1
      /\ \A k \in 1 .. size - 1 : b[k] = heap'[t[k - 1]].data
  BY <1>2, DataIsSeq
<1>5. \A j \in 0 .. size - 2 : t[j] \in DOMAIN heap'
  <2>1. t \in [0 .. size' - 1 -> DOMAIN heap']
    BY <1>2 DEF Linked
  <2>2. 0 .. size' - 1 = 0 .. size - 2
    BY <1>1, <1>2
  <2> HIDE DEF t
  <2> QED BY <2>1, <2>2
<1>6. /\ \A j \in 0 .. size - 2 : j < i => t[j] = s[j]
      /\ \A j \in 0 .. size - 2 : j >= i => t[j] = s[j + 1]
  BY <1>1 DEF Removed
<1> HIDE DEF a, b, t
<1>7. i + 1 \in 1 .. Len(a)
  BY <1>1
<1>8. \A k \in 1 .. Len(a) - 1 : k < i + 1 => b[k] = a[k]
  <2> SUFFICES ASSUME NEW k \in 1 .. size - 1, k < i + 1 PROVE b[k] = a[k]
    BY <1>1
  <2>1. PICK j \in 0 .. size - 2 : j < i /\ j = k - 1 /\ j + 1 = k /\ j \in 0 .. size - 1
    BY <1>1
  <2>2. b[k] = heap[t[j]].data
    BY <1>2, <1>4, <1>5, <2>1
  <2>3. a[k] = heap[s[j]].data
    BY <1>1, <2>1
  <2> QED BY <1>6, <2>1, <2>2, <2>3
<1>9. \A k \in 1 .. Len(a) - 1 : k >= i + 1 => b[k] = a[k + 1]
  <2> SUFFICES ASSUME NEW k \in 1 .. size - 1, k >= i + 1 PROVE b[k] = a[k + 1]
    BY <1>1
  <2>1. PICK j \in 0 .. size - 2 : j >= i /\ j = k - 1 /\ j + 1 = k /\ k \in 0 .. size - 1
    BY <1>1
  <2>2. b[k] = heap[t[j]].data
    BY <1>2, <1>4, <1>5, <2>1
  <2>3. a[k + 1] = heap[s[k]].data
    BY <1>1, <2>1
  <2> QED BY <1>6, <2>1, <2>2, <2>3
<1>10. Len(b) = Len(a) - 1
  BY <1>1, <1>4
<1>11. b = Shared!RemoveAt(a, i + 1)
  BY <1>1, <1>4, <1>7, <1>8, <1>9, <1>10, RemoveAtIs
<1> QED BY <1>3, <1>11 DEF a

-----------------------------------------------------------------------------
Answers == [c \in Caller |-> Answer(c)]

(* What a step of c may do to the others: to leave the data that their gets *)
(* have found where they are.                                               *)
KeepsFound(c) ==
  \A d \in Caller \ {c} :
    call[d].op = "get" /\ found[d] # NULL => heap'[found[d]].data = heap[found[d]].data

(* The answers of the others stay what they are.                            *)
LEMMA AnswersRest ==
  ASSUME NEW c \in Caller, OthersRest(c), KeepsFound(c)
  PROVE  Answers' = [Answers EXCEPT ![c] = Answer(c)']
<1>1. ASSUME NEW d \in Caller \ {c} PROVE Answer(d)' = Answer(d)
  <2>1. call'[d] = call[d] /\ result'[d] = result[d] /\ found'[d] = found[d]
    BY DEF OthersRest, OthersStay
  <2>2. call[d].op = "get" /\ found[d] # NULL => heap'[found[d]].data = heap[found[d]].data
    BY DEF KeepsFound
  <2> QED BY <2>1, <2>2 DEF Answer
<1>2. Answers' = [d \in Caller |-> Answer(d)']
  BY DEF Answers
<1>3. Answers = [d \in Caller |-> Answer(d)]
  BY DEF Answers
<1> HIDE DEF Answers
<1>4. [Answers EXCEPT ![c] = Answer(c)'] = [d \in Caller |-> Answer(d)']
  BY <1>1, <1>3
<1> QED BY <1>2, <1>4

(* A step that leaves the list and the answers alone is none of the sequence.*)
LEMMA Stutters ==
  ASSUME ListInv, NEW c \in Caller, OthersRest(c), UNCHANGED <<heap, head, tail, size>>,
         call' = call, Answer(c)' = Answer(c)
  PROVE  UNCHANGED Shared!lVars
<1>1. PICK s : Linked(s, heap, head, tail, size)
  BY DEF ListInv
<1>2. HeapType(heap)
  BY DEF ListInv
<1>3. Contents = Data(s, heap, size)
  BY <1>1, <1>2, ContentsFacts
<1>4. Contents' = Data(s, heap', size')
  BY <1>1, <1>2, ContentsNextFacts
<1>5. Answers' = Answers
  <2>1. Answers' = [Answers EXCEPT ![c] = Answer(c)']
    BY AnswersRest DEF KeepsFound
  <2> QED BY <2>1 DEF Answers
<1> QED BY <1>3, <1>4, <1>5 DEF Shared!lVars, Answers

(* Where each operation works.                                              *)
LEMMA PlaceIs ==
  ASSUME NEW q
  PROVE  /\ q.op \in {"push_front", "pop_front", "seek_front"} => Shared!Place(q) = 1
         /\ q.op = "push_back" => Shared!Place(q) = Len(Contents) + 1
         /\ q.op \in {"pop_back", "seek_back"} => Shared!Place(q) = Len(Contents)
         /\ q.op \in {"insert", "erase", "get"} => Shared!Place(q) = q.index + 1
  BY DEF Shared!Place

(* How a step of c takes the effect of its call.                            *)
Effects(q, i, l, m, r) ==
  \/ q.op \in Adds /\ i <= Len(l) + 1 /\ m = Shared!InsertAt(l, i, q.datum) /\ r = "ok"
  \/ q.op \in Adds /\ m = l /\ r = "failed"
  \/ q.op \in {"pop_front", "pop_back", "erase"} /\ i \in DOMAIN l
     /\ m = Shared!RemoveAt(l, i) /\ r = l[i]
  \/ q.op \in Reads /\ i \in DOMAIN l /\ m = l /\ r = l[i]
  \/ q.op \notin Adds /\ l = <<>> /\ m = l /\ r = "empty"
  \/ q.op = "erase" /\ l # <<>> /\ i \notin DOMAIN l /\ m = l /\ r = "failed"
  \/ q.op \in {"clear", "delete"} /\ l # <<>> /\ m = <<>> /\ r = "ok"

(* A step with the effect of its call is a step of the sequence.            *)
LEMMA TakesEffect ==
  ASSUME NEW c \in Caller, OthersRest(c), KeepsFound(c), call' = call, Answer(c) = "pending",
         Effects(call[c], Shared!Place(call[c]), Contents, Contents', Answer(c)')
  PROVE  [Shared!LNext]_(Shared!lVars)
<1>1. Answers' = [Answers EXCEPT ![c] = Answer(c)']
  BY AnswersRest
<1>2. Answers[c] = "pending"
  BY DEF Answers
<1>3. Shared!Effect(c)
  BY <1>1, <1>2 DEF Shared!Effect, Effects, Answers, Adds, Reads, Shared!Adds, Shared!Reads,
     Shared!Takes, Shared!Clears
<1> QED BY <1>3 DEF Shared!LNext

-----------------------------------------------------------------------------
(* Each step is one of the sequence.                                        *)

LEMMA ImplementsInit == Init => Shared!LInit
<1> SUFFICES ASSUME Init PROVE Shared!LInit
  OBVIOUS
<1>1. Contents = <<>>
  <2>1. PICK s : Linked(s, heap, head, tail, size)
    BY ListInit DEF ListInv
  <2>2. HeapType(heap) /\ size = 0
    BY ListInit DEF ListInv, Init
  <2> QED BY <2>1, <2>2, ContentsFacts
<1>2. call = [c \in Caller |-> Nothing] /\ Nothing = Shared!Nothing
  BY DEF Init, Nothing, Shared!Nothing
<1>3. \A c \in Caller : Answer(c) = "none"
  BY DEF Init, Answer, Nothing
<1> QED BY <1>1, <1>2, <1>3 DEF Shared!LInit

(* A call begins, and is asked of the sequence.                             *)
LEMMA ImplementsBegin ==
  ASSUME LockInv, ListInv, NEW c \in Caller, Begin(c)
  PROVE  [Shared!LNext]_(Shared!lVars)
<1>1. PICK q \in Call :
        /\ call' = [call EXCEPT ![c] = q]
        /\ fn' = [fn EXCEPT ![c] = IF q.op = "get" THEN "get_node" ELSE q.op]
        /\ then' = [then EXCEPT ![c] = CASE q.op = "get" -> "read"
                                         [] q.op = "delete" -> "destroy"
                                         [] OTHER -> "return"]
        /\ pc[c] = "idle" /\ pc' = [pc EXCEPT ![c] = "lock"]
        /\ found' = [found EXCEPT ![c] = NULL]
        /\ result' = [result EXCEPT ![c] = "pending"]
        /\ UNCHANGED <<heap, head, tail, size>>
  BY DEF Begin, body
<1>2. /\ call'[c] = q /\ found'[c] = NULL /\ result'[c] = "pending" /\ OthersRest(c)
  BY <1>1, ListFacts DEF OthersRest, OthersStay
<1>3. call[c] = Shared!Nothing
  BY <1>1, ListFacts DEF FlowAt, Flow, Nothing, Shared!Nothing
<1>4. q \in Shared!Call
  BY DEF Call, Adds, Frees, Reads, Shared!Call, Shared!Adds, Shared!Takes, Shared!Reads,
     Shared!Clears
<1>5. Contents' = Contents
  <2>1. PICK s : Linked(s, heap, head, tail, size)
    BY DEF ListInv
  <2>2. Contents = Data(s, heap, size) /\ Contents' = Data(s, heap', size')
    BY <1>1, <2>1, ContentsFacts, ContentsNextFacts DEF ListInv
  <2> QED BY <1>1, <2>2
<1>6. Answer(c)' = "pending"
  BY <1>2 DEF Answer
<1>7. Answers' = [Answers EXCEPT ![c] = "pending"]
  BY <1>1, <1>2, <1>6, AnswersRest DEF KeepsFound
<1>8. Shared!Ask(c)
  BY <1>1, <1>3, <1>4, <1>5, <1>7 DEF Shared!Ask, Answers
<1> QED BY <1>8 DEF Shared!LNext

(* The steps that only lock, unlock or read what a get has found.           *)
LEMMA ImplementsMove ==
  ASSUME LockInv, ListInv, NEW c \in Caller,
         \/ Lock(c) \/ Yield(c) \/ Relock(c) \/ Unlock(c)
         \/ Create(c) \/ Destroy(c) \/ GetRead(c)
  PROVE  [Shared!LNext]_(Shared!lVars)
<1>1. UNCHANGED <<heap, head, tail, size>> /\ call' = call /\ found' = found /\ fn' = fn
  BY DEF Lock, Yield, Relock, Unlock, Create, Destroy, GetRead, body, flow
<1>2. OthersRest(c) /\ Answer(c)' = Answer(c)
  <2>1. CASE Lock(c) \/ Yield(c) \/ Relock(c) \/ Unlock(c)
    <3>1. /\ result' = result
          /\ \E p : pc' = [pc EXCEPT ![c] = p]
          /\ then' = then \/ \E t : then' = [then EXCEPT ![c] = t]
      BY <2>1 DEF Lock, Yield, Relock, Unlock
    <3>2. \A d \in Caller \ {c} : pc'[d] = pc[d] /\ then'[d] = then[d]
      BY <3>1, ListFacts
    <3> QED BY <1>1, <3>1, <3>2 DEF OthersRest, OthersStay, Answer
  <2>2. CASE Create(c) \/ Destroy(c)
    <3>1. result' = result /\ then' = then /\ (pc' = pc \/ \E p : pc' = [pc EXCEPT ![c] = p])
      BY <2>2 DEF Create, Destroy, flow
    <3>2. \A d \in Caller \ {c} : pc'[d] = pc[d] /\ then'[d] = then[d]
      BY <3>1, ListFacts
    <3> QED BY <1>1, <3>1, <3>2 DEF OthersRest, OthersStay, Answer
  <2>3. CASE GetRead(c)
    <3>1. /\ result' = [result EXCEPT ![c] = heap[found[c]].data]
          /\ then' = then /\ pc' = [pc EXCEPT ![c] = "return"] /\ pc[c] = "read"
      BY <2>3 DEF GetRead
    <3>2. PICK s : SpotAt(s, c)
      BY DEF ListInv
    <3>3. call[c].op = "get" /\ result[c] = "pending" /\ found[c] # NULL
      BY <3>1, <3>2, ListFacts DEF FlowAt, Flow, SpotAt, Spot
    <3>4. result'[c] = heap[found[c]].data
      BY <3>1, ListFacts
    <3>5. Answer(c) = heap[found[c]].data /\ Answer(c)' = heap[found[c]].data
      BY <1>1, <3>3, <3>4 DEF Answer
    <3> QED BY <1>1, <3>1, <3>5 DEF OthersRest, OthersStay
  <2> QED BY <2>1, <2>2, <2>3
<1> QED BY <1>1, <1>2, Stutters

(* A call returns what it was answered.                                     *)
LEMMA ImplementsReturn ==
  ASSUME LockInv, ListInv, NEW c \in Caller, Return(c)
  PROVE  [Shared!LNext]_(Shared!lVars)
<1>1. /\ pc[c] = "return" /\ pc' = [pc EXCEPT ![c] = "idle"]
      /\ call' = [call EXCEPT ![c] = Nothing] /\ fn' = [fn EXCEPT ![c] = "none"]
      /\ then' = [then EXCEPT ![c] = "return"] /\ found' = [found EXCEPT ![c] = NULL]
      /\ result' = result /\ UNCHANGED <<heap, head, tail, size>>
  BY DEF Return, body
<1>2. OthersRest(c) /\ call'[c] = Nothing
  BY <1>1, ListFacts DEF OthersRest, OthersStay
<1>3. call[c] # Shared!Nothing /\ result[c] # "pending"
  BY <1>1, ListFacts DEF FlowAt, Flow, Nothing, Shared!Nothing
<1>4. Answer(c) = result[c] /\ Answer(c)' = result[c]
  BY <1>1, <1>2, <1>3 DEF Answer, Nothing
<1>5. Contents' = Contents
  <2>1. PICK s : Linked(s, heap, head, tail, size)
    BY DEF ListInv
  <2>2. Contents = Data(s, heap, size) /\ Contents' = Data(s, heap', size')
    BY <1>1, <2>1, ContentsFacts, ContentsNextFacts DEF ListInv
  <2> QED BY <1>1, <2>2
<1>6. Answers' = Answers
  <2>1. Answers' = [Answers EXCEPT ![c] = Answer(c)']
    BY <1>1, <1>2, AnswersRest DEF KeepsFound
  <2> QED BY <1>4, <2>1 DEF Answers
<1>7. Shared!Done(c)
  BY <1>1, <1>3, <1>4, <1>5, <1>6 DEF Shared!Done, Answers, Nothing, Shared!Nothing
<1> QED BY <1>7 DEF Shared!LNext

-----------------------------------------------------------------------------
(* A get that has found its node reads what was there then: those that add  *)
(* leave it alone, and those that free do not run beside a get.             *)
LEMMA AddsKeepFound ==
  ASSUME ListInv, NEW c \in Caller, \A m \in DOMAIN heap : heap'[m].data = heap[m].data
  PROVE  KeepsFound(c)
  BY DEF KeepsFound, ListInv, SpotAt, Spot

LEMMA FreesKeepFound ==
  ASSUME LockInv, ListInv, NEW c \in Caller, pc[c] # "idle", call[c].op \in Frees
  PROVE  KeepsFound(c)
<1>1. ASSUME NEW d \in Caller \ {c}, call[d].op = "get" PROVE FALSE
  <2>1. pc[d] # "idle"
    BY <1>1 DEF ListInv, FlowAt, Flow, Nothing
  <2> QED BY <1>1, <2>1 DEF LockInv, Apart, Clash
<1> QED BY <1>1 DEF KeepsFound

(* Until its step under the lock a call is not answered ...                 *)
LEMMA Pending ==
  ASSUME LockInv, ListInv, NEW c \in Caller, pc[c] \in {"body", "use"}
  PROVE  Answer(c) = "pending" /\ call[c] \in Call
<1>1. FlowAt(c) /\ FittingAt(c)
  BY ListFacts
<1>2. result[c] = "pending" /\ call[c] \in Call
  BY <1>1 DEF FlowAt, Flow
<1>3. call[c].op = "get" => pc[c] = "body"
  BY <1>1 DEF FittingAt, Fitting
<1>4. call[c].op = "get" => found[c] = NULL
  BY <1>3 DEF ListInv, SpotAt, Spot
<1> QED BY <1>2, <1>4 DEF Answer

(* ... and by that step it is.                                              *)
LEMMA EndsAnswers ==
  ASSUME LockInv, ListInv, NEW c \in Caller, NEW r, r # "pending", Ends(c, r)
  PROVE  OthersRest(c) /\ call' = call /\ Answer(c)' = r
<1>1. /\ result' = [result EXCEPT ![c] = r] /\ pc' = [pc EXCEPT ![c] = "unlock"]
      /\ call' = call /\ fn' = fn /\ then' = then /\ found' = found
  BY DEF Ends
<1>2. OthersRest(c) /\ result'[c] = r
  BY <1>1, ListFacts DEF OthersRest, OthersStay
<1> QED BY <1>1, <1>2 DEF Answer

(* An effect that leaves the list as it is.                                 *)
LEMMA QuietEffect ==
  ASSUME LockInv, ListInv, NEW c \in Caller, pc[c] = "body",
         NEW r, r # "pending", EndsUnchanged(c, r),
         Effects(call[c], Shared!Place(call[c]), Contents, Contents, r)
  PROVE  [Shared!LNext]_(Shared!lVars)
<1>1. Ends(c, r) /\ UNCHANGED <<heap, head, tail, size>>
  BY DEF EndsUnchanged
<1>2. OthersRest(c) /\ call' = call /\ Answer(c)' = r /\ Answer(c) = "pending"
  BY <1>1, EndsAnswers, Pending
<1>3. KeepsFound(c)
  BY <1>1 DEF KeepsFound
<1>4. Contents' = Contents
  <2>1. PICK s : Linked(s, heap, head, tail, size)
    BY DEF ListInv
  <2>2. Contents = Data(s, heap, size) /\ Contents' = Data(s, heap', size')
    BY <1>1, <2>1, ContentsFacts, ContentsNextFacts DEF ListInv
  <2> QED BY <1>1, <2>2
<1> QED BY <1>2, <1>3, <1>4, TakesEffect

(* A step under the lock that takes no effect yet.                          *)
LEMMA ImplementsHandOver ==
  ASSUME LockInv, ListInv, NEW c \in Caller, pc[c] = "body",
         NEW f, NEW after, NEW how, HandOver(c, f, after, how)
  PROVE  [Shared!LNext]_(Shared!lVars)
<1>1. /\ UNCHANGED <<heap, head, tail, size>>
      /\ fn' = [fn EXCEPT ![c] = f] /\ then' = [then EXCEPT ![c] = after]
      /\ pc' = [pc EXCEPT ![c] = how]
      /\ call' = call /\ found' = found /\ result' = result
  BY DEF HandOver, body
<1>2. OthersRest(c) /\ Answer(c)' = Answer(c)
  BY <1>1 DEF OthersRest, OthersStay, Answer
<1> QED BY <1>1, <1>2, Stutters

(* The pushes, for a push and for an insert at an end.                      *)
LEMMA ImplementsAdd ==
  ASSUME LockInv, ListInv, NEW c \in Caller, pc[c] = "body", Add(c)
  PROVE  [Shared!LNext]_(Shared!lVars)
<1>1. PICK s : Linked(s, heap, head, tail, size) /\ SpotAt(s, c)
  BY DEF ListInv
<1>2. /\ fn[c] \in Pushes
      /\ \/ EndsUnchanged(c, "failed")
         \/ \E n \in Node \ DOMAIN heap :
              IF fn[c] = "push_front" THEN PushFront(c, n) ELSE PushBack(c, n)
  BY DEF Add, Pushes
<1>3. /\ HeapType(heap) /\ call[c] \in Call /\ call[c].op \in Adds
      /\ call[c].op = fn[c] \/ call[c].op = "insert"
  BY <1>2, ListFacts DEF ListInv, FlowAt, Flow, Pushes, Pops, Adds
<1>4. /\ call[c].datum \in Datum /\ Answer(c) = "pending"
  BY <1>3, CallParts, Pending
<1>5. size \in Nat /\ Len(Contents) = size
  BY <1>1, <1>3, ContentsFacts
<1>6. CASE EndsUnchanged(c, "failed")
  BY <1>3, <1>6, QuietEffect DEF Effects
<1>7. ASSUME NEW i \in 0 .. size, NEW n, Grown(s, i, n, call[c].datum), Ends(c, "ok"),
             Shared!Place(call[c]) = i + 1
      PROVE  [Shared!LNext]_(Shared!lVars)
  <2>1. Contents' = Shared!InsertAt(Contents, i + 1, call[c].datum)
    BY <1>1, <1>3, <1>4, <1>7, GrownInserts
  <2>2. OthersRest(c) /\ call' = call /\ Answer(c)' = "ok"
    BY <1>7, EndsAnswers
  <2>3. KeepsFound(c)
    BY <1>7, AddsKeepFound DEF Grown
  <2>4. i + 1 <= Len(Contents) + 1
    BY <1>5
  <2>5. Effects(call[c], Shared!Place(call[c]), Contents, Contents', Answer(c)')
    BY <1>3, <1>7, <2>1, <2>2, <2>4 DEF Effects
  <2> QED BY <1>4, <2>2, <2>3, <2>5, TakesEffect
<1>8. ASSUME NEW n \in Node \ DOMAIN heap, fn[c] = "push_front", PushFront(c, n)
      PROVE  [Shared!LNext]_(Shared!lVars)
  <2>1. Grown(s, 0, n, call[c].datum)
    BY <1>1, <1>3, <1>4, <1>8, PushFrontGrows
  <2>2. Ends(c, "ok")
    BY <1>8 DEF PushFront
  <2>3. Shared!Place(call[c]) = 0 + 1
    <3>1. call[c].op = "insert" => call[c].index = 0
      BY <1>1, <1>8 DEF SpotAt, Spot
    <3> QED BY <1>3, <1>8, <3>1, PlaceIs
  <2> QED BY <1>5, <1>7, <2>1, <2>2, <2>3
<1>9. ASSUME NEW n \in Node \ DOMAIN heap, fn[c] = "push_back", PushBack(c, n)
      PROVE  [Shared!LNext]_(Shared!lVars)
  <2>1. Grown(s, size, n, call[c].datum)
    BY <1>1, <1>3, <1>4, <1>9, PushBackGrows
  <2>2. Ends(c, "ok")
    BY <1>9 DEF PushBack
  <2>3. Shared!Place(call[c]) = size + 1
    <3>1. call[c].op = "insert" => call[c].index = size
      BY <1>1, <1>9 DEF SpotAt, Spot
    <3> QED BY <1>3, <1>5, <1>9, <3>1, PlaceIs
  <2> QED BY <1>5, <1>7, <2>1, <2>2, <2>3
<1> QED BY <1>2, <1>6, <1>8, <1>9 DEF Pushes

(* insert_data and erase_node take no effect when they look at the index,   *)
(* unless they fail.                                                        *)
LEMMA ImplementsInsert ==
  ASSUME LockInv, ListInv, NEW c \in Caller, pc[c] = "body", fn[c] = "insert", Insert(c)
  PROVE  [Shared!LNext]_(Shared!lVars)
<1>1. call[c].op = "insert"
  BY ListFacts DEF FittingAt, Fitting
<1>2. CASE EndsUnchanged(c, "failed")
  BY <1>1, <1>2, QuietEffect DEF Effects, Adds
<1> QED BY <1>2, ImplementsHandOver DEF Insert

LEMMA ImplementsErase ==
  ASSUME LockInv, ListInv, NEW c \in Caller, pc[c] = "body", fn[c] = "erase", size # 0, Erase(c)
  PROVE  [Shared!LNext]_(Shared!lVars)
<1> DEFINE i == call[c].index
<1>1. call[c].op = "erase"
  BY ListFacts DEF FittingAt, Fitting
<1>2. i \in Nat
  <2>1. call[c] \in Call
    BY Pending
  <2> QED BY <2>1, CallParts
<1>3. /\ size \in Nat /\ DOMAIN Contents = 1 .. size /\ Contents # <<>>
  <2>1. PICK s : Linked(s, heap, head, tail, size)
    BY DEF ListInv
  <2> QED BY <2>1, ContentsFacts DEF ListInv
<1>4. \/ HandOver(c, "pop_front", "relock", "yield")
      \/ HandOver(c, "pop_back", "relock", "yield")
      \/ HandOver(c, "get_node", "use", "yield")
      \/ EndsUnchanged(c, "failed") /\ ~(i < size)
  BY <1>2, <1>3 DEF Erase
<1>5. CASE EndsUnchanged(c, "failed") /\ ~(i < size)
  <2>1. i + 1 \notin DOMAIN Contents
    BY <1>2, <1>3, <1>5
  <2>2. Shared!Place(call[c]) = i + 1
    BY <1>1, PlaceIs
  <2>3. Effects(call[c], Shared!Place(call[c]), Contents, Contents, "failed")
    BY <1>1, <1>3, <2>1, <2>2 DEF Effects
  <2> QED BY <1>5, <2>3, QuietEffect
<1> QED BY <1>4, <1>5, ImplementsHandOver

(* A get takes effect here; an insert and an erase do not yet.              *)
LEMMA ImplementsGetNode ==
  ASSUME LockInv, ListInv, NEW c \in Caller, pc[c] = "body", fn[c] = "get_node",
         size # 0, GetNode(c)
  PROVE  [Shared!LNext]_(Shared!lVars)
<1>1. /\ UNCHANGED <<heap, head, tail, size>>
      /\ found' = [found EXCEPT ![c] = NodeAt(call[c].index)]
      /\ pc' = [pc EXCEPT ![c] = "unlock"]
      /\ call' = call /\ fn' = fn /\ then' = then /\ result' = result
  BY DEF GetNode, body
<1>2. OthersRest(c) /\ found'[c] = NodeAt(call[c].index)
  BY <1>1, ListFacts DEF OthersRest, OthersStay
<1>3. CASE call[c].op # "get"
  <2>1. Answer(c)' = Answer(c)
    BY <1>1, <1>3 DEF Answer
  <2> QED BY <1>1, <1>2, <2>1, Stutters
<1>4. CASE call[c].op = "get"
  <2> DEFINE i == call[c].index
  <2>1. PICK s : Linked(s, heap, head, tail, size) /\ SpotAt(s, c)
    BY DEF ListInv
  <2>2. HeapType(heap) /\ call[c] \in Call /\ result[c] = "pending" /\ Answer(c) = "pending"
    BY Pending, ListFacts DEF ListInv, FlowAt, Flow
  <2>3. size \in Nat /\ s \in [0 .. size - 1 -> DOMAIN heap] /\ NULL \notin DOMAIN heap
    BY <2>1, <2>2, ListEnds
  <2>4. i \in 0 .. size - 1
    <3>1. i = 0 \/ i < size
      BY <1>4, <2>1 DEF SpotAt, Spot
    <3>2. i \in Nat
      BY <2>2, CallParts
    <3> QED BY <2>3, <3>1, <3>2
  <2> HIDE DEF i
  <2>5. found'[c] = s[i] /\ s[i] # NULL
    BY <1>2, <2>1, <2>3, <2>4, NodeAtFinds DEF i
  <2>6. Answer(c)' = heap[s[i]].data
    BY <1>1, <1>4, <2>2, <2>5 DEF Answer
  <2>7. /\ DOMAIN Contents = 1 .. size /\ Contents[i + 1] = heap[s[i]].data
        /\ Contents = Data(s, heap, size) /\ Contents' = Data(s, heap', size')
    BY <1>1, <2>1, <2>2, <2>4, ContentsFacts, ContentsNextFacts
  <2>8. Contents' = Contents /\ i + 1 \in DOMAIN Contents
    BY <1>1, <2>3, <2>4, <2>7
  <2>9. Shared!Place(call[c]) = i + 1
    BY <1>4, PlaceIs DEF i
  <2>10. Effects(call[c], Shared!Place(call[c]), Contents, Contents', Answer(c)')
    BY <1>4, <2>6, <2>7, <2>8, <2>9 DEF Effects, Reads
  <2>11. KeepsFound(c)
    BY <1>1 DEF KeepsFound
  <2> QED BY <1>1, <1>2, <2>2, <2>10, <2>11, TakesEffect
<1> QED BY <1>3, <1>4

(* The pops, for a pop and for an erase that became one.                    *)
LEMMA ImplementsPop ==
  ASSUME LockInv, ListInv, NEW c \in Caller, pc[c] = "body", size # 0,
         NEW s, Linked(s, heap, head, tail, size), SpotAt(s, c),
         \/ fn[c] = "pop_front" /\ PopFront(c)
         \/ fn[c] = "pop_back" /\ PopBack(c)
  PROVE  [Shared!LNext]_(Shared!lVars)
<1>1. /\ HeapType(heap) /\ heap[head].data # "pending" /\ heap[tail].data # "pending"
      /\ Answer(c) = "pending"
  BY EndsHold, Constants, Pending DEF ListInv
<1>2. size \in Nat /\ head = s[0] /\ tail = s[size - 1]
  BY <1>1, ListEnds
<1>3. /\ Len(Contents) = size /\ DOMAIN Contents = 1 .. size
      /\ \A i \in 0 .. size - 1 : Contents[i + 1] = heap[s[i]].data
  BY <1>1, ContentsFacts
<1>4. call[c].op = fn[c] \/ call[c].op = "erase"
  BY ListFacts DEF FlowAt, Flow, Pushes
<1>5. call[c].op \in {"pop_front", "pop_back", "erase"}
  BY <1>4
<1>6. KeepsFound(c)
  BY <1>5, FreesKeepFound DEF Frees
<1>7. ASSUME NEW i \in 0 .. size - 1, Shrunk(s, i), Ends(c, heap[s[i]].data),
             heap[s[i]].data # "pending", Shared!Place(call[c]) = i + 1
      PROVE  [Shared!LNext]_(Shared!lVars)
  <2>1. Contents' = Shared!RemoveAt(Contents, i + 1)
    BY <1>1, <1>7, ShrunkRemoves
  <2>2. OthersRest(c) /\ call' = call /\ Answer(c)' = heap[s[i]].data
    BY <1>7, EndsAnswers
  <2>3. i + 1 \in DOMAIN Contents
    BY <1>2, <1>3
  <2>4. Effects(call[c], Shared!Place(call[c]), Contents, Contents', Answer(c)')
    BY <1>3, <1>5, <1>7, <2>1, <2>2, <2>3 DEF Effects
  <2> QED BY <1>1, <1>6, <2>2, <2>4, TakesEffect
<1>8. CASE fn[c] = "pop_front" /\ PopFront(c)
  <2>1. Shrunk(s, 0) /\ Ends(c, heap[s[0]].data)
    <3>1. Ends(c, heap[head].data)
      BY <1>8 DEF PopFront
    <3> QED BY <1>1, <1>2, <1>8, <3>1, PopFrontShrinks
  <2>2. Shared!Place(call[c]) = 0 + 1
    <3>1. call[c].op = "erase" => call[c].index = 0
      BY <1>8 DEF SpotAt, Spot
    <3> QED BY <1>4, <1>8, <3>1, PlaceIs
  <2>3. 0 \in 0 .. size - 1
    BY <1>2
  <2> QED BY <1>1, <1>2, <1>7, <2>1, <2>2, <2>3
<1>9. CASE fn[c] = "pop_back" /\ PopBack(c)
  <2>1. Shrunk(s, size - 1) /\ Ends(c, heap[s[size - 1]].data)
    <3>1. Ends(c, heap[tail].data)
      BY <1>9 DEF PopBack
    <3> QED BY <1>1, <1>2, <1>9, <3>1, PopBackShrinks
  <2>2. Shared!Place(call[c]) = (size - 1) + 1
    <3>1. call[c].op = "erase" => call[c].index = size - 1
      BY <1>9 DEF SpotAt, Spot
    <3>2. (size - 1) + 1 = size
      BY <1>2
    <3>3. call[c].op = "pop_back" => Shared!Place(call[c]) = size
      BY <1>3, PlaceIs
    <3>4. call[c].op = "erase" => Shared!Place(call[c]) = (size - 1) + 1
      BY <3>1, PlaceIs
    <3> QED BY <1>4, <1>9, <3>2, <3>3, <3>4
  <2>3. size - 1 \in 0 .. size - 1
    BY <1>2
  <2> QED BY <1>1, <1>2, <1>7, <2>1, <2>2, <2>3
<1> QED BY <1>8, <1>9

(* list_clear_all and the clearing in list_delete.                          *)
LEMMA ImplementsClear ==
  ASSUME LockInv, ListInv, NEW c \in Caller, pc[c] = "body", fn[c] \in {"clear", "delete"},
         size # 0, Clear(c)
  PROVE  [Shared!LNext]_(Shared!lVars)
<1>1. PICK s : Linked(s, heap, head, tail, size)
  BY DEF ListInv
<1>2. HeapType(heap') /\ Linked(<<>>, heap', head', tail', size') /\ size' = 0
  BY <1>1, ClearEmpties DEF ListInv
<1>3. Contents' = <<>>
  <2>1. Contents' = Data(<<>>, heap', size')
    BY <1>2, ContentsNextFacts
  <2> QED BY <1>2, <2>1 DEF Data
<1>4. Contents # <<>>
  BY <1>1, ContentsFacts DEF ListInv
<1>5. call[c].op \in {"clear", "delete"}
  BY ListFacts DEF FlowAt, Flow, Pushes, Pops
<1>6. OthersRest(c) /\ call' = call /\ Answer(c)' = "ok" /\ Answer(c) = "pending"
  <2>1. Ends(c, "ok")
    BY DEF Clear
  <2> QED BY <2>1, EndsAnswers, Pending
<1>7. KeepsFound(c)
  BY <1>5, FreesKeepFound DEF Frees
<1>8. Effects(call[c], Shared!Place(call[c]), Contents, Contents', Answer(c)')
  BY <1>3, <1>4, <1>5, <1>6 DEF Effects
<1> QED BY <1>6, <1>7, <1>8, TakesEffect

(* The seeks.                                                               *)
LEMMA ImplementsSeek ==
  ASSUME LockInv, ListInv, NEW c \in Caller, pc[c] = "body", size # 0,
         \/ fn[c] = "seek_front" /\ EndsUnchanged(c, heap[head].data)
         \/ fn[c] = "seek_back" /\ EndsUnchanged(c, heap[tail].data)
  PROVE  [Shared!LNext]_(Shared!lVars)
<1>1. PICK s : Linked(s, heap, head, tail, size)
  BY DEF ListInv
<1>2. /\ HeapType(heap) /\ heap[head].data # "pending" /\ heap[tail].data # "pending"
  BY EndsHold, Constants DEF ListInv
<1>3. size \in Nat /\ head = s[0] /\ tail = s[size - 1]
  BY <1>1, <1>2, ListEnds
<1>4. /\ Len(Contents) = size /\ DOMAIN Contents = 1 .. size
      /\ \A i \in 0 .. size - 1 : Contents[i + 1] = heap[s[i]].data
  BY <1>1, <1>2, ContentsFacts
<1>5. call[c].op = fn[c]
  BY ListFacts DEF FlowAt, Flow, Pushes, Pops
<1>6. /\ 0 \in 0 .. size - 1 /\ size - 1 \in 0 .. size - 1 /\ (size - 1) + 1 = size
      /\ 0 + 1 \in 1 .. size /\ size \in 1 .. size
  BY <1>3
<1>7. CASE fn[c] = "seek_front" /\ EndsUnchanged(c, heap[head].data)
  <2>1. Shared!Place(call[c]) = 0 + 1 /\ Contents[0 + 1] = heap[head].data
    BY <1>3, <1>4, <1>5, <1>6, <1>7, PlaceIs
  <2>2. Effects(call[c], Shared!Place(call[c]), Contents, Contents, heap[head].data)
    BY <1>4, <1>5, <1>6, <1>7, <2>1 DEF Effects, Reads
  <2> QED BY <1>2, <1>7, <2>2, QuietEffect
<1>8. CASE fn[c] = "seek_back" /\ EndsUnchanged(c, heap[tail].data)
  <2>1. Shared!Place(call[c]) = size
    BY <1>4, <1>5, <1>8, PlaceIs
  <2>2. Contents[size] = heap[tail].data
    BY <1>3, <1>4, <1>6
  <2>3. Effects(call[c], Shared!Place(call[c]), Contents, Contents, heap[tail].data)
    BY <1>4, <1>5, <1>6, <1>8, <2>1, <2>2 DEF Effects, Reads
  <2> QED BY <1>2, <1>8, <2>3, QuietEffect
<1> QED BY <1>7, <1>8

(* Everything under the lock.                                               *)
LEMMA ImplementsBody ==
  ASSUME LockInv, ListInv, NEW c \in Caller, Body(c)
  PROVE  [Shared!LNext]_(Shared!lVars)
<1>1. PICK s : Linked(s, heap, head, tail, size) /\ SpotAt(s, c)
  BY DEF ListInv
<1>2. Valid /\ size \in Nat /\ (size = 0 => Contents = <<>>)
  BY <1>1, ListEnds, ContentsFacts DEF ListInv
<1>3. /\ pc[c] = "body"
      /\ \/ Add(c)
         \/ fn[c] = "insert" /\ Insert(c)
         \/ fn[c] \notin Adds /\ size = 0 /\ EndsUnchanged(c, "empty")
         \/ size # 0 /\ NonEmpty(c)
  BY <1>2 DEF Body
<1>4. CASE fn[c] \notin Adds /\ size = 0 /\ EndsUnchanged(c, "empty")
  <2>1. then[c] # "use"
    BY <1>1, <1>4 DEF SpotAt, Spot
  <2>2. fn[c] = "get_node" => call[c].op = "get" \/ then[c] = "use"
    BY <1>3, ListFacts DEF FlowAt, Flow
  <2>3. call[c].op \notin Adds
    BY <1>3, <1>4, <2>1, <2>2, ListFacts DEF FlowAt, Flow, Adds, Pushes, Pops
  <2>4. Effects(call[c], Shared!Place(call[c]), Contents, Contents, "empty")
    BY <1>2, <1>4, <2>3 DEF Effects
  <2> QED BY <1>3, <1>4, <2>4, QuietEffect
<1>5. CASE size # 0 /\ NonEmpty(c)
  BY <1>1, <1>3, <1>5, ImplementsPop, ImplementsSeek, ImplementsErase, ImplementsGetNode,
     ImplementsClear DEF NonEmpty
<1> QED BY <1>3, <1>4, <1>5, ImplementsAdd, ImplementsInsert

(* insert_data and erase_node take effect where they relink.                *)
LEMMA ImplementsInsertUse ==
  ASSUME LockInv, ListInv, NEW c \in Caller, InsertUse(c)
  PROVE  [Shared!LNext]_(Shared!lVars)
<1> DEFINE i == call[c].index
<1>1. PICK s : Linked(s, heap, head, tail, size) /\ SpotAt(s, c)
  BY DEF ListInv
<1>2. /\ pc[c] = "use" /\ call[c].op = "insert" /\ then[c] = "use"
      /\ call' = call /\ fn' = fn /\ found' = found
      /\ then' = [then EXCEPT ![c] = "return"] /\ pc' = [pc EXCEPT ![c] = "unlock"]
      /\ \/ result' = [result EXCEPT ![c] = "failed"] /\ UNCHANGED <<heap, head, tail, size>>
         \/ \E n \in Node \ DOMAIN heap :
              /\ size' = size + 1 /\ head' = head /\ tail' = tail
              /\ heap' = Allocated(
                   [heap EXCEPT ![heap[found[c]].prev].next = n, ![found[c]].prev = n], n,
                   [next |-> found[c], prev |-> heap[found[c]].prev, data |-> call[c].datum])
              /\ result' = [result EXCEPT ![c] = "ok"]
  BY ListFacts DEF InsertUse, FittingAt, Fitting
<1>3. /\ HeapType(heap) /\ Answer(c) = "pending" /\ call[c] \in Call /\ call[c].op \in Adds
      /\ Shared!Place(call[c]) = i + 1
  BY <1>2, Pending, PlaceIs DEF ListInv, Adds
<1>4. i \in 1 .. size - 1 /\ found[c] = s[i] /\ size \in Nat
  BY <1>1, <1>2 DEF SpotAt, Spot, Linked
<1>5. call[c].datum \in Datum /\ Len(Contents) = size
  BY <1>1, <1>3, CallParts, ContentsFacts
<1> HIDE DEF i
<1>6. ASSUME NEW r, result' = [result EXCEPT ![c] = r] PROVE OthersRest(c) /\ Answer(c)' = r
  <2>1. result'[c] = r /\ call'[c] = call[c]
    BY <1>2, <1>6, ListFacts
  <2>2. OthersRest(c)
    BY <1>2, <1>6, ListFacts DEF OthersRest, OthersStay
  <2> QED BY <1>2, <2>1, <2>2 DEF Answer
<1>7. CASE result' = [result EXCEPT ![c] = "failed"] /\ UNCHANGED <<heap, head, tail, size>>
  <2>1. OthersRest(c) /\ Answer(c)' = "failed" /\ KeepsFound(c)
    BY <1>6, <1>7 DEF KeepsFound
  <2>2. Contents = Data(s, heap, size) /\ Contents' = Data(s, heap', size')
    BY <1>1, <1>3, <1>7, ContentsFacts, ContentsNextFacts
  <2>3. Effects(call[c], Shared!Place(call[c]), Contents, Contents', Answer(c)')
    BY <1>3, <1>7, <2>1, <2>2 DEF Effects
  <2> QED BY <1>2, <1>3, <2>1, <2>3, TakesEffect
<1>8. ASSUME NEW n \in Node \ DOMAIN heap, size' = size + 1, head' = head, tail' = tail,
             heap' = Allocated([heap EXCEPT ![heap[s[i]].prev].next = n, ![s[i]].prev = n], n,
                       [next |-> s[i], prev |-> heap[s[i]].prev, data |-> call[c].datum]),
             result' = [result EXCEPT ![c] = "ok"]
      PROVE  [Shared!LNext]_(Shared!lVars)
  <2>1. Grown(s, i, n, call[c].datum)
    BY <1>1, <1>3, <1>4, <1>5, <1>8, InsertUseGrows
  <2>2. OthersRest(c) /\ Answer(c)' = "ok"
    BY <1>6, <1>8
  <2>3. KeepsFound(c)
    BY <2>1, AddsKeepFound DEF Grown
  <2>4. i \in 0 .. size /\ i + 1 <= Len(Contents) + 1
    BY <1>4, <1>5
  <2>5. Contents' = Shared!InsertAt(Contents, i + 1, call[c].datum)
    BY <1>1, <1>3, <1>5, <2>1, <2>4, GrownInserts
  <2>6. Effects(call[c], Shared!Place(call[c]), Contents, Contents', Answer(c)')
    BY <1>3, <2>2, <2>4, <2>5 DEF Effects
  <2> QED BY <1>2, <1>3, <2>2, <2>3, <2>6, TakesEffect
<1> QED BY <1>2, <1>4, <1>7, <1>8

LEMMA ImplementsEraseUse ==
  ASSUME LockInv, ListInv, NEW c \in Caller, EraseUse(c)
  PROVE  [Shared!LNext]_(Shared!lVars)
<1> DEFINE i == call[c].index
<1>1. PICK s : Linked(s, heap, head, tail, size) /\ SpotAt(s, c)
  BY DEF ListInv
<1>2. /\ pc[c] = "use" /\ call[c].op = "erase" /\ then[c] = "use"
      /\ call' = call /\ fn' = fn /\ found' = found
      /\ then' = [then EXCEPT ![c] = "return"] /\ pc' = [pc EXCEPT ![c] = "unlock"]
      /\ result' = [result EXCEPT ![c] = heap[found[c]].data]
  BY ListFacts DEF EraseUse, FittingAt, Fitting
<1>3. /\ HeapType(heap) /\ Answer(c) = "pending" /\ Shared!Place(call[c]) = i + 1
  BY <1>2, Pending, PlaceIs DEF ListInv
<1>4. size \in Nat /\ s \in [0 .. size - 1 -> DOMAIN heap]
  BY <1>1 DEF Linked
<1>5. i \in 1 .. size - 2 /\ i \in 0 .. size - 1 /\ found[c] = s[i]
  <2>1. i \in 1 .. size - 1 /\ i < size - 1 /\ found[c] = s[i]
    BY <1>1, <1>2 DEF SpotAt, Spot
  <2> QED BY <1>4, <2>1
<1> HIDE DEF i
<1>6. /\ DOMAIN Contents = 1 .. size /\ Contents[i + 1] = heap[s[i]].data
  BY <1>1, <1>3, <1>5, ContentsFacts
<1>7. OthersRest(c) /\ result'[c] = heap[s[i]].data
  BY <1>2, <1>5, ListFacts DEF OthersRest, OthersStay
<1>8. Answer(c)' = heap[s[i]].data
  BY <1>2, <1>7 DEF Answer
<1>9. KeepsFound(c)
  BY <1>2, FreesKeepFound DEF Frees
<1>10. Shrunk(s, i)
  BY <1>1, <1>3, <1>5, EraseUseShrinks
<1>11. Contents' = Shared!RemoveAt(Contents, i + 1)
  BY <1>1, <1>3, <1>5, <1>10, ShrunkRemoves
<1>12. i + 1 \in DOMAIN Contents
  BY <1>4, <1>5, <1>6
<1>13. Effects(call[c], Shared!Place(call[c]), Contents, Contents', Answer(c)')
  BY <1>2, <1>3, <1>6, <1>8, <1>11, <1>12 DEF Effects
<1> QED BY <1>2, <1>3, <1>7, <1>9, <1>13, TakesEffect

(* Every step is a step of the shared sequence, or none of it.              *)
LEMMA ImplementsStep ==
  ASSUME LockInv, ListInv, [Next]_vars
  PROVE  [Shared!LNext]_(Shared!lVars)
<1>1. CASE UNCHANGED vars
  <2>1. UNCHANGED <<head, tail, size, heap, call, found, result>>
    BY <1>1 DEF vars, body, flow
  <2>2. PICK s : Linked(s, heap, head, tail, size)
    BY DEF ListInv
  <2>3. Contents = Data(s, heap, size) /\ Contents' = Data(s, heap', size')
    BY <2>1, <2>2, ContentsFacts, ContentsNextFacts DEF ListInv
  <2>4. Answers' = Answers
    BY <2>1 DEF Answers, Answer
  <2> QED BY <2>1, <2>3, <2>4 DEF Shared!lVars, Answers
<1> QED BY <1>1, ImplementsBegin, ImplementsMove, ImplementsReturn, ImplementsBody,
           ImplementsInsertUse, ImplementsEraseUse DEF Next

(* Under the same assumptions the calls on the list are those of a sequence *)
(* on which each takes effect at one moment, for any number of threads and  *)
(* nodes: a push, a pop, an insert and an erase change just the one place,  *)
(* and a read returns what is there, though get, insert and erase give the  *)
(* lock up on the way.                                                      *)
THEOREM ListIsLinearizable ==
  ASSUME MutexFits, Disciplined
  PROVE  Spec => ImplementsList
<1>1. Init => Shared!LInit
  BY ImplementsInit
<1>2. QListInv /\ [Next]_vars => [Shared!LNext]_(Shared!lVars)
  BY ImplementsStep DEF QListInv
<1> QED BY <1>1, <1>2, QListInvariant, PTL DEF Spec, ImplementsList, Shared!LSpec
=============================================================================
