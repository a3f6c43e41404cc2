-------------------------- MODULE QcperfCore_proofs --------------------------
(***************************************************************************)
(* Proofs about QcperfCore, for any number of threads and backends.        *)
(***************************************************************************)
EXTENDS QcperfCoreOverlap, TLAPS

(* The calls a thread can be in at each control state.                      *)
InConnect == {"create", "publish", "message", "backend_init", "undo"}
InDisconnect == {"backend_deinit", "reset"}

Fits(at, k) ==
  /\ at = "init_alloc" => k.op = "init"
  /\ at \in InConnect => k.op = "connect" /\ k.id \in Backend
  /\ at = "use" => k.op = "use" /\ k.id \in Backend
  /\ at \in InDisconnect => k.op \in {"connect", "disconnect", "deinit"} /\ k.id \in Backend
  /\ at = "deinit_loop" => k.op = "deinit"

Control == \A c \in Client : Fits(pc[c], call[c])

TypeInv == TypeOK /\ Control

(* The calls in progress are those a serialising application allows.        *)
Serial ==
  \A c, d \in Client : c # d /\ pc[c] # "idle" /\ pc[d] # "idle" =>
    /\ call[c].op \notin Exclusive /\ call[d].op \notin Exclusive
    /\ call[c].id # call[d].id

(* What an init may begin from: only a backend whose init refuses can still *)
(* hold what its last deinit failed to release.                             *)
Ready(b) == Released(held[b]) /\ (held[b] = "kept" => b \in Guarded)

(* What the thread's control state knows of the table.                      *)
LocalAt(c) ==
  LET b == call[c].id IN
  /\ pc[c] = "init_alloc" => ~allocated
  /\ pc[c] \notin {"idle", "init_alloc"} => allocated
  /\ pc[c] = "create" => ~connected[b] /\ Ready(b) /\ ~bound[b]
  /\ pc[c] = "publish" => ~connected[b] /\ Ready(b) /\ bound[b]
  /\ pc[c] \in {"message", "backend_init", "undo"} => connected[b] /\ bound[b]
  /\ pc[c] \in {"message", "backend_init"} => Ready(b)
  /\ pc[c] = "use" => connected[b]
  /\ pc[c] = "backend_deinit" => ~connected[b] /\ bound[b]
  /\ pc[c] = "reset" => ~connected[b] /\ Ready(b)
  /\ pc[c] # "idle" /\ call[c].op = "deinit" =>
       \A a \in Backend : a < b => ~connected[a]

Local == \A c \in Client : LocalAt(c)

(* What an entry of the table says of the calls in progress.                *)
Settled(b) == \A c \in Client : call[c].id = b =>
                pc[c] \notin {"publish", "backend_deinit", "reset"}
Opening(b) == \E c \in Client : /\ call[c].id = b
                                /\ pc[c] \in {"message", "backend_init", "undo"}

EntryAt(b) ==
  /\ connected[b] => allocated /\ bound[b]
  /\ connected[b] => held[b] = "all" \/ Opening(b)
  /\ ~connected[b] /\ Settled(b) => Ready(b) /\ ~bound[b]

Table == \A b \in Backend : EntryAt(b)

SafetyInv == Serial /\ Local /\ Table /\ fault = "none"
-----------------------------------------------------------------------------
(* Type correctness.                                                        *)

(* The names the actions use are names of their types: with this lemma the  *)
(* enumerations themselves stay folded in the proofs below.                 *)
LEMMA Names ==
  /\ "idle" \in Pc /\ "init_alloc" \in Pc /\ "create" \in Pc
  /\ "publish" \in Pc /\ "message" \in Pc /\ "backend_init" \in Pc
  /\ "undo" \in Pc /\ "use" \in Pc /\ "backend_deinit" \in Pc
  /\ "reset" \in Pc /\ "deinit_loop" \in Pc
  /\ "none" \in Op /\ "init" \in Op /\ "connect" \in Op /\ "use" \in Op
  /\ "disconnect" \in Op /\ "deinit" \in Op
  /\ "SUCCESS" \in Code /\ "FAILED" \in Code /\ "ALREADY_INITIALIZED" \in Code
  /\ "CALLOC_FAILED" \in Code /\ "NOT_INITIALIZED" \in Code
  /\ "INVALID_BACKEND_ID" \in Code /\ "INVALID_ARGUMENTS" \in Code
  /\ "BACKEND_ALREADY_CONNECTED" \in Code /\ "BACKEND_NOT_CONNECTED" \in Code
  /\ "NULL_POINTER" \in Code
  /\ "none" \in Fault /\ "null_table" \in Fault /\ "null_function" \in Fault
  /\ "past_table" \in Fault /\ "second_list" \in Fault
BY DEF Pc, Op, Code, Fault

(* What the ways of moving a thread preserve, whatever the action.           *)
ThreadType ==
  /\ pc \in [Client -> Pc]
  /\ call \in [Client -> CallType]
  /\ reply \in [Client -> Code \cup {"none"}]
  /\ fault \in Fault

LEMMA ReturnKeeps ==
  ASSUME TypeInv, NEW c \in Client, NEW code \in Code, Return(c, code)
  PROVE  ThreadType' /\ Control'
<1>1. pc' \in [Client -> Pc] /\ reply' \in [Client -> Code \cup {"none"}] /\ fault' \in Fault
  BY Names DEF TypeInv, TypeOK, Return
<1>2. NoCall \in CallType
  BY CoreAssumption, Names DEF NoCall, CallType
<1>3. call' \in [Client -> CallType]
  BY <1>2 DEF TypeInv, TypeOK, Return
<1>4. Control'
  BY DEF TypeInv, TypeOK, Return, Control, Fits, InConnect, InDisconnect
<1> QED BY <1>1, <1>3, <1>4 DEF ThreadType

LEMMA GotoKeeps ==
  ASSUME TypeInv, NEW c \in Client, NEW at \in Pc, Fits(at, call[c]), Goto(c, at)
  PROVE  ThreadType' /\ Control'
<1>1. ThreadType'
  BY DEF TypeInv, TypeOK, Goto, ThreadType
<1>2. Control'
  BY DEF TypeInv, TypeOK, Goto, Control
<1> QED BY <1>1, <1>2

LEMMA EnterKeeps ==
  ASSUME TypeInv, NEW c \in Client, NEW op \in Op, NEW id \in 0 .. BackendMax,
         NEW cb \in Callback \cup {NoCallback}, NEW at \in Pc,
         Fits(at, [op |-> op, id |-> id, cb |-> cb]), Enter(c, op, id, cb, at)
  PROVE  ThreadType' /\ Control'
<1> DEFINE k == [op |-> op, id |-> id, cb |-> cb]
<1>1. k \in CallType
  BY DEF CallType
<1>2. pc' = [pc EXCEPT ![c] = at] /\ call' = [call EXCEPT ![c] = k] /\ UNCHANGED <<reply, fault>>
  BY DEF Enter
<1> HIDE DEF k
<1>3. ThreadType'
  BY <1>1, <1>2 DEF TypeInv, TypeOK, ThreadType
<1>4. Fits(at, k)
  BY DEF k
<1>5. Control'
  BY <1>2, <1>4 DEF TypeInv, TypeOK, Control
<1> QED BY <1>3, <1>5

LEMMA AdvanceKeeps ==
  ASSUME TypeInv, NEW c \in Client, NEW i \in 0 .. BackendMax, call[c].op = "deinit",
         pc' = [pc EXCEPT ![c] = "deinit_loop"], call' = [call EXCEPT ![c].id = i],
         UNCHANGED <<reply, fault>>
  PROVE  ThreadType' /\ Control'
<1>1. pc' \in [Client -> Pc] /\ UNCHANGED <<reply, fault>>
  BY Names DEF TypeInv, TypeOK
<1>2. call' \in [Client -> CallType]
  BY DEF TypeInv, TypeOK, CallType
<1>3. Control'
  BY DEF TypeInv, TypeOK, Control, CallType, Fits, InConnect, InDisconnect
<1> QED BY <1>1, <1>2, <1>3 DEF ThreadType, TypeInv, TypeOK

LEMMA RefuseKeeps ==
  ASSUME TypeInv, NEW c \in Client, NEW code \in Code, Refuse(c, code)
  PROVE  TypeInv'
<1>1. UNCHANGED table /\ UNCHANGED <<pc, call, fault>>
  BY DEF Refuse, table
<1>2. reply' \in [Client -> Code \cup {"none"}]
  BY DEF TypeInv, TypeOK, Refuse
<1> QED BY <1>1, <1>2 DEF TypeInv, TypeOK, TableType, Control, table

LEMMA UndefinedKeeps ==
  ASSUME TypeInv, NEW f \in Fault, Undefined(f)
  PROVE  TypeInv'
BY DEF TypeInv, TypeOK, TableType, Control, table, Undefined

LEMMA Assemble ==
  ASSUME TableType', ThreadType', Control'
  PROVE  TypeInv'
BY DEF TypeInv, TypeOK, ThreadType

LEMMA SameTable == ASSUME TypeInv, UNCHANGED table PROVE TableType'
BY DEF TypeInv, TypeOK, TableType, table

LEMMA ClearFlagType ==
  ASSUME TypeInv, NEW b \in Backend, ClearFlag(b) PROVE TableType'
BY DEF TypeInv, TypeOK, TableType, ClearFlag

LEMMA CallInBackend ==
  ASSUME TypeInv, NEW c \in Client,
         pc[c] \in InConnect \cup InDisconnect \cup {"use"}
  PROVE  call[c].id \in Backend
BY DEF TypeInv, Control, Fits

LEMMA TypeStep == TypeInv /\ [Next]_vars => TypeInv'
<1> SUFFICES ASSUME TypeInv, [Next]_vars PROVE TypeInv'
  OBVIOUS
<1> USE CoreAssumption
<1>1. ASSUME NEW c \in Client, Step(c) PROVE TypeInv'
  <2>1. CASE QcperfInit(c)
    <3>1. CASE allocated
      BY <2>1, <3>1, RefuseKeeps, Names DEF QcperfInit
    <3>2. CASE ~allocated
      <4>1. UNCHANGED table /\ Enter(c, "init", 0, NoCallback, "init_alloc")
        BY <2>1, <3>2 DEF QcperfInit
      <4>2. Fits("init_alloc", [op |-> "init", id |-> 0, cb |-> NoCallback])
        BY DEF Fits, InConnect, InDisconnect
      <4> QED BY <4>1, <4>2, SameTable, EnterKeeps, Assemble, Names
    <3> QED BY <3>1, <3>2
  <2>2. CASE InitAlloc(c)
    <3>1. TableType'
      BY <2>2 DEF InitAlloc, TypeInv, TypeOK, TableType
    <3>2. \E code \in Code : Return(c, code)
      BY <2>2, Names DEF InitAlloc
    <3> QED BY <3>1, <3>2, ReturnKeeps, Assemble
  <2>3. ASSUME NEW id \in Ids, NEW cb \in Callback \cup {NoCallback}, QcperfConnect(c, id, cb)
        PROVE  TypeInv'
    <3>1. CASE ConnectCheck(id) # "SUCCESS"
      <4>1. ConnectCheck(id) \in Code
        BY Names DEF ConnectCheck
      <4> QED BY <2>3, <3>1, <4>1, RefuseKeeps DEF QcperfConnect
    <3>2. CASE ConnectCheck(id) = "SUCCESS"
      <4>1. id \in Backend
        BY <3>2 DEF ConnectCheck, Backend
      <4>2. Fits("create", [op |-> "connect", id |-> id, cb |-> cb])
        BY <4>1 DEF Fits, InConnect, InDisconnect
      <4>3. UNCHANGED table /\ Enter(c, "connect", id, cb, "create")
        BY <2>3, <3>2 DEF QcperfConnect
      <4>4. id \in 0 .. BackendMax
        BY <4>1 DEF Backend
      <4> QED BY <4>2, <4>3, <4>4, SameTable, EnterKeeps, Assemble, Names
    <3> QED BY <3>1, <3>2
  <2>4. CASE ConnectCreate(c)
    <3>1. CASE ~allocated
      BY <2>4, <3>1, UndefinedKeeps, Names DEF ConnectCreate
    <3>2. CASE allocated
      <4>1. TableType'
        BY <2>4, <3>2 DEF ConnectCreate, TypeInv, TypeOK, TableType
      <4>2. Fits("publish", call[c])
        BY <2>4 DEF ConnectCreate, TypeInv, Control, Fits, InConnect, InDisconnect
      <4> QED BY <2>4, <3>2, <4>1, <4>2, GotoKeeps, Assemble, Names DEF ConnectCreate
    <3> QED BY <3>1, <3>2
  <2>5. CASE ConnectPublish(c)
    <3>1. TableType'
      BY <2>5, SameTable DEF ConnectPublish, TypeInv, TypeOK, TableType
    <3>2. CASE ~Verified(call[c].id)
      BY <2>5, <3>1, <3>2, ReturnKeeps, Assemble, Names DEF ConnectPublish
    <3>3. CASE Verified(call[c].id)
      <4>1. PICK at \in {"backend_init", "message"} : Goto(c, at)
        BY <2>5, <3>3 DEF ConnectPublish
      <4>2. Fits(at, call[c])
        BY <2>5 DEF ConnectPublish, TypeInv, Control, Fits, InConnect, InDisconnect
      <4>3. at \in Pc
        BY Names
      <4> QED BY <3>1, <4>1, <4>2, <4>3, GotoKeeps, Assemble
    <3> QED BY <3>2, <3>3
  <2>6. CASE ConnectMessage(c)
    <3>1. CASE Undefined("null_function")
      BY <3>1, UndefinedKeeps, Names
    <3>2. CASE ~Undefined("null_function")
      <4>1. call[c].cb \in Callback \cup {NoCallback}
        BY DEF TypeInv, TypeOK, CallType
      <4>2. TableType'
        BY <2>6, <3>2, <4>1, SameTable DEF ConnectMessage, TypeInv, TypeOK, TableType
      <4>3. Fits("backend_init", call[c])
        BY <2>6 DEF ConnectMessage, TypeInv, Control, Fits, InConnect, InDisconnect
      <4>4. Goto(c, "backend_init")
        BY <2>6, <3>2 DEF ConnectMessage
      <4> QED BY <4>2, <4>3, <4>4, GotoKeeps, Assemble, Names
    <3> QED BY <3>1, <3>2
  <2>7. CASE ConnectInit(c)
    <3>1. CASE \E f \in Fault : Undefined(f)
      BY <3>1, UndefinedKeeps
    <3>2. CASE ~ \E f \in Fault : Undefined(f)
      <4>1. TableType'
        BY <2>7, <3>2, SameTable, Names DEF ConnectInit, Begun, Held, TypeInv, TypeOK, TableType
      <4>2. Fits("undo", call[c])
        BY <2>7 DEF ConnectInit, TypeInv, Control, Fits, InConnect, InDisconnect
      <4>3. Return(c, "SUCCESS") \/ Goto(c, "undo")
        BY <2>7, <3>2, Names DEF ConnectInit
      <4> QED BY <4>1, <4>2, <4>3, GotoKeeps, ReturnKeeps, Assemble, Names
    <3> QED BY <3>1, <3>2
  <2>8. CASE ConnectUndo(c)
    <3>1. call[c].id \in Backend
      BY <2>8, CallInBackend DEF ConnectUndo, InConnect
    <3>2. TableType'
      BY <2>8, <3>1, SameTable, ClearFlagType DEF ConnectUndo
    <3>3. Fits("backend_deinit", call[c])
      BY <2>8 DEF ConnectUndo, TypeInv, Control, Fits, InConnect, InDisconnect
    <3>4. Return(c, "FAILED") \/ Goto(c, "backend_deinit")
      BY <2>8 DEF ConnectUndo
    <3> QED BY <3>2, <3>3, <3>4, GotoKeeps, ReturnKeeps, Assemble, Names
  <2>9. ASSUME NEW id \in Ids, QcperfUse(c, id) PROVE TypeInv'
    <3>1. PICK nullArgument \in BOOLEAN, past \in BOOLEAN :
            LET code == DispatchCheck(id, nullArgument, past) IN
            \/ code # "SUCCESS" /\ Refuse(c, code)
            \/ Undefined("past_table")
            \/ /\ id \in Backend
               /\ Enter(c, "use", id, NoCallback, "use") /\ UNCHANGED table
      BY <2>9 DEF QcperfUse
    <3>2. DispatchCheck(id, nullArgument, past) \in Code
      BY Names DEF DispatchCheck
    <3>3. CASE /\ id \in Backend
               /\ Enter(c, "use", id, NoCallback, "use") /\ UNCHANGED table
      <4>1. Fits("use", [op |-> "use", id |-> id, cb |-> NoCallback])
        BY <3>3 DEF Fits, InConnect, InDisconnect
      <4>2. id \in 0 .. BackendMax
        BY <3>3 DEF Backend
      <4> QED BY <3>3, <4>1, <4>2, SameTable, EnterKeeps, Assemble, Names
    <3> QED BY <3>1, <3>2, <3>3, RefuseKeeps, UndefinedKeeps, Names
  <2>10. CASE UseCall(c)
    <3>1. CASE \E f \in Fault : Undefined(f)
      BY <3>1, UndefinedKeeps
    <3>2. CASE ~ \E f \in Fault : Undefined(f)
      <4>1. UNCHANGED table /\ \E code \in Code : Return(c, code)
        BY <2>10, <3>2, Names DEF UseCall
      <4> QED BY <4>1, SameTable, ReturnKeeps, Assemble
    <3> QED BY <3>1, <3>2
  <2>11. ASSUME NEW id \in Ids, QcperfDisconnect(c, id) PROVE TypeInv'
    <3>1. PICK past \in BOOLEAN :
            LET code == DispatchCheck(id, FALSE, past) IN
            \/ code # "SUCCESS" /\ Refuse(c, code)
            \/ Undefined("past_table")
            \/ /\ id \in Backend
               /\ Enter(c, "disconnect", id, NoCallback, "backend_deinit") /\ ClearFlag(id)
      BY <2>11 DEF QcperfDisconnect
    <3>2. DispatchCheck(id, FALSE, past) \in Code
      BY Names DEF DispatchCheck
    <3>3. CASE /\ id \in Backend
               /\ Enter(c, "disconnect", id, NoCallback, "backend_deinit") /\ ClearFlag(id)
      <4>1. Fits("backend_deinit", [op |-> "disconnect", id |-> id, cb |-> NoCallback])
        BY <3>3 DEF Fits, InConnect, InDisconnect
      <4>2. id \in 0 .. BackendMax
        BY <3>3 DEF Backend
      <4> QED BY <3>3, <4>1, <4>2, ClearFlagType, EnterKeeps, Assemble, Names
    <3> QED BY <3>1, <3>2, <3>3, RefuseKeeps, UndefinedKeeps, Names
  <2>12. CASE DisconnectDeinit(c)
    <3>1. CASE ~allocated
      BY <2>12, <3>1, UndefinedKeeps, Names DEF DisconnectDeinit
    <3>2. CASE allocated
      <4>1. TableType'
        BY <2>12, <3>2 DEF DisconnectDeinit, Leaves, Held, TypeInv, TypeOK, TableType
      <4>2. Fits("reset", call[c])
        BY <2>12 DEF DisconnectDeinit, TypeInv, Control, Fits, InConnect, InDisconnect
      <4> QED BY <2>12, <3>2, <4>1, <4>2, GotoKeeps, Assemble, Names DEF DisconnectDeinit
    <3> QED BY <3>1, <3>2
  <2>13. CASE DisconnectReset(c)
    <3>1. TableType'
      BY <2>13 DEF DisconnectReset, TypeInv, TypeOK, TableType
    <3>2. CASE \E code \in Code : Return(c, code)
      BY <3>1, <3>2, ReturnKeeps, Assemble
    <3>3. CASE ~ \E code \in Code : Return(c, code)
      <4>1. /\ call[c].op = "deinit"
            /\ pc' = [pc EXCEPT ![c] = "deinit_loop"]
            /\ call' = [call EXCEPT ![c].id = call[c].id + 1]
            /\ UNCHANGED <<reply, fault>>
        BY <2>13, <3>3, Names DEF DisconnectReset
      <4>2. call[c].id + 1 \in 0 .. BackendMax
        BY <2>13, CallInBackend DEF DisconnectReset, InDisconnect, Backend
      <4> QED BY <3>1, <4>1, <4>2, AdvanceKeeps, Assemble
    <3> QED BY <3>2, <3>3
  <2>14. CASE QcperfDeinit(c)
    <3>1. CASE ~allocated
      BY <2>14, <3>1, RefuseKeeps, Names DEF QcperfDeinit
    <3>2. CASE allocated
      <4>1. UNCHANGED table /\ Enter(c, "deinit", 0, NoCallback, "deinit_loop")
        BY <2>14, <3>2 DEF QcperfDeinit
      <4>2. Fits("deinit_loop", [op |-> "deinit", id |-> 0, cb |-> NoCallback])
        BY DEF Fits, InConnect, InDisconnect
      <4> QED BY <4>1, <4>2, SameTable, EnterKeeps, Assemble, Names
    <3> QED BY <3>1, <3>2
  <2>15. CASE DeinitLoop(c)
    <3>1. call[c].id \in Backend
      BY <2>15 DEF DeinitLoop, TypeInv, TypeOK, CallType, Backend
    <3>2. call[c].op = "deinit"
      BY <2>15 DEF DeinitLoop, TypeInv, Control, Fits
    <3>3. CASE allocated /\ connected[call[c].id]
      <4>1. Fits("backend_deinit", call[c])
        BY <3>1, <3>2 DEF Fits, InConnect, InDisconnect
      <4> QED BY <2>15, <3>1, <3>3, <4>1, ClearFlagType, GotoKeeps, Assemble, Names DEF DeinitLoop
    <3>4. CASE ~(allocated /\ connected[call[c].id])
      <4>1. /\ UNCHANGED table
            /\ call' = [call EXCEPT ![c].id = call[c].id + 1]
            /\ UNCHANGED <<pc, reply, fault>>
        BY <2>15, <3>4 DEF DeinitLoop
      <4>2. pc' = [pc EXCEPT ![c] = "deinit_loop"]
        BY <2>15, <4>1 DEF DeinitLoop, TypeInv, TypeOK
      <4>3. call[c].id + 1 \in 0 .. BackendMax
        BY <3>1 DEF Backend
      <4> QED BY <3>2, <4>1, <4>2, <4>3, SameTable, AdvanceKeeps, Assemble
    <3> QED BY <3>3, <3>4
  <2>16. CASE DeinitFree(c)
    <3>1. TableType'
      BY <2>16 DEF DeinitFree, TypeInv, TypeOK, TableType
    <3> QED BY <2>16, <3>1, ReturnKeeps, Assemble, Names DEF DeinitFree
  <2> QED BY <1>1, <2>1, <2>2, <2>3, <2>4, <2>5, <2>6, <2>7, <2>8, <2>9, <2>10, <2>11,
             <2>12, <2>13, <2>14, <2>15, <2>16 DEF Step
<1>2. CASE UNCHANGED vars
  BY <1>2 DEF TypeInv, TypeOK, TableType, Control, vars
<1> QED BY <1>1, <1>2 DEF Next

LEMMA TypeInit == Init => TypeInv
<1> SUFFICES ASSUME Init PROVE TypeInv
  OBVIOUS
<1>1. NoCall \in CallType
  BY CoreAssumption, Names DEF NoCall, CallType
<1>2. TypeOK
  BY <1>1, Names DEF Init, Held, TypeOK, TableType
<1>3. Control
  BY DEF Init, Control, Fits, InConnect, InDisconnect
<1> QED BY <1>2, <1>3 DEF TypeInv

(* Whatever the application overlaps and whichever ids it passes, a call    *)
(* works on an id inside the table and qcperf_deinit's loop ends with it.   *)
THEOREM TypeCorrect == Spec => []TypeOK
<1>1. Spec => []TypeInv
  BY TypeInit, TypeStep, PTL DEF Spec
<1>2. TypeInv => TypeOK
  BY DEF TypeInv
<1> QED BY <1>1, <1>2, PTL

-----------------------------------------------------------------------------
(* Safety of an application that does not overlap calls: because it         *)
(* serialises them, or because it has not done so yet.                      *)

(* No call in progress stands in the way of a call to begin.                *)
Alone(c, op, id) ==
  /\ pc[c] = "idle"
  /\ \A d \in Client : pc[d] # "idle" =>
       op \notin Exclusive /\ call[d].op \notin Exclusive /\ call[d].id # id

(* A step of c that changes no entry of the table but b.                    *)
Moves(c, b) ==
  /\ allocated' = allocated
  /\ \A a \in Backend \ {b} :
       connected'[a] = connected[a] /\ held'[a] = held[a] /\ bound'[a] = bound[a]
  /\ \A d \in Client \ {c} : pc'[d] = pc[d] /\ call'[d] = call[d]

(* No other thread is in a call that reads or writes the entry b.           *)
Owns(c, b) ==
  \A d \in Client \ {c} : pc[d] # "idle" =>
    call[d].op \notin Exclusive /\ call[d].id # b

LEMMA Owner ==
  ASSUME SafetyInv, NEW c \in Client, pc[c] # "idle"
  PROVE  Owns(c, call[c].id)
BY DEF SafetyInv, Serial, Owns

LEMMA OwnerAlone ==
  ASSUME SafetyInv, NEW c \in Client, pc[c] # "idle", call[c].op \in Exclusive
  PROVE  \A d \in Client \ {c} : pc[d] = "idle"
BY DEF SafetyInv, Serial

LEMMA FreeOwner ==
  ASSUME NEW c \in Client, NEW op, NEW id, Alone(c, op, id)
  PROVE  /\ pc[c] = "idle" /\ Owns(c, id)
         /\ op \in Exclusive => \A d \in Client \ {c} : pc[d] = "idle"
BY DEF Alone, Owns

(* A call that begins alone, or that finds itself alone once it has begun.  *)
LEMMA EntersAlone ==
  ASSUME TypeInv, AppSerialises \/ Serial', NEW c \in Client, NEW op, NEW id, NEW cb,
         NEW at, at # "idle", Free(c, op, id), Enter(c, op, id, cb, at)
  PROVE  Alone(c, op, id)
<1>1. CASE AppSerialises
  BY <1>1 DEF Free, Alone
<1>2. CASE Serial'
  <2>1. pc'[c] = at /\ call'[c].op = op /\ call'[c].id = id
    BY DEF TypeInv, TypeOK, Enter
  <2>2. \A d \in Client \ {c} : pc'[d] = pc[d] /\ call'[d] = call[d]
    BY DEF TypeInv, TypeOK, Enter
  <2>3. pc[c] = "idle"
    BY DEF Free
  <2>4. ASSUME NEW d \in Client, pc[d] # "idle"
        PROVE  op \notin Exclusive /\ call[d].op \notin Exclusive /\ call[d].id # id
    BY <1>2, <2>1, <2>2, <2>3, <2>4 DEF Serial
  <2> QED BY <2>3, <2>4 DEF Alone
<1> QED BY <1>1, <1>2

(* The frame: what every other thread and every other entry say still holds.*)
LEMMA Frame ==
  ASSUME TypeInv, SafetyInv, NEW c \in Client, NEW b, Moves(c, b), Owns(c, b),
         pc[c] = "idle" \/ call[c].id = b,
         Serial', LocalAt(c)', b \in Backend => EntryAt(b)', fault' = "none",
         call'[c].id = b \/ pc'[c] \in {"idle", "deinit_loop"}
  PROVE  SafetyInv'
<1>1. ASSUME NEW d \in Client, d # c PROVE LocalAt(d)'
  <2>1. LocalAt(d) /\ pc'[d] = pc[d] /\ call'[d] = call[d]
    BY <1>1 DEF SafetyInv, Local, Moves
  <2>2. CASE pc[d] = "idle"
    BY <2>1, <2>2 DEF LocalAt
  <2>3. CASE pc[d] # "idle" /\ call[d].id \in Backend
    <3>1. call[d].id # b /\ call[d].op \notin Exclusive
      BY <1>1, <2>3 DEF Owns
    <3>2. /\ connected'[call[d].id] = connected[call[d].id]
          /\ held'[call[d].id] = held[call[d].id]
          /\ bound'[call[d].id] = bound[call[d].id]
      BY <2>3, <3>1 DEF Moves
    <3> QED BY <2>1, <3>1, <3>2 DEF LocalAt, Ready, Moves, Exclusive
  <2>4. CASE pc[d] # "idle" /\ call[d].id \notin Backend
    <3>1. call[d].op \notin Exclusive /\ pc[d] \in Pc /\ Fits(pc[d], call[d])
      BY <1>1, <2>4 DEF Owns, TypeInv, TypeOK, Control
    <3> QED BY <2>4, <3>1 DEF Fits, Pc, Exclusive, InConnect, InDisconnect
  <2> QED BY <2>2, <2>3, <2>4
<1>2. ASSUME NEW a \in Backend, a # b PROVE EntryAt(a)'
  <2>1. EntryAt(a)
    BY DEF SafetyInv, Table
  <2>2. /\ connected'[a] = connected[a] /\ held'[a] = held[a]
        /\ bound'[a] = bound[a] /\ allocated' = allocated
    BY <1>2 DEF Moves
  <2>3. Opening(a) => Opening(a)'
    BY <1>2 DEF Opening, Moves
  <2>4. Settled(a)' => Settled(a)
    BY <1>2 DEF Settled, Moves
  <2> QED BY <2>1, <2>2, <2>3, <2>4 DEF EntryAt, Ready
<1> QED BY <1>1, <1>2 DEF SafetyInv, Local, Table

LEMMA Unmoved ==
  ASSUME SafetyInv, UNCHANGED <<table, pc, call, fault>>
  PROVE  SafetyInv'
BY DEF SafetyInv, Ready, Serial, Local, LocalAt, Table, EntryAt, Settled, Opening, table

(* Serial after each way of moving a thread.                                *)
LEMMA GotoSerial ==
  ASSUME TypeInv, SafetyInv, NEW c \in Client, pc[c] # "idle", NEW at \in Pc, Goto(c, at)
  PROVE  /\ Serial' /\ pc'[c] = at /\ call'[c] = call[c] /\ fault' = "none"
         /\ \A d \in Client \ {c} : pc'[d] = pc[d] /\ call'[d] = call[d]
BY DEF TypeInv, TypeOK, SafetyInv, Serial, Goto

LEMMA ReturnSerial ==
  ASSUME TypeInv, SafetyInv, NEW c \in Client, NEW code, Return(c, code)
  PROVE  /\ Serial' /\ pc'[c] = "idle" /\ fault' = "none"
         /\ \A d \in Client \ {c} : pc'[d] = pc[d] /\ call'[d] = call[d]
BY DEF TypeInv, TypeOK, SafetyInv, Serial, Return

LEMMA EnterSerial ==
  ASSUME TypeInv, SafetyInv, NEW c \in Client, NEW op, NEW id, NEW cb,
         NEW at, Alone(c, op, id), Enter(c, op, id, cb, at)
  PROVE  /\ Serial' /\ pc'[c] = at /\ fault' = "none"
         /\ call'[c].id = id /\ call'[c].op = op
         /\ \A d \in Client \ {c} : pc'[d] = pc[d] /\ call'[d] = call[d]
BY DEF TypeInv, TypeOK, SafetyInv, Serial, Enter, Alone

LEMMA AdvanceSerial ==
  ASSUME TypeInv, SafetyInv, NEW c \in Client, NEW i, call[c].op = "deinit",
         pc[c] # "idle", pc' = [pc EXCEPT ![c] = "deinit_loop"],
         call' = [call EXCEPT ![c].id = i], UNCHANGED <<reply, fault>>
  PROVE  /\ Serial' /\ pc'[c] = "deinit_loop" /\ fault' = "none"
         /\ call'[c].id = i /\ call'[c].op = "deinit"
         /\ \A d \in Client \ {c} : pc'[d] = pc[d] /\ call'[d] = call[d]
<1>1. /\ pc'[c] = "deinit_loop" /\ fault' = "none"
      /\ call'[c].id = i /\ call'[c].op = "deinit"
      /\ \A d \in Client \ {c} : pc'[d] = pc[d] /\ call'[d] = call[d]
  BY DEF TypeInv, TypeOK, CallType, SafetyInv
<1>2. \A d \in Client \ {c} : pc[d] = "idle"
  BY OwnerAlone DEF Exclusive
<1> QED BY <1>1, <1>2 DEF Serial

(* Entering a call changes no entry: the entry it is on needs no new proof. *)
LEMMA EnterSafe ==
  ASSUME TypeInv, SafetyInv, NEW c \in Client, NEW op, NEW id, NEW cb,
         NEW at \in {"init_alloc", "create", "use", "deinit_loop"},
         Alone(c, op, id), Enter(c, op, id, cb, at), UNCHANGED table, LocalAt(c)'
  PROVE  SafetyInv'
<1>1. /\ Serial' /\ pc'[c] = at /\ fault' = "none" /\ call'[c].id = id
      /\ \A d \in Client \ {c} : pc'[d] = pc[d] /\ call'[d] = call[d]
  BY EnterSerial
<1>2. pc[c] = "idle" /\ Owns(c, id)
  BY FreeOwner
<1>3. Moves(c, id)
  BY <1>1 DEF Moves, table
<1>4. ASSUME id \in Backend PROVE EntryAt(id)'
  <2>1. EntryAt(id) /\ UNCHANGED <<allocated, bound, connected, held>>
    BY <1>4 DEF SafetyInv, Table, table
  <2>2. Opening(id) => Opening(id)'
    BY <1>1, <1>2 DEF Opening
  <2>3. Settled(id)' => Settled(id)
    BY <1>1, <1>2 DEF Settled
  <2> QED BY <2>1, <2>2, <2>3 DEF EntryAt, Ready
<1> QED BY <1>1, <1>2, <1>3, <1>4, Frame

(* A step of a call in progress that touches only the entry it works on.    *)
OnlyEntry(b) ==
  /\ allocated' = allocated
  /\ \A a \in Backend \ {b} :
       connected'[a] = connected[a] /\ held'[a] = held[a] /\ bound'[a] = bound[a]

LEMMA GotoSafe ==
  ASSUME TypeInv, SafetyInv, NEW c \in Client, NEW b, b = call[c].id, pc[c] # "idle",
         NEW at \in Pc, Goto(c, at),
         OnlyEntry(b),
         pc'[c] = at /\ call'[c] = call[c] => LocalAt(c)' /\ EntryAt(b)'
  PROVE  SafetyInv'
<1>1. /\ Serial' /\ pc'[c] = at /\ call'[c] = call[c] /\ fault' = "none"
      /\ \A d \in Client \ {c} : pc'[d] = pc[d] /\ call'[d] = call[d]
  BY GotoSerial
<1>2. Moves(c, b)
  BY <1>1 DEF Moves, OnlyEntry
<1> QED BY <1>1, <1>2, Owner, Frame

LEMMA ReturnSafe ==
  ASSUME TypeInv, SafetyInv, NEW c \in Client, NEW b, b = call[c].id, pc[c] # "idle",
         NEW code, Return(c, code),
         OnlyEntry(b),
         pc'[c] = "idle" => EntryAt(b)'
  PROVE  SafetyInv'
<1>1. /\ Serial' /\ pc'[c] = "idle" /\ fault' = "none"
      /\ \A d \in Client \ {c} : pc'[d] = pc[d] /\ call'[d] = call[d]
  BY ReturnSerial
<1>2. Moves(c, b)
  BY <1>1 DEF Moves, OnlyEntry
<1>3. LocalAt(c)'
  BY <1>1 DEF LocalAt
<1> QED BY <1>1, <1>2, <1>3, Owner, Frame

(* qcperf_deinit passes over the entry b, which no longer is connected.     *)
LEMMA AdvanceSafe ==
  ASSUME TypeInv, SafetyInv, NEW c \in Client, NEW b, b = call[c].id, pc[c] # "idle",
         call[c].op = "deinit",
         pc' = [pc EXCEPT ![c] = "deinit_loop"],
         call' = [call EXCEPT ![c].id = b + 1], UNCHANGED <<reply, fault>>,
         allocated, b \in Backend, OnlyEntry(b),
         ~connected'[b], Ready(b)', ~bound'[b]
  PROVE  SafetyInv'
<1>1. /\ Serial' /\ pc'[c] = "deinit_loop" /\ fault' = "none"
      /\ call'[c].id = b + 1 /\ call'[c].op = "deinit"
      /\ \A d \in Client \ {c} : pc'[d] = pc[d] /\ call'[d] = call[d]
  BY AdvanceSerial
<1>2. Moves(c, b)
  BY <1>1 DEF Moves, OnlyEntry
<1>3. \A a \in Backend : a < b => ~connected[a]
  BY DEF SafetyInv, Local, LocalAt
<1>4. \A a \in Backend : a < b + 1 => ~connected'[a]
  BY <1>3, CoreAssumption DEF OnlyEntry, Backend
<1>5. LocalAt(c)'
  BY <1>1, <1>4 DEF LocalAt, OnlyEntry
<1>6. EntryAt(b)'
  BY DEF EntryAt
<1> QED BY <1>1, <1>2, <1>5, <1>6, Owner, Frame

(* The first step of a disconnect, whoever makes it.                         *)
LEMMA ClearSafe ==
  ASSUME TypeInv, SafetyInv, NEW c \in Client, NEW b, b = call[c].id, pc[c] # "idle",
         b \in Backend,
         allocated, bound[b], ClearFlag(b), Goto(c, "backend_deinit")
  PROVE  SafetyInv'
<1>1. /\ UNCHANGED <<allocated, bound, held>>
      /\ connected' = [connected EXCEPT ![b] = FALSE]
  BY DEF ClearFlag
<1>2. OnlyEntry(b) /\ connected'[b] = FALSE
  BY <1>1 DEF OnlyEntry, TypeInv, TypeOK, TableType
<1>3. LocalAt(c)
  BY DEF SafetyInv, Local
<1>4. \A a \in Backend : ~connected[a] => ~connected'[a]
  BY <1>2 DEF OnlyEntry
<1>5. ASSUME pc'[c] = "backend_deinit" /\ call'[c] = call[c]
      PROVE  LocalAt(c)' /\ EntryAt(b)'
  <2>1. LocalAt(c)'
    BY <1>1, <1>2, <1>3, <1>4, <1>5 DEF LocalAt
  <2>2. EntryAt(b)'
    BY <1>2, <1>5 DEF EntryAt, Settled
  <2> QED BY <2>1, <2>2
<1> QED BY <1>2, <1>5, GotoSafe, Names

LEMMA SafetyStep ==
  ASSUME AppSerialises \/ Serial', fault' # "past_table", TypeInv, SafetyInv, [Next]_vars
  PROVE  SafetyInv'
<1> USE CoreAssumption DEF Ready
<1>1. ASSUME NEW c \in Client, Step(c) PROVE SafetyInv'
  <2> PICK b : b = call[c].id
    OBVIOUS
  <2>0. LocalAt(c) /\ fault = "none" /\ (b \in Backend => EntryAt(b))
    BY DEF SafetyInv, Local, Table
  <2>1. CASE QcperfInit(c)
    <3>1. CASE allocated
      BY <2>1, <3>1, Unmoved DEF QcperfInit, Refuse, table
    <3>2. CASE ~allocated
      <4>1. /\ Alone(c, "init", 0) /\ UNCHANGED table
            /\ Enter(c, "init", 0, NoCallback, "init_alloc")
        BY <2>1, <3>2, EntersAlone DEF QcperfInit
      <4>2. /\ Serial' /\ pc'[c] = "init_alloc" /\ fault' = "none"
            /\ call'[c].id = 0 /\ call'[c].op = "init"
            /\ \A d \in Client \ {c} : pc'[d] = pc[d] /\ call'[d] = call[d]
        BY <4>1, EnterSerial
      <4> QED BY <3>2, <4>1, <4>2, EnterSafe DEF LocalAt, table
    <3> QED BY <3>1, <3>2
  <2>2. CASE InitAlloc(c)
    <3>1. /\ pc[c] = "init_alloc" /\ call[c].op = "init" /\ ~allocated
      BY <2>2, <2>0 DEF InitAlloc, LocalAt, TypeInv, Control, Fits
    <3>2. \A d \in Client \ {c} : pc[d] = "idle"
      BY <3>1, OwnerAlone DEF Exclusive
    <3>3. /\ \A a \in Backend : ~bound'[a]
          /\ UNCHANGED <<connected, held>>
          /\ \E code \in Code : Return(c, code)
      <4>1. \A a \in Backend : ~connected[a] /\ Settled(a)
        BY <3>1, <3>2 DEF SafetyInv, Table, EntryAt, Settled
      <4>2. \A a \in Backend : ~bound[a]
        BY <4>1 DEF SafetyInv, Table, EntryAt
      <4> QED BY <2>2, <4>2, Names DEF InitAlloc
    <3>4. \A a \in Backend : ~connected[a] /\ Ready(a)
      BY <3>1, <3>2 DEF SafetyInv, Table, EntryAt, Settled
    <3>5. /\ Serial' /\ pc'[c] = "idle" /\ fault' = "none"
          /\ \A d \in Client \ {c} : pc'[d] = pc[d] /\ call'[d] = call[d]
      BY <3>3, ReturnSerial
    <3>6. \A d \in Client : pc'[d] = "idle"
      BY <3>2, <3>5
    <3>7. Local'
      BY <3>6 DEF Local, LocalAt
    <3>8. Table'
      BY <3>3, <3>4 DEF Table, EntryAt
    <3> QED BY <3>5, <3>7, <3>8 DEF SafetyInv
  <2>3. ASSUME NEW id \in Ids, NEW cb \in Callback \cup {NoCallback}, QcperfConnect(c, id, cb)
        PROVE  SafetyInv'
    <3>1. CASE ConnectCheck(id) # "SUCCESS"
      BY <2>3, <3>1, Unmoved DEF QcperfConnect, Refuse, table
    <3>2. CASE ConnectCheck(id) = "SUCCESS"
      <4>1. id \in Backend /\ allocated /\ ~connected[id]
        BY <3>2 DEF ConnectCheck, Backend
      <4>2. /\ Alone(c, "connect", id) /\ UNCHANGED table
            /\ Enter(c, "connect", id, cb, "create")
        BY <2>3, <3>2, EntersAlone DEF QcperfConnect
      <4>3. /\ Serial' /\ pc'[c] = "create" /\ fault' = "none"
            /\ call'[c].id = id /\ call'[c].op = "connect"
            /\ \A d \in Client \ {c} : pc'[d] = pc[d] /\ call'[d] = call[d]
        BY <4>2, EnterSerial
      <4>4. Settled(id)
        BY <4>2, FreeOwner DEF Owns, Settled
      <4>5. Ready(id) /\ ~bound[id]
        BY <4>1, <4>4 DEF SafetyInv, Table, EntryAt
      <4> QED BY <4>1, <4>2, <4>3, <4>5, EnterSafe DEF LocalAt, table
    <3> QED BY <3>1, <3>2
  <2>4. CASE ConnectCreate(c)
    <3>1. /\ pc[c] = "create" /\ call[c].op = "connect"
          /\ b \in Backend /\ allocated /\ ~connected[b] /\ Ready(b)
      BY <2>4, <2>0, CallInBackend
         DEF ConnectCreate, LocalAt, InConnect, TypeInv, Control, Fits
    <3>2. /\ bound' = [bound EXCEPT ![b] = TRUE]
          /\ UNCHANGED <<allocated, connected, held>> /\ Goto(c, "publish")
      BY <2>4, <3>1 DEF ConnectCreate
    <3>3. OnlyEntry(b) /\ bound'[b] = TRUE
      BY <3>1, <3>2 DEF OnlyEntry, TypeInv, TypeOK, TableType
    <3>4. ASSUME pc'[c] = "publish" /\ call'[c] = call[c]
          PROVE  LocalAt(c)' /\ EntryAt(b)'
      <4>1. LocalAt(c)'
        BY <3>1, <3>2, <3>3, <3>4 DEF LocalAt
      <4>2. EntryAt(b)'
        BY <3>1, <3>2, <3>4 DEF EntryAt, Settled
      <4> QED BY <4>1, <4>2
    <3> QED BY <3>1, <3>2, <3>3, <3>4, GotoSafe, Names
  <2>5. CASE ConnectPublish(c)
    <3>1. /\ pc[c] = "publish" /\ call[c].op = "connect"
          /\ b \in Backend /\ allocated /\ bound[b] /\ Ready(b)
      BY <2>5, <2>0, CallInBackend
         DEF ConnectPublish, LocalAt, InConnect, TypeInv, Control, Fits
    <3>2. PICK at \in {"backend_init", "message"} :
            /\ connected' = [connected EXCEPT ![b] = TRUE]
            /\ UNCHANGED <<allocated, bound, held>> /\ Goto(c, at)
      BY <2>5, <3>1 DEF ConnectPublish, Verified
    <3>3. OnlyEntry(b) /\ connected'[b] = TRUE /\ at \in Pc
      BY <3>1, <3>2, Names DEF OnlyEntry, TypeInv, TypeOK, TableType
    <3>4. ASSUME pc'[c] = at /\ call'[c] = call[c]
          PROVE  LocalAt(c)' /\ EntryAt(b)'
      <4>1. LocalAt(c)'
        BY <3>1, <3>2, <3>3, <3>4 DEF LocalAt
      <4>2. EntryAt(b)'
        BY <3>1, <3>2, <3>3, <3>4 DEF EntryAt, Opening
      <4> QED BY <4>1, <4>2
    <3> QED BY <3>1, <3>2, <3>3, <3>4, GotoSafe
  <2>6. CASE ConnectMessage(c)
    <3>1. /\ pc[c] = "message" /\ call[c].op = "connect" /\ b \in Backend /\ allocated
          /\ connected[b] /\ bound[b] /\ Ready(b)
      BY <2>6, <2>0, CallInBackend
         DEF ConnectMessage, LocalAt, InConnect, TypeInv, Control, Fits
    <3>2. UNCHANGED <<allocated, bound, connected, held>> /\ Goto(c, "backend_init")
      BY <2>6, <3>1 DEF ConnectMessage
    <3>3. OnlyEntry(b)
      BY <3>2 DEF OnlyEntry
    <3>4. ASSUME pc'[c] = "backend_init" /\ call'[c] = call[c]
          PROVE  LocalAt(c)' /\ EntryAt(b)'
      <4>1. LocalAt(c)'
        BY <3>1, <3>2, <3>4 DEF LocalAt
      <4>2. EntryAt(b)'
        BY <3>1, <3>2, <3>4 DEF EntryAt, Opening
      <4> QED BY <4>1, <4>2
    <3> QED BY <3>1, <3>2, <3>3, <3>4, GotoSafe, Names
  <2>7. CASE ConnectInit(c)
    <3>1. /\ pc[c] = "backend_init" /\ call[c].op = "connect" /\ b \in Backend /\ allocated
          /\ connected[b] /\ bound[b] /\ Ready(b)
      BY <2>7, <2>0, CallInBackend
         DEF ConnectInit, LocalAt, InConnect, TypeInv, Control, Fits
    <3>2. CASE /\ held' = [held EXCEPT ![b] = "all"] /\ UNCHANGED <<allocated, bound, connected>>
               /\ Return(c, "SUCCESS")
      <4>1. OnlyEntry(b) /\ EntryAt(b)'
        BY <3>1, <3>2 DEF OnlyEntry, EntryAt, TypeInv, TypeOK, TableType
      <4> QED BY <3>1, <3>2, <4>1, ReturnSafe
    <3>3. CASE /\ UNCHANGED <<allocated, bound, connected>> /\ Goto(c, "undo")
               /\ \E h : held' = [held EXCEPT ![b] = h]
      <4>1. OnlyEntry(b)
        BY <3>3 DEF OnlyEntry, TypeInv, TypeOK, TableType
      <4>2. ASSUME pc'[c] = "undo" /\ call'[c] = call[c]
            PROVE  LocalAt(c)' /\ EntryAt(b)'
        <5>1. LocalAt(c)'
          BY <3>1, <3>3, <4>2 DEF LocalAt
        <5>2. EntryAt(b)'
          BY <3>1, <3>3, <4>2 DEF EntryAt, Opening
        <5> QED BY <5>1, <5>2
      <4> QED BY <3>1, <3>3, <4>1, <4>2, GotoSafe, Names
    <3>4. CASE UNCHANGED table /\ Goto(c, "undo")
      <4>1. held' = [held EXCEPT ![b] = held[b]]
        BY <3>4 DEF table, TypeInv, TypeOK, TableType
      <4> QED BY <3>3, <3>4, <4>1 DEF table
    <3> QED BY <2>7, <3>1, <3>2, <3>3, <3>4 DEF ConnectInit, Released
  <2>8. CASE ConnectUndo(c)
    <3>1. /\ pc[c] = "undo" /\ b \in Backend /\ call[c].op = "connect" /\ allocated
          /\ connected[b] /\ bound[b]
      BY <2>8, <2>0, CallInBackend DEF ConnectUndo, LocalAt, InConnect, TypeInv, Control, Fits
    <3>2. ClearFlag(b) /\ Goto(c, "backend_deinit")
      BY <2>8, <3>1 DEF ConnectUndo
    <3> QED BY <3>1, <3>2, ClearSafe
  <2>9. ASSUME NEW id \in Ids, QcperfUse(c, id) PROVE SafetyInv'
    <3>1. PICK nullArgument \in BOOLEAN, past \in BOOLEAN :
            LET code == DispatchCheck(id, nullArgument, past) IN
            \/ Refuse(c, code)
            \/ code = "SUCCESS" /\ id = BackendMax /\ Undefined("past_table")
            \/ /\ code = "SUCCESS" /\ id \in Backend
               /\ Enter(c, "use", id, NoCallback, "use") /\ UNCHANGED table
      BY <2>9 DEF QcperfUse
    <3>2. CASE Refuse(c, DispatchCheck(id, nullArgument, past))
      BY <3>2, Unmoved DEF Refuse, table
    <3>3. CASE /\ DispatchCheck(id, nullArgument, past) = "SUCCESS" /\ id \in Backend
               /\ Enter(c, "use", id, NoCallback, "use") /\ UNCHANGED table
      <4>1. allocated /\ connected[id]
        BY <3>3 DEF DispatchCheck, IsConnected
      <4>2. Alone(c, "use", id)
        BY <2>9, <3>3, EntersAlone DEF QcperfUse
      <4>3. /\ pc'[c] = "use" /\ call'[c].id = id /\ call'[c].op = "use"
        BY <3>3, <4>2, EnterSerial
      <4>4. LocalAt(c)'
        BY <3>3, <4>1, <4>3 DEF LocalAt, table
      <4> QED BY <3>3, <4>2, <4>4, EnterSafe
    <3>4. CASE Undefined("past_table")
      BY <3>4 DEF Undefined
    <3> QED BY <3>1, <3>2, <3>3, <3>4
  <2>10. CASE UseCall(c)
    <3>1. pc[c] = "use" /\ b \in Backend /\ allocated /\ connected[b] /\ bound[b]
      BY <2>10, <2>0, CallInBackend DEF UseCall, LocalAt, EntryAt
    <3>2. UNCHANGED <<allocated, bound, connected, held>> /\ \E code : Return(c, code)
      BY <2>10, <3>1 DEF UseCall, table
    <3>3. Opening(b) => Opening(b)'
      BY <3>1, <3>2, ReturnSerial DEF Opening
    <3>4. OnlyEntry(b) /\ EntryAt(b)'
      BY <2>0, <3>1, <3>2, <3>3 DEF OnlyEntry, EntryAt
    <3> QED BY <3>1, <3>2, <3>4, ReturnSafe
  <2>11. ASSUME NEW id \in Ids, QcperfDisconnect(c, id) PROVE SafetyInv'
    <3>1. PICK past \in BOOLEAN :
            LET code == DispatchCheck(id, FALSE, past) IN
            \/ Refuse(c, code)
            \/ code = "SUCCESS" /\ id = BackendMax /\ Undefined("past_table")
            \/ /\ code = "SUCCESS" /\ id \in Backend
               /\ Enter(c, "disconnect", id, NoCallback, "backend_deinit") /\ ClearFlag(id)
      BY <2>11 DEF QcperfDisconnect
    <3>2. CASE Refuse(c, DispatchCheck(id, FALSE, past))
      BY <3>2, Unmoved DEF Refuse, table
    <3>3. CASE /\ DispatchCheck(id, FALSE, past) = "SUCCESS" /\ id \in Backend
               /\ Enter(c, "disconnect", id, NoCallback, "backend_deinit") /\ ClearFlag(id)
      <4>1. allocated /\ connected[id] /\ bound[id]
        BY <3>3 DEF DispatchCheck, IsConnected, SafetyInv, Table, EntryAt
      <4>2. Alone(c, "disconnect", id)
        BY <2>11, <3>3, EntersAlone DEF QcperfDisconnect
      <4>3. /\ Serial' /\ pc'[c] = "backend_deinit" /\ fault' = "none"
            /\ call'[c].id = id /\ call'[c].op = "disconnect"
            /\ \A d \in Client \ {c} : pc'[d] = pc[d] /\ call'[d] = call[d]
        BY <3>3, <4>2, EnterSerial
      <4>4. /\ UNCHANGED <<allocated, bound, held>>
            /\ connected' = [connected EXCEPT ![id] = FALSE]
        BY <3>3 DEF ClearFlag
      <4>5. connected'[id] = FALSE /\ Moves(c, id)
        BY <3>3, <4>3, <4>4 DEF Moves, TypeInv, TypeOK, TableType
      <4>6. LocalAt(c)'
        BY <4>1, <4>3, <4>4, <4>5 DEF LocalAt
      <4>7. EntryAt(id)'
        BY <4>3, <4>5 DEF EntryAt, Settled
      <4>8. pc[c] = "idle" /\ Owns(c, id)
        BY <4>2, FreeOwner
      <4> QED BY <4>3, <4>5, <4>6, <4>7, <4>8, Frame
    <3>4. CASE Undefined("past_table")
      BY <3>4 DEF Undefined
    <3> QED BY <3>1, <3>2, <3>3, <3>4
  <2>12. CASE DisconnectDeinit(c)
    <3>1. /\ pc[c] = "backend_deinit" /\ b \in Backend /\ allocated
          /\ ~connected[b] /\ bound[b]
      BY <2>12, <2>0, CallInBackend DEF DisconnectDeinit, LocalAt, InDisconnect
    <3>2. /\ \E h \in Leaves(b) : held' = [held EXCEPT ![b] = h]
          /\ UNCHANGED <<allocated, bound, connected>> /\ Goto(c, "reset")
      BY <2>12, <3>1 DEF DisconnectDeinit
    <3>3. OnlyEntry(b) /\ Ready(b)'
      BY <3>1, <3>2 DEF OnlyEntry, Leaves, Released, TypeInv, TypeOK, TableType
    <3>4. ASSUME pc'[c] = "reset" /\ call'[c] = call[c]
          PROVE  LocalAt(c)' /\ EntryAt(b)'
      <4>1. LocalAt(c)'
        BY <2>0, <3>1, <3>2, <3>3, <3>4 DEF LocalAt
      <4>2. EntryAt(b)'
        BY <3>1, <3>2, <3>4 DEF EntryAt, Settled
      <4> QED BY <4>1, <4>2
    <3> QED BY <3>1, <3>2, <3>3, <3>4, GotoSafe, Names
  <2>13. CASE DisconnectReset(c)
    <3>1. /\ pc[c] = "reset" /\ b \in Backend /\ allocated /\ ~connected[b] /\ Ready(b)
      BY <2>13, <2>0, CallInBackend DEF DisconnectReset, LocalAt, InDisconnect
    <3>2. /\ bound' = [bound EXCEPT ![b] = FALSE]
          /\ UNCHANGED <<allocated, connected, held>>
      BY <2>13, <3>1 DEF DisconnectReset
    <3>3. OnlyEntry(b) /\ bound'[b] = FALSE /\ EntryAt(b)'
      BY <3>1, <3>2 DEF OnlyEntry, EntryAt, TypeInv, TypeOK, TableType
    <3>4. CASE \E code : Return(c, code)
      BY <3>1, <3>3, <3>4, ReturnSafe
    <3>5. CASE ~ \E code : Return(c, code)
      <4>1. /\ call[c].op = "deinit" /\ UNCHANGED <<reply, fault>>
            /\ pc' = [pc EXCEPT ![c] = "deinit_loop"]
            /\ call' = [call EXCEPT ![c].id = call[c].id + 1]
        BY <2>13, <3>5 DEF DisconnectReset
      <4> QED BY <3>1, <3>2, <3>3, <4>1, AdvanceSafe
    <3> QED BY <3>4, <3>5
  <2>14. CASE QcperfDeinit(c)
    <3>1. CASE ~allocated
      BY <2>14, <3>1, Unmoved DEF QcperfDeinit, Refuse, table
    <3>2. CASE allocated
      <4>1. /\ Alone(c, "deinit", 0) /\ UNCHANGED table
            /\ Enter(c, "deinit", 0, NoCallback, "deinit_loop")
        BY <2>14, <3>2, EntersAlone DEF QcperfDeinit
      <4>2. pc'[c] = "deinit_loop" /\ call'[c].id = 0 /\ call'[c].op = "deinit"
        BY <4>1, EnterSerial
      <4>3. LocalAt(c)'
        BY <3>2, <4>1, <4>2 DEF LocalAt, table, Backend
      <4> QED BY <4>1, <4>3, EnterSafe
    <3> QED BY <3>1, <3>2
  <2>15. CASE DeinitLoop(c)
    <3>1. /\ pc[c] = "deinit_loop" /\ b \in Backend /\ call[c].op = "deinit" /\ allocated
      BY <2>15, <2>0 DEF DeinitLoop, LocalAt, TypeInv, TypeOK, CallType, Control, Fits, Backend
    <3>2. CASE connected[b]
      <4>1. ClearFlag(b) /\ Goto(c, "backend_deinit")
        BY <2>15, <3>1, <3>2 DEF DeinitLoop
      <4>2. bound[b]
        BY <2>0, <3>1, <3>2 DEF EntryAt
      <4> QED BY <3>1, <4>1, <4>2, ClearSafe
    <3>3. CASE ~connected[b]
      <4>1. /\ UNCHANGED <<allocated, bound, connected, held>>
            /\ call' = [call EXCEPT ![c].id = call[c].id + 1]
            /\ UNCHANGED <<pc, reply, fault>>
        BY <2>15, <3>3 DEF DeinitLoop, table
      <4>2. pc' = [pc EXCEPT ![c] = "deinit_loop"]
        BY <3>1, <4>1 DEF TypeInv, TypeOK
      <4>3. Settled(b)
        BY <3>1, OwnerAlone DEF Settled, Exclusive
      <4>4. OnlyEntry(b) /\ ~connected'[b] /\ Ready(b)' /\ ~bound'[b]
        BY <2>0, <3>1, <3>3, <4>1, <4>3 DEF EntryAt, OnlyEntry
      <4> QED BY <3>1, <4>1, <4>2, <4>4, AdvanceSafe
    <3> QED BY <3>2, <3>3
  <2>16. CASE DeinitFree(c)
    <3>1. pc[c] = "deinit_loop" /\ call[c].op = "deinit" /\ b = BackendMax
      BY <2>16 DEF DeinitFree, TypeInv, Control, Fits
    <3>2. \A d \in Client \ {c} : pc[d] = "idle"
      BY <3>1, OwnerAlone DEF Exclusive
    <3>3. \A a \in Backend : ~connected[a] /\ Settled(a)
      BY <2>0, <3>1, <3>2 DEF LocalAt, Settled, Backend
    <3>4. \A a \in Backend : ~connected[a] /\ Ready(a) /\ ~bound[a]
      BY <3>3 DEF SafetyInv, Table, EntryAt
    <3>5. UNCHANGED <<bound, connected, held>> /\ Return(c, "SUCCESS")
      BY <2>16 DEF DeinitFree
    <3>6. /\ Serial' /\ pc'[c] = "idle" /\ fault' = "none"
          /\ \A d \in Client \ {c} : pc'[d] = pc[d] /\ call'[d] = call[d]
      BY <3>5, ReturnSerial
    <3>7. Local'
      BY <3>2, <3>6 DEF Local, LocalAt
    <3>8. Table'
      BY <3>4, <3>5 DEF Table, EntryAt
    <3> QED BY <3>6, <3>7, <3>8 DEF SafetyInv
  <2> QED BY <1>1, <2>1, <2>2, <2>3, <2>4, <2>5, <2>6, <2>7, <2>8, <2>9, <2>10, <2>11,
             <2>12, <2>13, <2>14, <2>15, <2>16 DEF Step
<1>2. CASE UNCHANGED vars
  BY <1>2, Unmoved DEF vars, table
<1> QED BY <1>1, <1>2 DEF Next

LEMMA SafetyInit == Init => SafetyInv
BY DEF Init, SafetyInv, Serial, Local, LocalAt, Table, EntryAt, Ready, Released

-----------------------------------------------------------------------------
(* Undefined steps and overlapping calls: up to the first overlap, or the    *)
(* first access past the table, which stops the program, everything that     *)
(* holds of a serialising application holds of any.                          *)
OverlapInv == TypeInv /\ (overlapped \/ fault = "past_table" \/ SafetyInv)

(* Every undefined step goes back to calls that were overlapped, or is the  *)
(* access for the id QC_PERF_BACKEND_MAX, whatever the application does.    *)
THEOREM FaultNeedsOverlapHolds == SpecH => []FaultNeedsOverlap
<1>1. InitH => OverlapInv
  BY TypeInit, SafetyInit DEF InitH, OverlapInv
<1>2. OverlapInv /\ [NextH]_<<vars, overlapped>> => OverlapInv'
  <2> SUFFICES ASSUME OverlapInv, [NextH]_<<vars, overlapped>> PROVE OverlapInv'
    OBVIOUS
  <2>1. [Next]_vars
    BY DEF NextH
  <2>2. TypeInv'
    BY <2>1, TypeStep DEF OverlapInv
  <2>3. CASE overlapped'
    BY <2>2, <2>3 DEF OverlapInv
  <2>4. CASE fault' = "past_table"
    BY <2>2, <2>4 DEF OverlapInv
  <2>5. CASE ~overlapped' /\ fault' # "past_table"
    <3>1. CASE UNCHANGED <<vars, overlapped>>
      <4>1. SafetyInv
        BY <2>5, <3>1 DEF OverlapInv, vars
      <4> QED BY <2>2, <3>1, <4>1, Unmoved DEF OverlapInv, vars, table
    <3>2. CASE NextH
      <4>1. SafetyInv
        BY <2>5, <3>2 DEF OverlapInv, NextH, Next
      <4>2. ~ \E c, d \in Client : Conflict(c, d)'
        BY <2>5, <3>2 DEF NextH
      <4>3. Serial'
        BY <4>2 DEF Conflict, Serial
      <4>4. SafetyInv'
        BY <2>1, <2>5, <4>1, <4>3, SafetyStep DEF OverlapInv
      <4> QED BY <2>2, <4>4 DEF OverlapInv
    <3> QED BY <3>1, <3>2
  <2> QED BY <2>3, <2>4, <2>5
<1>3. OverlapInv => FaultNeedsOverlap
  BY DEF OverlapInv, SafetyInv, FaultNeedsOverlap
<1> QED BY <1>1, <1>2, <1>3, PTL DEF SpecH

-----------------------------------------------------------------------------
(* The theorems.  Both assumptions are needed: without them an undefined     *)
(* step is reached, as FaultNeedsOverlap allows.                             *)

(* An id that the application does not pass leads no call past the table.   *)
LEMMA InTable ==
  ASSUME BackendMax \notin Ids, fault = "none", [Next]_vars
  PROVE  fault' # "past_table"
<1>1. ASSUME NEW c \in Client, Step(c) PROVE fault' # "past_table"
  BY <1>1 DEF Step, QcperfInit, InitAlloc, QcperfConnect, ConnectCreate, ConnectPublish,
     ConnectMessage, ConnectInit, ConnectUndo, QcperfUse, UseCall, QcperfDisconnect,
     DisconnectDeinit, DisconnectReset, QcperfDeinit, DeinitLoop, DeinitFree,
     Refuse, Enter, Goto, Return, Undefined
<1> QED BY <1>1 DEF Next, vars

LEMMA Inductive ==
  ASSUME AppSerialises, BackendMax \notin Ids
  PROVE  Spec => [](TypeInv /\ SafetyInv)
<1>1. Init => TypeInv /\ SafetyInv
  BY TypeInit, SafetyInit
<1>2. (TypeInv /\ SafetyInv) /\ [Next]_vars => (TypeInv /\ SafetyInv)'
  BY TypeStep, SafetyStep, InTable DEF SafetyInv
<1> QED BY <1>1, <1>2, PTL DEF Spec

(* If the application never overlaps two calls on one backend, nor any call *)
(* with qcperf_init or qcperf_deinit, and never passes QC_PERF_BACKEND_MAX, *)
(* then no call goes through a NULL pointer, a freed table or memory past   *)
(* it, and no backend is initialised twice.                                 *)
THEOREM NoFaultHolds ==
  ASSUME AppSerialises, BackendMax \notin Ids
  PROVE  Spec => []NoFault
<1>1. TypeInv /\ SafetyInv => NoFault
  BY DEF SafetyInv, NoFault
<1> QED BY <1>1, Inductive, PTL

(* Under the same assumptions the connected flag keeps its promise.         *)
THEOREM ConnectedIsUsableHolds ==
  ASSUME AppSerialises, BackendMax \notin Ids
  PROVE  Spec => []ConnectedIsUsable
<1>1. TypeInv /\ SafetyInv => ConnectedIsUsable
  BY DEF SafetyInv, Table, EntryAt, Opening, ConnectedIsUsable
<1> QED BY <1>1, Inductive, PTL

(* Under the same assumptions a backend that went down holds nothing but    *)
(* what its own deinit failed to release, and no function pointer.          *)
THEOREM NothingLeftBehindHolds ==
  ASSUME AppSerialises, BackendMax \notin Ids
  PROVE  Spec => []NothingLeftBehind
<1>1. TypeInv /\ SafetyInv => NothingLeftBehind
  BY DEF SafetyInv, Table, EntryAt, Settled, Ready, Busy, NothingLeftBehind
<1> QED BY <1>1, Inductive, PTL

(* A step moves no thread but the one that takes it.                        *)
LEMMA OneMoves ==
  ASSUME TypeInv, NEW c \in Client, NEW d \in Client, d # c, Step(d)
  PROVE  pc'[c] = pc[c]
<1>1. \/ UNCHANGED pc
      \/ \E at : pc' = [pc EXCEPT ![d] = at]
  <2>1. CASE InitAlloc(d)
    BY <2>1 DEF InitAlloc, Return
  <2>2. CASE QcperfInit(d) \/ QcperfDeinit(d)
    BY <2>2 DEF QcperfInit, QcperfDeinit, Refuse, Enter
  <2>3. CASE \E id \in Ids, cb \in Callback \cup {NoCallback} : QcperfConnect(d, id, cb)
    BY <2>3 DEF QcperfConnect, Refuse, Enter
  <2>4. CASE ConnectCreate(d) \/ ConnectPublish(d) \/ ConnectMessage(d)
    BY <2>4 DEF ConnectCreate, ConnectPublish, ConnectMessage, Goto, Return, Undefined
  <2>5. CASE ConnectInit(d) \/ ConnectUndo(d) \/ UseCall(d)
    BY <2>5 DEF ConnectInit, ConnectUndo, UseCall, Goto, Return, Undefined
  <2>6. CASE \E id \in Ids : QcperfUse(d, id)
    BY <2>6 DEF QcperfUse, Refuse, Enter, Undefined
  <2>7. CASE \E id \in Ids : QcperfDisconnect(d, id)
    BY <2>7 DEF QcperfDisconnect, Refuse, Enter, Undefined
  <2>8. CASE DisconnectDeinit(d) \/ DisconnectReset(d)
    BY <2>8 DEF DisconnectDeinit, DisconnectReset, Goto, Return, Undefined
  <2>9. CASE DeinitLoop(d) \/ DeinitFree(d)
    BY <2>9 DEF DeinitLoop, DeinitFree, Goto, Return
  <2> QED BY <2>1, <2>2, <2>3, <2>4, <2>5, <2>6, <2>7, <2>8, <2>9 DEF Step
<1> QED BY <1>1 DEF TypeInv, TypeOK

(* Where a call can return from.                                            *)
LEMMA ReturnsFrom ==
  ASSUME TypeInv, NEW c \in Client, NEW op, Step(c), Returns(c, op)
  PROVE  \/ InitAlloc(c) \/ ConnectPublish(c) \/ ConnectInit(c) \/ ConnectUndo(c)
         \/ UseCall(c) \/ DisconnectReset(c) \/ DeinitFree(c)
<1> USE DEF TypeInv, TypeOK
<1>1. pc[c] # "idle" /\ pc'[c] = "idle"
  BY DEF Returns
<1>2. ASSUME NEW at \in Pc, Goto(c, at) PROVE at = "idle"
  BY <1>1, <1>2 DEF Goto
<1>3. CASE ConnectCreate(c)
  BY <1>1, <1>2, <1>3, Names DEF ConnectCreate, Undefined
<1>4. CASE ConnectMessage(c)
  BY <1>1, <1>2, <1>4, Names DEF ConnectMessage, Undefined
<1>5. CASE DisconnectDeinit(c)
  BY <1>1, <1>2, <1>5, Names DEF DisconnectDeinit, Undefined
<1>6. CASE DeinitLoop(c)
  BY <1>1, <1>2, <1>6, Names DEF DeinitLoop
<1> QED BY <1>1, <1>3, <1>4, <1>5, <1>6
        DEF Step, QcperfInit, QcperfConnect, QcperfUse, QcperfDisconnect, QcperfDeinit, Free

(* What a returning connect leaves, and a returning deinit.                 *)
LEMMA ConnectReturn ==
  ASSUME TypeInv, SafetyInv, NEW c \in Client, Step(c), Returns(c, "connect")
  PROVE  LET b == call[c].id IN
         /\ reply'[c] = "SUCCESS" => connected'[b] /\ held'[b] = "all"
         /\ reply'[c] # "SUCCESS" => ~connected'[b] /\ Released(held'[b])
<1> PICK b : b = call[c].id
  OBVIOUS
<1>1. /\ call[c].op = "connect" /\ pc[c] # "idle" /\ pc'[c] = "idle"
      /\ LocalAt(c) /\ Fits(pc[c], call[c])
  BY DEF Returns, SafetyInv, Local, TypeInv, Control
<1>2. ConnectInit(c) \/ DisconnectReset(c)
  <2>1. ~InitAlloc(c) /\ ~UseCall(c) /\ ~DeinitFree(c)
    BY <1>1 DEF InitAlloc, UseCall, DeinitFree, Fits
  <2>2. ASSUME ConnectPublish(c) PROVE FALSE
    <3>1. Verified(b) /\ pc[c] = "publish"
      BY <1>1, <2>2 DEF ConnectPublish, Verified, LocalAt
    <3> QED BY <1>1, <2>2, <3>1 DEF ConnectPublish, Goto, TypeInv, TypeOK
  <2>3. ASSUME ConnectUndo(c) PROVE FALSE
    <3>1. allocated /\ connected[b]
      BY <1>1, <2>3 DEF ConnectUndo, LocalAt
    <3> QED BY <1>1, <2>3, <3>1 DEF ConnectUndo, Goto, TypeInv, TypeOK
  <2> QED BY <2>1, <2>2, <2>3, ReturnsFrom
<1>3. CASE ConnectInit(c)
  <2>1. b \in Backend /\ connected[b]
    BY <1>1, <1>3 DEF ConnectInit, LocalAt, Fits, InConnect
  <2>2. CASE held' = [held EXCEPT ![b] = "all"] /\ UNCHANGED connected /\ Return(c, "SUCCESS")
    <3>1. held'[b] = "all" /\ connected'[b]
      BY <2>1, <2>2 DEF TypeInv, TypeOK, TableType
    <3>2. reply'[c] = "SUCCESS"
      BY <2>2 DEF Return, TypeInv, TypeOK
    <3> QED BY <3>1, <3>2
  <2>3. CASE Goto(c, "undo")
    BY <1>1, <2>3 DEF Goto, TypeInv, TypeOK
  <2>4. CASE \E f \in Fault : Undefined(f)
    BY <1>1, <2>4 DEF Undefined
  <2> QED BY <1>3, <2>2, <2>3, <2>4, Names DEF ConnectInit
<1>4. CASE DisconnectReset(c)
  <2>1. ~connected[b] /\ Released(held[b]) /\ UNCHANGED <<connected, held>>
    BY <1>1, <1>4 DEF DisconnectReset, LocalAt, Ready
  <2>2. Return(c, "FAILED")
    BY <1>1, <1>4 DEF DisconnectReset
  <2>3. reply'[c] = "FAILED"
    BY <2>2 DEF Return, TypeInv, TypeOK
  <2> QED BY <2>1, <2>3
<1> QED BY <1>2, <1>3, <1>4

LEMMA DeinitReturn ==
  ASSUME TypeInv, SafetyInv, NEW c \in Client, Step(c), Returns(c, "deinit")
  PROVE  ~allocated' /\ \A b \in Backend : ~connected'[b] /\ Released(held'[b])
<1>1. /\ call[c].op = "deinit" /\ pc[c] # "idle" /\ pc'[c] = "idle"
      /\ LocalAt(c) /\ Fits(pc[c], call[c])
  BY DEF Returns, SafetyInv, Local, TypeInv, Control
<1>2. DeinitFree(c)
  <2>1. /\ ~InitAlloc(c) /\ ~UseCall(c) /\ ~ConnectPublish(c) /\ ~ConnectInit(c)
        /\ ~ConnectUndo(c)
    BY <1>1 DEF InitAlloc, UseCall, ConnectPublish, ConnectInit, ConnectUndo, Fits, InConnect
  <2>2. ASSUME DisconnectReset(c) PROVE FALSE
    BY <1>1, <2>2 DEF DisconnectReset, TypeInv, TypeOK
  <2> QED BY <2>1, <2>2, ReturnsFrom
<1>3. ~allocated' /\ UNCHANGED <<connected, held>> /\ call[c].id = BackendMax
  BY <1>2 DEF DeinitFree
<1>4. \A d \in Client \ {c} : pc[d] = "idle"
  BY <1>1, OwnerAlone DEF Exclusive
<1>5. \A b \in Backend : ~connected[b] /\ Settled(b)
  BY <1>1, <1>2, <1>3, <1>4, CoreAssumption DEF LocalAt, Settled, Backend, DeinitFree
<1> QED BY <1>3, <1>5 DEF SafetyInv, Table, EntryAt, Ready

(* Under the same assumptions qcperf_connect_backend returns SUCCESS with a *)
(* usable backend and a failure with one told to release what it held.      *)
THEOREM ConnectReportsStateHolds ==
  ASSUME AppSerialises, BackendMax \notin Ids
  PROVE  Spec => ConnectReportsState
<1>1. ASSUME TypeInv /\ SafetyInv, Next, NEW c \in Client, Returns(c, "connect")
      PROVE  LET b == call[c].id IN
             /\ reply'[c] = "SUCCESS" => connected'[b] /\ held'[b] = "all"
             /\ reply'[c] # "SUCCESS" => ~connected'[b] /\ Released(held'[b])
  <2>1. PICK d \in Client : Step(d)
    BY <1>1 DEF Next
  <2>2. d = c
    BY <1>1, <2>1, OneMoves DEF Returns
  <2> QED BY <1>1, <2>1, <2>2, ConnectReturn
<1>2. TypeInv /\ SafetyInv /\ [Next]_vars =>
        [\A c \in Client : Returns(c, "connect") =>
           LET b == call[c].id IN
           /\ reply'[c] = "SUCCESS" => connected'[b] /\ held'[b] = "all"
           /\ reply'[c] # "SUCCESS" => ~connected'[b] /\ Released(held'[b])]_vars
  BY <1>1
<1> QED BY <1>2, Inductive, PTL DEF Spec, ConnectReportsState

(* Under the same assumptions qcperf_deinit leaves no backend connected and *)
(* none untold to release what it held, whatever was left connected.        *)
THEOREM DeinitReleasesAllHolds ==
  ASSUME AppSerialises, BackendMax \notin Ids
  PROVE  Spec => DeinitReleasesAll
<1>1. ASSUME TypeInv /\ SafetyInv, Next, NEW c \in Client, Returns(c, "deinit")
      PROVE  ~allocated' /\ \A b \in Backend : ~connected'[b] /\ Released(held'[b])
  <2>1. PICK d \in Client : Step(d)
    BY <1>1 DEF Next
  <2>2. d = c
    BY <1>1, <2>1, OneMoves DEF Returns
  <2> QED BY <1>1, <2>1, <2>2, DeinitReturn
<1>2. TypeInv /\ SafetyInv /\ [Next]_vars =>
        [\A c \in Client : Returns(c, "deinit") =>
           ~allocated' /\ \A b \in Backend : ~connected'[b] /\ Released(held'[b])]_vars
  BY <1>1
<1> QED BY <1>2, Inductive, PTL DEF Spec, DeinitReleasesAll
=============================================================================
