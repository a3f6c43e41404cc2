----------------------------- MODULE QcperfCore -----------------------------
(***************************************************************************)
(* core/src/qcperf.c: the public API of libqcperf, as executed by the      *)
(* threads of an application.  The core keeps a table of backend function  *)
(* pointers (g_qcperf_backend_info) and one "connected" flag per backend   *)
(* (g_backends_connected), and takes no lock, so a call is a sequence of   *)
(* steps: the entry checks, then each call into the backend.               *)
(*                                                                         *)
(* qcperf_version and qcperf_get_error_info touch no shared state and are  *)
(* left out.  An entry check is one step with the store that follows it:   *)
(* for overlapping calls the model allows fewer interleavings than the C.  *)
(* A definition whose name has an underscore (ClearFlag_Forgotten) is a    *)
(* wrong variant of the one after it, kept to show that the properties     *)
(* tell them apart; no action uses it.                                     *)
(***************************************************************************)
EXTENDS Integers

CONSTANTS
  Client,         (* the application's threads                              *)
  BackendMax,     (* QC_PERF_BACKEND_MAX                                    *)
  Compiled,       (* the ids whose backend_init_fns entry is not NULL       *)
  Guarded,        (* the ids whose init refuses while the backend is        *)
                  (* initialised and whose deinit may fail and leave it so: *)
                  (* QC_PERF_BACKEND_THERMAL (wos_thermal.c)                *)
  Ids,            (* the backend ids an application may pass                *)
  Callback,       (* the message callbacks an application may pass          *)
  NoCallback,     (* the NULL callback                                      *)
  AppSerialises   (* TRUE: the application overlaps two calls only when     *)
                  (* they are on different backends, and neither is         *)
                  (* qcperf_init or qcperf_deinit                           *)

Backend == 0 .. (BackendMax - 1)

ASSUME CoreAssumption ==
  /\ BackendMax \in Nat \ {0}
  /\ Compiled \subseteq Backend
  /\ Guarded \subseteq Backend
  /\ Ids \subseteq Int
  /\ NoCallback \notin Callback
  /\ AppSerialises \in BOOLEAN

VARIABLES
  allocated,  (* g_qcperf_backend_info # NULL                               *)
  bound,      (* bound[b]: the seven function pointers of b are set         *)
  connected,  (* g_backends_connected                                       *)
  held,       (* held[b]: what backend b holds of what its init set up      *)
  messageCb,  (* messageCb[b]: g_message_callback inside backend b          *)
  pc,         (* where each thread is                                       *)
  call,       (* the call each thread is in                                 *)
  reply,      (* the return code of each thread's last call                 *)
  fault       (* what undefined step was taken, if any                      *)

vars == <<allocated, bound, connected, held, messageCb, pc, call, reply, fault>>
table == <<allocated, bound, connected, held, messageCb>>

Op == {"none", "init", "connect", "use", "disconnect", "deinit"}
NoCall == [op |-> "none", id |-> 0, cb |-> NoCallback]
Pc == {"idle", "init_alloc", "create", "publish", "message", "backend_init",
       "undo", "use", "backend_deinit", "reset", "deinit_loop"}
Code == {"SUCCESS", "FAILED", "ALREADY_INITIALIZED", "CALLOC_FAILED",
         "NOT_INITIALIZED", "INVALID_BACKEND_ID", "INVALID_ARGUMENTS",
         "BACKEND_ALREADY_CONNECTED", "BACKEND_NOT_CONNECTED", "NULL_POINTER"}
Fault == {"none", "null_table", "null_function", "past_table", "second_list"}

(* "all" after an init that succeeded, "part" after one that failed with    *)
(* its tables allocated, "kept" when a deinit failed and released nothing.  *)
Held == {"nothing", "part", "all", "kept"}

CallType == [op : Op, id : 0 .. BackendMax, cb : Callback \cup {NoCallback}]
TableType ==
  /\ allocated \in BOOLEAN
  /\ bound \in [Backend -> BOOLEAN]
  /\ connected \in [Backend -> BOOLEAN]
  /\ held \in [Backend -> Held]
  /\ messageCb \in [Backend -> Callback \cup {NoCallback}]

(* An id a call works on is never outside the table, nor does the loop of   *)
(* qcperf_deinit run past its end.                                          *)
TypeOK ==
  /\ TableType
  /\ pc \in [Client -> Pc]
  /\ call \in [Client -> CallType]
  /\ reply \in [Client -> Code \cup {"none"}]
  /\ fault \in Fault

Init ==
  /\ allocated = FALSE
  /\ bound = [b \in Backend |-> FALSE]
  /\ connected = [b \in Backend |-> FALSE]
  /\ held = [b \in Backend |-> "nothing"]
  /\ messageCb = [b \in Backend |-> NoCallback]
  /\ pc = [c \in Client |-> "idle"]
  /\ call = [c \in Client |-> NoCall]
  /\ reply = [c \in Client |-> "none"]
  /\ fault = "none"

-----------------------------------------------------------------------------
(* Control of a call: entering it, moving on inside it, returning from it.  *)

Exclusive == {"init", "deinit"}

Free(c, op, id) ==
  /\ pc[c] = "idle"
  /\ AppSerialises => \A d \in Client : pc[d] # "idle" =>
       op \notin Exclusive /\ call[d].op \notin Exclusive /\ call[d].id # id

Enter(c, op, id, cb, at) ==
  /\ pc' = [pc EXCEPT ![c] = at]
  /\ call' = [call EXCEPT ![c] = [op |-> op, id |-> id, cb |-> cb]]
  /\ UNCHANGED <<reply, fault>>

Refuse(c, code) ==
  /\ reply' = [reply EXCEPT ![c] = code]
  /\ UNCHANGED <<table, pc, call, fault>>

Goto(c, at) ==
  /\ pc' = [pc EXCEPT ![c] = at]
  /\ UNCHANGED <<call, reply, fault>>

Return(c, code) ==
  /\ pc' = [pc EXCEPT ![c] = "idle"]
  /\ call' = [call EXCEPT ![c] = NoCall]
  /\ reply' = [reply EXCEPT ![c] = code]
  /\ UNCHANGED fault

(* A dereference of NULL or of memory past the table: nothing after it is   *)
(* defined, so no step follows it.                                          *)
Undefined(f) ==
  /\ fault' = f
  /\ UNCHANGED <<table, pc, call, reply>>

-----------------------------------------------------------------------------
(* qcperf_init: the NULL check, then the allocation.                        *)

QcperfInit(c) ==
  /\ Free(c, "init", 0)
  /\ IF allocated
     THEN Refuse(c, "ALREADY_INITIALIZED")
     ELSE Enter(c, "init", 0, NoCallback, "init_alloc") /\ UNCHANGED table

InitAlloc(c) ==
  /\ pc[c] = "init_alloc"
  /\ \/ /\ allocated' = TRUE
        /\ bound' = [b \in Backend |-> FALSE]
        /\ UNCHANGED <<connected, held, messageCb>>
        /\ Return(c, "SUCCESS")
     \/ /\ allocated' = FALSE
        /\ UNCHANGED <<bound, connected, held, messageCb>>
        /\ Return(c, "CALLOC_FAILED")

-----------------------------------------------------------------------------
(* qcperf_connect_backend.                                                  *)

ConnectCheck(id) ==
  IF ~allocated THEN "NOT_INITIALIZED"
  ELSE IF id < 0 \/ BackendMax <= id THEN "INVALID_BACKEND_ID"
  ELSE IF connected[id] THEN "BACKEND_ALREADY_CONNECTED"
  ELSE IF id \notin Compiled THEN "INVALID_BACKEND_ID"
  ELSE "SUCCESS"

QcperfConnect(c, id, cb) ==
  /\ Free(c, "connect", id)
  /\ IF ConnectCheck(id) # "SUCCESS"
     THEN Refuse(c, ConnectCheck(id))
     ELSE Enter(c, "connect", id, cb, "create") /\ UNCHANGED table

(* backend_init_fns[id](&g_qcperf_backend_info[id]): every creation         *)
(* function fills in all seven pointers.                                    *)
ConnectCreate(c) ==
  /\ pc[c] = "create"
  /\ IF ~allocated
     THEN Undefined("null_table")
     ELSE /\ bound' = [bound EXCEPT ![call[c].id] = TRUE]
          /\ UNCHANGED <<allocated, connected, held, messageCb>>
          /\ Goto(c, "publish")

(* qcperf_verify_backend_private, and the connected flag.                   *)
Verified(b) == allocated /\ bound[b]

ConnectPublish(c) ==
  LET b == call[c].id IN
  /\ pc[c] = "publish"
  /\ IF ~Verified(b)
     THEN Return(c, "NULL_POINTER") /\ UNCHANGED table
     ELSE /\ connected' = [connected EXCEPT ![b] = TRUE]
          /\ UNCHANGED <<allocated, bound, held, messageCb>>
          /\ Goto(c, IF call[c].cb = NoCallback THEN "backend_init" ELSE "message")

(* qcperf_set_message_callback, when the caller gave one; its own checks are *)
(* made again and its return code is overwritten by the init's.             *)
ConnectMessage(c) ==
  LET b == call[c].id IN
  /\ pc[c] = "message"
  /\ IF ~allocated \/ ~connected[b]
     THEN UNCHANGED table /\ Goto(c, "backend_init")
     ELSE \/ ~bound[b] /\ Undefined("null_function")
          \/ /\ bound[b]
             /\ messageCb' = [messageCb EXCEPT ![b] = call[c].cb]
             /\ UNCHANGED <<allocated, bound, connected, held>>
             /\ Goto(c, "backend_init")

(* What an init that runs leaves: success, or a failure that holds nothing  *)
(* or, as in wos-power, the tables it had allocated.                        *)
Begun == {"nothing", "part"}

(* qcperf_backend_init().  A second init before the deinit of the first     *)
(* loses the first list, except where the init refuses to run twice: then   *)
(* the connect fails, and is undone, like any other.  FAILED stands for     *)
(* every code a backend fails with.                                         *)
ConnectInit(c) ==
  LET b == call[c].id IN
  /\ pc[c] = "backend_init"
  /\ \/ ~allocated /\ Undefined("null_table")
     \/ allocated /\ ~bound[b] /\ Undefined("null_function")
     \/ /\ allocated /\ bound[b] /\ held[b] # "nothing" /\ b \notin Guarded
        /\ Undefined("second_list")
     \/ /\ allocated /\ bound[b] /\ held[b] # "nothing" /\ b \in Guarded
        /\ UNCHANGED table /\ Goto(c, "undo")
     \/ /\ allocated /\ bound[b] /\ held[b] = "nothing"
        /\ UNCHANGED <<allocated, bound, connected, messageCb>>
        /\ \/ held' = [held EXCEPT ![b] = "all"] /\ Return(c, "SUCCESS")
           \/ /\ \E h \in Begun : /\ b \in Guarded => h = "nothing"
                                 /\ held' = [held EXCEPT ![b] = h]
              /\ Goto(c, "undo")

-----------------------------------------------------------------------------
(* The entry checks of the calls on a connected backend.  The range check   *)
(* is "QC_PERF_BACKEND_MAX < backend_id": the id QC_PERF_BACKEND_MAX itself *)
(* passes it and reads the flag one element past g_backends_connected,      *)
(* whose value is not defined.                                              *)

InRange(id) == ~(id < 0 \/ BackendMax < id)
IsConnected(id, past) == IF id \in Backend THEN connected[id] ELSE past

DispatchCheck(id, nullArgument, past) ==
  IF ~allocated THEN "NOT_INITIALIZED"
  ELSE IF ~InRange(id) \/ nullArgument THEN "INVALID_ARGUMENTS"
  ELSE IF ~IsConnected(id, past) THEN "BACKEND_NOT_CONNECTED"
  ELSE "SUCCESS"

(* qcperf_get_capabilities_info, qcperf_set_data_callback, qcperf_start and *)
(* qcperf_stop: the checks, then a call through the table.                  *)
QcperfUse(c, id) ==
  /\ Free(c, "use", id)
  /\ \E nullArgument, past \in BOOLEAN :
       LET code == DispatchCheck(id, nullArgument, past) IN
       \/ code # "SUCCESS" /\ Refuse(c, code)
       \/ code = "SUCCESS" /\ id = BackendMax /\ Undefined("past_table")
       \/ /\ code = "SUCCESS" /\ id \in Backend
          /\ Enter(c, "use", id, NoCallback, "use")
          /\ UNCHANGED table

UseCall(c) ==
  LET b == call[c].id IN
  /\ pc[c] = "use"
  /\ \/ ~allocated /\ Undefined("null_table")
     \/ allocated /\ ~bound[b] /\ Undefined("null_function")
     \/ /\ allocated /\ bound[b]
        /\ \E code \in {"SUCCESS", "FAILED"} : Return(c, code)
        /\ UNCHANGED table

-----------------------------------------------------------------------------
(* qcperf_disconnect_backend, called by the application, by a connect whose *)
(* backend init failed, and by qcperf_deinit.                               *)

ClearFlag_Forgotten(b) == UNCHANGED table

ClearFlag(b) ==
  /\ connected' = [connected EXCEPT ![b] = FALSE]
  /\ UNCHANGED <<allocated, bound, held, messageCb>>

QcperfDisconnect(c, id) ==
  /\ Free(c, "disconnect", id)
  /\ \E past \in BOOLEAN :
       LET code == DispatchCheck(id, FALSE, past) IN
       \/ code # "SUCCESS" /\ Refuse(c, code)
       \/ code = "SUCCESS" /\ id = BackendMax /\ Undefined("past_table")
       \/ /\ code = "SUCCESS" /\ id \in Backend
          /\ Enter(c, "disconnect", id, NoCallback, "backend_deinit")
          /\ ClearFlag(id)

ConnectUndo_Forgotten(c) ==
  pc[c] = "undo" /\ UNCHANGED table /\ Return(c, "FAILED")

(* The result of this disconnect is dropped; connect keeps the init's code. *)
ConnectUndo(c) ==
  LET b == call[c].id IN
  /\ pc[c] = "undo"
  /\ IF allocated /\ connected[b]
     THEN ClearFlag(b) /\ Goto(c, "backend_deinit")
     ELSE UNCHANGED table /\ Return(c, "FAILED")

(* What a deinit leaves of what the backend holds.                           *)
Leaves(b) ==
  IF b \in Guarded /\ held[b] # "nothing" THEN {"nothing", "kept"} ELSE {"nothing"}

(* qcperf_backend_deinit() when its pointer is set; its result is dropped.   *)
DisconnectDeinit(c) ==
  LET b == call[c].id IN
  /\ pc[c] = "backend_deinit"
  /\ IF ~allocated
     THEN Undefined("null_table")
     ELSE /\ IF bound[b]
             THEN \E h \in Leaves(b) : held' = [held EXCEPT ![b] = h]
             ELSE UNCHANGED held
          /\ UNCHANGED <<allocated, bound, connected, messageCb>>
          /\ Goto(c, "reset")

DisconnectReset_KeepsPointers(c) ==
  /\ pc[c] = "reset"
  /\ UNCHANGED table
  /\ \/ call[c].op = "disconnect" /\ Return(c, "SUCCESS")
     \/ call[c].op = "connect" /\ Return(c, "FAILED")
     \/ /\ call[c].op = "deinit"
        /\ pc' = [pc EXCEPT ![c] = "deinit_loop"]
        /\ call' = [call EXCEPT ![c].id = @ + 1]
        /\ UNCHANGED <<reply, fault>>

DisconnectReset_TakesItsCode(c) ==
  /\ pc[c] = "reset"
  /\ bound' = [bound EXCEPT ![call[c].id] = FALSE]
  /\ UNCHANGED <<allocated, connected, held, messageCb>>
  /\ call[c].op \in {"disconnect", "connect"} /\ Return(c, "SUCCESS")

(* qcperf_reset_backend_private, and the return to whoever disconnected.    *)
DisconnectReset(c) ==
  LET b == call[c].id IN
  /\ pc[c] = "reset"
  /\ bound' = IF allocated THEN [bound EXCEPT ![b] = FALSE] ELSE bound
  /\ UNCHANGED <<allocated, connected, held, messageCb>>
  /\ \/ /\ call[c].op = "disconnect"
        /\ Return(c, IF allocated THEN "SUCCESS" ELSE "NULL_POINTER")
     \/ call[c].op = "connect" /\ Return(c, "FAILED")
     \/ /\ call[c].op = "deinit"
        /\ pc' = [pc EXCEPT ![c] = "deinit_loop"]
        /\ call' = [call EXCEPT ![c].id = b + 1]
        /\ UNCHANGED <<reply, fault>>

-----------------------------------------------------------------------------
(* qcperf_deinit: disconnect every connected backend in id order, then free *)
(* the table.                                                               *)

QcperfDeinit_FromOne(c) ==
  /\ Free(c, "deinit", 0)
  /\ allocated /\ Enter(c, "deinit", 1, NoCallback, "deinit_loop")
  /\ UNCHANGED table

QcperfDeinit(c) ==
  /\ Free(c, "deinit", 0)
  /\ IF ~allocated
     THEN Refuse(c, "NOT_INITIALIZED")
     ELSE Enter(c, "deinit", 0, NoCallback, "deinit_loop") /\ UNCHANGED table

DeinitLoop_SkipsNext(c) ==
  LET b == call[c].id IN
  /\ pc[c] = "deinit_loop"
  /\ b < BackendMax
  /\ IF allocated /\ connected[b]
     THEN ClearFlag(b) /\ Goto(c, "backend_deinit")
     ELSE /\ call' = [call EXCEPT ![c].id = b + 2]
          /\ UNCHANGED <<table, pc, reply, fault>>

DeinitLoop(c) ==
  LET b == call[c].id IN
  /\ pc[c] = "deinit_loop"
  /\ b < BackendMax
  /\ IF allocated /\ connected[b]
     THEN ClearFlag(b) /\ Goto(c, "backend_deinit")
     ELSE /\ call' = [call EXCEPT ![c].id = b + 1]
          /\ UNCHANGED <<table, pc, reply, fault>>

DeinitFree(c) ==
  /\ pc[c] = "deinit_loop"
  /\ call[c].id = BackendMax
  /\ allocated' = FALSE
  /\ UNCHANGED <<bound, connected, held, messageCb>>
  /\ Return(c, "SUCCESS")

-----------------------------------------------------------------------------
Step(c) ==
  \/ QcperfInit(c) \/ InitAlloc(c)
  \/ \E id \in Ids, cb \in Callback \cup {NoCallback} : QcperfConnect(c, id, cb)
  \/ ConnectCreate(c) \/ ConnectPublish(c) \/ ConnectMessage(c) \/ ConnectInit(c) \/ ConnectUndo(c)
  \/ \E id \in Ids : QcperfUse(c, id) \/ QcperfDisconnect(c, id)
  \/ UseCall(c)
  \/ DisconnectDeinit(c) \/ DisconnectReset(c)
  \/ QcperfDeinit(c) \/ DeinitLoop(c) \/ DeinitFree(c)

Next == fault = "none" /\ \E c \in Client : Step(c)

Spec == Init /\ [][Next]_vars
-----------------------------------------------------------------------------
(* Properties.                                                              *)

Busy(b) == \E c \in Client : pc[c] # "idle" /\ call[c].id = b

(* No call ever goes through a NULL function pointer or a freed table, and  *)
(* no backend is initialised twice without a deinit between: the entry      *)
(* checks of qcperf.c still hold when the call they guard is made.          *)
NoFault == fault = "none"

(* A connected flag is a promise to every later call: the table exists, the *)
(* backend's pointers are set, and its init has succeeded, except while the *)
(* connect that set the flag is still initialising or undoing it.           *)
ConnectedIsUsable ==
  \A b \in Backend : connected[b] =>
    /\ allocated /\ bound[b]
    /\ \/ held[b] = "all"
       \/ \E c \in Client : /\ pc[c] \in {"message", "backend_init", "undo"}
                              /\ call[c].id = b

(* Nothing is left but what the backend's own deinit could not release.      *)
Released(h) == h \in {"nothing", "kept"}

(* A backend that is not connected and has no call in progress has no stale *)
(* function pointer, and whichever of disconnect, deinit or a failed        *)
(* connect took it down, its own deinit was called on all that it held: it  *)
(* holds nothing, or what that deinit failed to release.                    *)
NothingLeftBehind ==
  \A b \in Backend : ~connected[b] /\ ~Busy(b) => Released(held[b]) /\ ~bound[b]

Returns(c, op) == pc[c] # "idle" /\ pc'[c] = "idle" /\ call[c].op = op

(* qcperf_connect_backend tells the truth: SUCCESS only when the backend is *)
(* connected and initialised at the return; on a failing init, the refusal  *)
(* of a backend that could not be deinitialised included, the backend is    *)
(* disconnected again and has been told to release what it held.            *)
ConnectReportsState ==
  [][\A c \in Client : Returns(c, "connect") =>
       LET b == call[c].id IN
       /\ reply'[c] = "SUCCESS" => connected'[b] /\ held'[b] = "all"
       /\ reply'[c] # "SUCCESS" => ~connected'[b] /\ Released(held'[b])]_vars

(* qcperf_deinit returns with every backend disconnected and told to        *)
(* release what it held, those the application left connected included.     *)
DeinitReleasesAll ==
  [][\A c \in Client : Returns(c, "deinit") =>
       ~allocated' /\ \A b \in Backend : ~connected'[b] /\ Released(held'[b])]_vars
=============================================================================
