------------------------------- MODULE QList -------------------------------
(***************************************************************************)
(* utils/qlist over utils/qmutex: a doubly linked list of heap nodes that  *)
(* several threads change, every function under the list's lock.  Three    *)
(* functions are made of others: get_data walks to a node, gives the lock  *)
(* up and reads it; insert_data and erase_node look at the index, and hand *)
(* over to a push, a pop or get_node, giving the lock up on the way.       *)
(*                                                                         *)
(* A caller takes one step to lock, one for what it does under the lock    *)
(* and one to unlock.  A definition whose name has an underscore is a      *)
(* wrong variant of the one that follows it; no action uses it.            *)
(***************************************************************************)
EXTENDS Integers, FiniteSets, Functions, TLC

CONSTANTS
  Caller,        (* threads                                                 *)
  Datum,         (* what the list holds: non-NULL pointers of its users     *)
  Node,          (* addresses calloc can return for a struct Node           *)
  Index,         (* the indices and the operations the callers use          *)
  Operations,
  NULL,
  Recursive,     (* TRUE for a Windows mutex, FALSE for pthread's default   *)
  Disciplined    (* callers keep to the calls that may run together         *)

ASSUME QListAssumption ==
  /\ NULL \notin Node \cup Caller
  /\ IsFiniteSet(Node)
  /\ "pending" \notin Datum
  /\ Index \subseteq Nat
  /\ {Recursive, Disciplined} \subseteq BOOLEAN

VARIABLES
  made,          (* list_create has succeeded and list_delete has not       *)
  head, tail, size,
  heap,          (* the allocated nodes: next, prev, data                   *)
  owner, depth,  (* of the mutex                                            *)
  pc,
  call,          (* what the caller asked for                               *)
  fn,            (* the function it is in                                   *)
  then,          (* what follows when that function has returned            *)
  found,         (* pNodei, pNode                                           *)
  result

body == <<made, head, tail, size, heap>>
lock == <<owner, depth>>
flow == <<pc, call, fn, then, found>>
vars == <<body, lock, flow, result>>

Adds == {"push_front", "push_back", "insert"}
Frees == {"pop_front", "pop_back", "erase", "clear", "delete"}
Reads == {"seek_front", "seek_back", "get"}
Call == [op : Adds, index : Index, datum : Datum]
          \cup [op : Frees \cup Reads, index : Index, datum : {"none"}]
Nothing == [op |-> "none", index |-> 0, datum |-> "none"]
Indexed == {"insert", "erase", "get"}

Init ==
  /\ made = FALSE
  /\ head = NULL /\ tail = NULL /\ size = 0
  /\ heap = <<>>
  /\ owner = NULL /\ depth = 0
  /\ pc = [c \in Caller |-> "idle"]
  /\ call = [c \in Caller |-> Nothing]
  /\ fn = [c \in Caller |-> "none"]
  /\ then = [c \in Caller |-> "return"]
  /\ found = [c \in Caller |-> NULL]
  /\ result = [c \in Caller |-> "none"]

(* list_create: a failure frees whatever it had allocated.                  *)
Create(c) ==
  /\ ~made /\ pc[c] = "idle"
  /\ made' = TRUE
  /\ UNCHANGED <<head, tail, size, heap, lock, flow, result>>

----------------------------------------------------------------------------
(* What may run together.  get_data reads its node after the unlock, so     *)
(* nothing may free one; insert and erase act on an index they looked at    *)
(* before giving the lock up, so nothing may change the list; and nothing   *)
(* may run during a delete.  get_node takes any index for a valid one.      *)
Clash(p, q) ==
  \/ p = "get" /\ q \in Frees
  \/ p \in {"insert", "erase"} /\ q \notin Reads
  \/ p = "delete"
Fits(c, q) ==
  /\ \A d \in Caller \ {c} : 
       pc[d] # "idle" => ~Clash(q.op, call[d].op) /\ ~Clash(call[d].op, q.op)
  /\ q.op = "get" => q.index = 0 \/ q.index < size

Begin(c) ==
  /\ made /\ pc[c] = "idle"
  /\ \E q \in Call :
       /\ q.op \in Operations
       /\ q.op \notin Indexed => q.index = 0
       /\ Disciplined => Fits(c, q)
       /\ call' = [call EXCEPT ![c] = q]
       /\ fn' = [fn EXCEPT ![c] = IF q.op = "get" THEN "get_node" ELSE q.op]
       /\ then' = [then EXCEPT ![c] = CASE q.op = "get" -> "read"
                                        [] q.op = "delete" -> "destroy"
                                        [] OTHER -> "return"]
  /\ pc' = [pc EXCEPT ![c] = "lock"]
  /\ found' = [found EXCEPT ![c] = NULL]
  /\ result' = [result EXCEPT ![c] = "pending"]
  /\ UNCHANGED <<body, lock>>

----------------------------------------------------------------------------
(* The mutex.  Unlocking one that the caller does not hold fails on Windows *)
(* and is undefined for pthread's default, which opens it all the same.     *)
MutexLock(c) ==
  /\ owner = NULL \/ (Recursive /\ owner = c)
  /\ owner' = c /\ depth' = depth + 1

(* Variant: one unlock gives up every hold.                                 *)
MutexUnlock_GivesUpAll(c) ==
  IF owner = c \/ ~Recursive
  THEN owner' = NULL /\ depth' = 0
  ELSE UNCHANGED lock

MutexUnlock(c) ==
  IF owner = c /\ depth > 1
  THEN depth' = depth - 1 /\ UNCHANGED owner
  ELSE IF owner = c \/ ~Recursive
       THEN owner' = NULL /\ depth' = 0
       ELSE UNCHANGED lock

Lock(c) ==
  /\ pc[c] = "lock"
  /\ MutexLock(c)
  /\ pc' = [pc EXCEPT ![c] = "body"]
  /\ UNCHANGED <<body, call, fn, then, found, result>>

(* The unlock before one function hands over to another ...                 *)
Yield(c) ==
  /\ pc[c] = "yield"
  /\ MutexUnlock(c)
  /\ pc' = [pc EXCEPT ![c] = "lock"]
  /\ UNCHANGED <<body, call, fn, then, found, result>>

(* ... and the lock when erase_node is handed back its own.                 *)
Relock(c) ==
  /\ pc[c] = "relock"
  /\ MutexLock(c)
  /\ IF then[c] = "use" /\ result[c] = "pending"
     THEN pc' = [pc EXCEPT ![c] = "use"] /\ UNCHANGED then
     ELSE pc' = [pc EXCEPT ![c] = "unlock"] /\ then' = [then EXCEPT ![c] = "return"]
  /\ UNCHANGED <<body, call, fn, found, result>>

(* The unlock that ends a function, and where its caller goes on.           *)
Following(c) ==
  CASE then[c] = "read" -> IF result[c] = "pending" THEN "read" ELSE "return"
    [] then[c] = "destroy" -> IF result[c] \in {"ok", "empty"} THEN "destroy" ELSE "return"
    [] then[c] = "use" -> IF call[c].op = "insert" THEN "use" ELSE "relock"
    [] OTHER -> then[c]

Unlock(c) ==
  /\ pc[c] = "unlock"
  /\ MutexUnlock(c)
  /\ pc' = [pc EXCEPT ![c] = Following(c)]
  /\ then' = IF then[c] = "unlock" THEN [then EXCEPT ![c] = "return"] ELSE then
  /\ UNCHANGED <<body, call, fn, found, result>>

----------------------------------------------------------------------------
(* Under the lock.                                                          *)
Valid == (head # NULL /\ tail # NULL /\ size > 0)
           \/ (head = NULL /\ tail = NULL /\ size = 0)

Ends(c, r) ==
  /\ result' = [result EXCEPT ![c] = r]
  /\ pc' = [pc EXCEPT ![c] = "unlock"]
  /\ UNCHANGED <<made, owner, depth, call, fn, then, found>>
EndsUnchanged(c, r) == Ends(c, r) /\ UNCHANGED <<head, tail, size, heap>>

Fresh(d) == [next |-> NULL, prev |-> NULL, data |-> d]

(* The allocated nodes and a new one, which calloc put at address n.        *)
Allocated(nodes, n, new) ==
  [m \in DOMAIN nodes \cup {n} |-> IF m = n THEN new ELSE nodes[m]]

PushFront(c, n) ==
  LET new == [Fresh(call[c].datum) EXCEPT !.next = head] IN
  /\ IF head # NULL /\ tail # NULL
     THEN heap' = Allocated([heap EXCEPT ![head].prev = n], n, new) /\ UNCHANGED tail
     ELSE heap' = Allocated(heap, n, new) /\ tail' = n
  /\ head' = n /\ size' = size + 1
  /\ Ends(c, "ok")

PushBack(c, n) ==
  LET new == [Fresh(call[c].datum) EXCEPT !.prev = tail] IN
  /\ IF head # NULL /\ tail # NULL
     THEN heap' = Allocated([heap EXCEPT ![tail].next = n], n, new) /\ UNCHANGED head
     ELSE heap' = Allocated(heap, n, new) /\ head' = n
  /\ tail' = n /\ size' = size + 1
  /\ Ends(c, "ok")

(* Variant: the new head keeps its pointer to the node that was freed.      *)
PopFront_KeepsPrev(c) ==
  LET rest == Restrict(heap, DOMAIN heap \ {head})
      second == heap[head].next
  IN
  /\ heap' = rest
  /\ IF second # NULL THEN head' = second /\ UNCHANGED tail
                      ELSE head' = NULL /\ tail' = NULL
  /\ size' = size - 1
  /\ Ends(c, heap[head].data)

PopFront(c) ==
  LET rest == Restrict(heap, DOMAIN heap \ {head})
      second == heap[head].next
  IN
  /\ IF second # NULL
     THEN /\ heap' = [rest EXCEPT ![second].prev = NULL]
          /\ head' = second /\ UNCHANGED tail
     ELSE heap' = rest /\ head' = NULL /\ tail' = NULL
  /\ size' = size - 1
  /\ Ends(c, heap[head].data)

PopBack(c) ==
  LET rest == Restrict(heap, DOMAIN heap \ {tail})
      last == heap[tail].prev
  IN
  /\ IF last # NULL
     THEN /\ heap' = [rest EXCEPT ![last].next = NULL]
          /\ tail' = last /\ UNCHANGED head
     ELSE heap' = rest /\ head' = NULL /\ tail' = NULL
  /\ size' = size - 1
  /\ Ends(c, heap[tail].data)

Reached(n, field) == IF n \in DOMAIN heap THEN heap[n][field] ELSE NULL
Forward[k \in Nat] == IF k = 0 THEN head ELSE Reached(Forward[k-1], "next")
Backward[k \in Nat] == IF k = 0 THEN tail ELSE Reached(Backward[k-1], "prev")

(* list_clear_all: frees what it reaches from the head, counting size down. *)
Clear(c) ==
  LET reached == {Forward[k] : k \in 0..Cardinality(DOMAIN heap)} \ {NULL} IN
  /\ heap' = Restrict(heap, DOMAIN heap \ reached)
  /\ size' = size - Cardinality(reached)
  /\ head' = NULL /\ tail' = NULL
  /\ Ends(c, "ok")

(* Variant: the distance from the tail is one too many.                     *)
NodeAt_OffByOne(i) ==
  IF i < size /\ size - i - 1 < i THEN Backward[size - i] ELSE Forward[i]

(* list_get_node from the nearer end.  The distance from the tail is        *)
(* unsigned: past the end of the list it is huge, and the walk starts at    *)
(* the head.                                                                *)
NodeAt(i) ==
  IF i < size /\ size - i - 1 < i THEN Backward[size - i - 1] ELSE Forward[i]

GetNode(c) ==
  /\ found' = [found EXCEPT ![c] = NodeAt(call[c].index)]
  /\ pc' = [pc EXCEPT ![c] = "unlock"]
  /\ UNCHANGED <<body, lock, call, fn, then, result>>

HandOver(c, f, after, how) ==
  /\ fn' = [fn EXCEPT ![c] = f]
  /\ then' = [then EXCEPT ![c] = after]
  /\ pc' = [pc EXCEPT ![c] = how]
  /\ UNCHANGED <<body, lock, call, found, result>>

(* list_insert_data gives the lock up for the ends of the list, and unlocks *)
(* once more when the push is done; in the middle it calls get_node with    *)
(* the lock held.                                                           *)
Insert(c) ==
  LET i == call[c].index IN
  CASE i = 0 -> HandOver(c, "push_front", "unlock", "yield")
    [] i # 0 /\ i = size -> HandOver(c, "push_back", "unlock", "yield")
    [] i # 0 /\ i < size -> HandOver(c, "get_node", "use", "lock")
    [] OTHER -> EndsUnchanged(c, "failed")

(* Variant: the last node is erased like one in the middle.                 *)
Erase_NoTailCase(c) ==
  LET i == call[c].index IN
  CASE i = 0 -> HandOver(c, "pop_front", "relock", "yield")
    [] i # 0 /\ i < size -> HandOver(c, "get_node", "use", "yield")
    [] OTHER -> EndsUnchanged(c, "failed")

(* list_erase_node gives the lock up for each of the three, and takes it    *)
(* again when they are done.                                                *)
Erase(c) ==
  LET i == call[c].index IN
  CASE i = 0 -> HandOver(c, "pop_front", "relock", "yield")
    [] i # 0 /\ i = size - 1 -> HandOver(c, "pop_back", "relock", "yield")
    [] i # 0 /\ i < size - 1 -> HandOver(c, "get_node", "use", "yield")
    [] OTHER -> EndsUnchanged(c, "failed")

(* The functions that add allocate their node, or fail.                     *)
Add(c) ==
  /\ fn[c] \in {"push_front", "push_back"}
  /\ \/ EndsUnchanged(c, "failed")
     \/ \E n \in Node \ DOMAIN heap :
          IF fn[c] = "push_front" THEN PushFront(c, n) ELSE PushBack(c, n)

NonEmpty(c) ==
  \/ fn[c] = "pop_front" /\ PopFront(c)
  \/ fn[c] = "pop_back" /\ PopBack(c)
  \/ fn[c] = "seek_front" /\ EndsUnchanged(c, heap[head].data)
  \/ fn[c] = "seek_back" /\ EndsUnchanged(c, heap[tail].data)
  \/ fn[c] = "erase" /\ Erase(c)
  \/ fn[c] = "get_node" /\ GetNode(c)
  \/ fn[c] \in {"clear", "delete"} /\ Clear(c)

Body(c) ==
  /\ pc[c] = "body"
  /\ IF ~Valid THEN EndsUnchanged(c, "invalid")
     ELSE \/ Add(c)
          \/ fn[c] = "insert" /\ Insert(c)
          \/ /\ fn[c] \notin Adds
             /\ IF size = 0 THEN EndsUnchanged(c, "empty") ELSE NonEmpty(c)

----------------------------------------------------------------------------
(* After get_node: insert_data links before the node it found, erase_node   *)
(* unlinks it, and get_data, which holds no lock, reads it.                 *)
InsertUse(c) ==
  LET at == found[c]
      before == heap[at].prev
      new == [next |-> at, prev |-> before, data |-> call[c].datum]
  IN
  /\ pc[c] = "use" /\ call[c].op = "insert"
  /\ then' = [then EXCEPT ![c] = "return"]
  /\ pc' = [pc EXCEPT ![c] = "unlock"]
  /\ \/ /\ result' = [result EXCEPT ![c] = "failed"]
        /\ UNCHANGED <<size, heap>>
     \/ \E n \in Node \ DOMAIN heap :
          /\ heap' = Allocated([heap EXCEPT ![before].next = n, ![at].prev = n], n, new)
          /\ size' = size + 1
          /\ result' = [result EXCEPT ![c] = "ok"]
  /\ UNCHANGED <<made, head, tail, lock, call, fn, found>>

(* Variant: the nodes on both sides are joined and the size is kept.        *)
EraseUse_KeepsSize(c) ==
  LET at == found[c]
      before == heap[at].prev
      after == heap[at].next
  IN
  /\ pc[c] = "use" /\ call[c].op = "erase"
  /\ then' = [then EXCEPT ![c] = "return"]
  /\ pc' = [pc EXCEPT ![c] = "unlock"]
  /\ heap' = Restrict([heap EXCEPT ![before].next = after, ![after].prev = before],
                      DOMAIN heap \ {at})
  /\ result' = [result EXCEPT ![c] = heap[at].data]
  /\ UNCHANGED <<made, head, tail, size, lock, call, fn, found>>

EraseUse(c) ==
  LET at == found[c]
      before == heap[at].prev
      after == heap[at].next
  IN
  /\ pc[c] = "use" /\ call[c].op = "erase"
  /\ then' = [then EXCEPT ![c] = "return"]
  /\ pc' = [pc EXCEPT ![c] = "unlock"]
  /\ heap' = Restrict([heap EXCEPT ![before].next = after, ![after].prev = before],
                      DOMAIN heap \ {at})
  /\ size' = size - 1
  /\ result' = [result EXCEPT ![c] = heap[at].data]
  /\ UNCHANGED <<made, head, tail, lock, call, fn, found>>

GetRead(c) ==
  /\ pc[c] = "read"
  /\ result' = [result EXCEPT ![c] = heap[found[c]].data]
  /\ pc' = [pc EXCEPT ![c] = "return"]
  /\ UNCHANGED <<body, lock, call, fn, then, found>>

(* list_delete, the list cleared: destroys the mutex and frees the list.    *)
Destroy(c) ==
  /\ pc[c] = "destroy"
  /\ made' = FALSE
  /\ owner' = NULL /\ depth' = 0
  /\ pc' = [pc EXCEPT ![c] = "return"]
  /\ UNCHANGED <<head, tail, size, heap, call, fn, then, found, result>>

Return(c) ==
  /\ pc[c] = "return"
  /\ pc' = [pc EXCEPT ![c] = "idle"]
  /\ call' = [call EXCEPT ![c] = Nothing]
  /\ fn' = [fn EXCEPT ![c] = "none"]
  /\ then' = [then EXCEPT ![c] = "return"]
  /\ found' = [found EXCEPT ![c] = NULL]
  /\ UNCHANGED <<body, lock, result>>

Next == \E c \in Caller :
  \/ Create(c) \/ Begin(c) \/ Lock(c) \/ Yield(c) \/ Relock(c) \/ Unlock(c)
  \/ Body(c) \/ InsertUse(c) \/ EraseUse(c) \/ GetRead(c) \/ Destroy(c) \/ Return(c)

Spec == Init /\ [][Next]_vars

----------------------------------------------------------------------------
TypeOK ==
  /\ made \in BOOLEAN
  /\ {head, tail} \subseteq Node \cup {NULL}
  /\ size \in 0..Cardinality(Node)
  /\ DOMAIN heap \subseteq Node
  /\ \A n \in DOMAIN heap :
       heap[n] \in [next : Node \cup {NULL}, prev : Node \cup {NULL}, data : Datum]
  /\ owner \in Caller \cup {NULL} /\ depth \in 0..2
  /\ pc \in [Caller -> {"idle", "lock", "body", "yield", "unlock", "relock",
                        "use", "read", "destroy", "return"}]
  /\ call \in [Caller -> Call \cup {Nothing}]
  /\ fn \in [Caller -> {"none", "get_node"} \cup Adds \cup Frees \cup Reads]
  /\ then \in [Caller -> {"return", "unlock", "relock", "use", "read", "destroy"}]
  /\ found \in [Caller -> Node \cup {NULL}]

(* Between any two critical sections the nodes form one list of size nodes  *)
(* that reads the same from both ends, and no other node is allocated:      *)
(* what the pushes, the pops, the insert and the erase must each restore    *)
(* at both ends of every link they cut (list_check_valid tests far less).   *)
WellFormed ==
  /\ Valid
  /\ size = Cardinality(DOMAIN heap)
  /\ {Forward[k] : k \in 0..(size - 1)} = DOMAIN heap
  /\ \A k \in 0..(size - 1) : Forward[k] = Backward[size - 1 - k]
  /\ Forward[size] = NULL /\ Backward[size] = NULL

(* A node that get_node returned is still in the list, with neighbours on   *)
(* both sides when it is to be unlinked or linked before, at the moment it  *)
(* is dereferenced, though the lock was given up in between.                *)
UsesLiveNode ==
  \A c \in Caller :
    /\ pc[c] \in {"use", "read"} => found[c] \in DOMAIN heap
    /\ pc[c] = "use" => heap[found[c]].prev \in DOMAIN heap
    /\ pc[c] = "use" /\ call[c].op = "erase" => heap[found[c]].next \in DOMAIN heap

(* Whoever is inside a critical section holds the mutex, once or, in the    *)
(* middle of an insert, twice; and no call returns with the mutex held,     *)
(* though insert_data unlocks more often than it locks.                     *)
LockPaired ==
  \A c \in Caller :
    /\ pc[c] \in {"body", "use", "yield"} => owner = c
    /\ pc[c] \in {"return", "idle", "read", "relock"} => owner # c
    /\ (pc[c] = "use" \/ (pc[c] = "unlock" /\ then[c] = "return")) /\ owner = c
         => depth = 1

----------------------------------------------------------------------------
(* Each call takes effect at one moment: the steps above implement a        *)
(* sequence of data with atomic operations.  A get takes effect when its    *)
(* node is found, before it is read.                                        *)
Contents == [k \in 1..size |-> heap[Forward[k-1]].data]
Answer(c) ==
  IF call[c].op = "get" /\ result[c] = "pending" /\ found[c] # NULL
  THEN heap[found[c]].data ELSE result[c]

Shared == INSTANCE SharedList WITH
  list <- Contents, asked <- call, answer <- [c \in Caller |-> Answer(c)]

ImplementsList == Shared!LSpec
=============================================================================
