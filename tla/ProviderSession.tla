-------------------------- MODULE ProviderSession ---------------------------
(***************************************************************************)
(* What the libraries under the backends have in common: a library is      *)
(* opened, used and closed by one backend, one call at a time, and every   *)
(* call may fail at any of its steps.  What a library owns (queries,       *)
(* handles, memory) is a set of names; each name is also the pointer that  *)
(* the code keeps it by, so that a pointer may outlive what it pointed to, *)
(* and what a pointer is overwritten with may lose what it held.           *)
(*                                                                         *)
(* A step is built from operators on the memory, in the order of the code: *)
(* Take, Release (free and NULL), Close (free, and keep the pointer).  A   *)
(* definition whose name has an underscore is a wrong variant of the one   *)
(* that follows it, kept to show that the properties tell them apart.      *)
(***************************************************************************)
EXTENDS Integers, FiniteSets

VARIABLES
  lib,      (* which library this is; never changes                         *)
  isOpen,   (* the library's own notion of being initialized                *)
  mem,      (* what it owns, see NoMemory                                   *)
  size,     (* the array the library keeps: room for, and used              *)
  answer    (* the last call, and what it answered                          *)

session == <<isOpen, mem, size, answer>>
provider == <<lib, session>>

(* held: what exists; set: the pointers that are not NULL; lost: what was   *)
(* held when its pointer was overwritten; misfreed: what was given back by  *)
(* a pointer that was not its own any more, or never was; overrun: the      *)
(* arrays that were used past their end.                                    *)
NoMemory == [held |-> {}, set |-> {}, lost |-> {}, misfreed |-> {}, overrun |-> {}]
Sound == mem.lost = {} /\ mem.misfreed = {} /\ mem.overrun = {}
NoSize == [room |-> 0, used |-> 0]

TakeAll(m, R) == [m EXCEPT !.held = @ \cup R, !.set = @ \cup R, !.lost = @ \cup (R \cap m.held)]
Take(m, r) == TakeAll(m, {r})

(* Any of R may have been allocated, but not all.                           *)
TakeSome(m, R) == {TakeAll(m, G) : G \in SUBSET R \ {R}}

(* Whatever of R has a pointer is freed: twice, if it is gone already.      *)
Close(m, R) == [m EXCEPT !.held = @ \ R, !.misfreed = @ \cup ((R \cap m.set) \ m.held)]
Null(m, R) == [m EXCEPT !.set = @ \ R]
Release(m, R) == Null(Close(m, R), R)
Overrun(m, a) == [m EXCEPT !.overrun = @ \cup {a}]

SessionInit ==
  /\ isOpen = FALSE /\ mem = NoMemory /\ size = NoSize /\ answer = <<"none", "none">>

Answer(call, a) == answer' = <<call, a>> /\ UNCHANGED <<lib, isOpen, mem, size>>
Opened(m, s) == mem' = m /\ size' = s /\ isOpen' = TRUE /\ answer' = <<"open", "success">>
                /\ UNCHANGED lib
Emptied(m) == mem' = m /\ size' = NoSize /\ isOpen' = FALSE /\ UNCHANGED lib
Failed(m) == Emptied(m) /\ answer' = <<"open", "failed">>
Closed(m, a) == Emptied(m) /\ answer' = <<"close", a>>
PastEnd(a) == mem' = Overrun(mem, a) /\ UNCHANGED <<lib, isOpen, size, answer>>

(* A use of an open library, that may fail; one that is not open refuses.   *)
Used == IF isOpen THEN \E a \in {"success", "failed"} : Answer("use", a)
        ELSE Answer("use", "not_open")
=============================================================================
