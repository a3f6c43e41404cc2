------------------------- MODULE ConditionVariable --------------------------
(***************************************************************************)
(* utils/qcondition-variable: a condition variable and its mutex, made and *)
(* destroyed together.  size.used counts the threads that wait.  It keeps  *)
(* no condition: a notification that finds nobody waiting is lost, and a   *)
(* wait ends by a notification, by itself or by the clock.                 *)
(***************************************************************************)
EXTENDS ProviderSession

CONSTANT MaxWaiters   (* bound *)

Pair == {"cond", "mutex"}

Init == lib \in {"cv_linux", "cv_windows"} /\ SessionInit

(* What a failed create leaves: Windows frees what it got, Linux frees only *)
(* the pointers that are NULL.                                              *)
Undone(m) ==
  IF lib = "cv_windows" THEN Release(m, Pair)
  ELSE [Null(m, Pair) EXCEPT !.held = @ \ Pair, !.lost = @ \cup (m.held \cap Pair)]

(* Only Linux can fail to initialize the two once it has them.              *)
CvCreate ==
  /\ ~isOpen
  /\ \/ \E some \in TakeSome(mem, Pair) : Failed(Undone(some))
     \/ lib = "cv_linux" /\ Failed(Undone(TakeAll(mem, Pair)))
     \/ Opened(TakeAll(mem, Pair), [room |-> MaxWaiters, used |-> 0])

Waiting(n) == size' = [size EXCEPT !.used = n] /\ UNCHANGED <<lib, isOpen, mem, answer>>

(* cv_wait and cv_wait_for                                                  *)
CvWait ==
  IF ~isOpen THEN Answer("use", "not_open") ELSE size.used < size.room /\ Waiting(size.used + 1)

(* cv_wait_for on Linux waits for whole seconds only: its 500 ms are none.  *)
CvTimeout == isOpen /\ size.used > 0 /\ Waiting(size.used - 1)

CvNotify ==
  IF ~isOpen THEN Answer("use", "not_open")
  ELSE Waiting(IF size.used = 0 THEN 0 ELSE size.used - 1)

CvNotifyAll == IF ~isOpen THEN Answer("use", "not_open") ELSE Waiting(0)

(* Who destroys it sees to it that nobody waits.                            *)
CvDestroy ==
  IF ~isOpen THEN Answer("close", "not_open")
  ELSE size.used = 0 /\ Closed(Release(mem, Pair), "success")

Next == CvCreate \/ CvWait \/ CvTimeout \/ CvNotify \/ CvNotifyAll \/ CvDestroy
=============================================================================
