----------------------------- MODULE SharedList -----------------------------
(***************************************************************************)
(* What utils/qlist promises: a sequence that several threads change, each *)
(* call taking effect at one moment between its begin and its end.  A call *)
(* that adds may fail for want of memory, and then changes nothing.        *)
(***************************************************************************)
EXTENDS Integers, SequencesExt

CONSTANTS Caller, Datum, Index

VARIABLES
  list,     (* the sequence of data                                         *)
  asked,    (* asked[c]: the call of c, or Nothing                          *)
  answer    (* answer[c]: what it has returned, "pending" before its effect *)

lVars == <<list, asked, answer>>

Adds == {"push_front", "push_back", "insert"}
Takes == {"pop_front", "pop_back", "erase"}
Reads == {"seek_front", "seek_back", "get"}
Clears == {"clear", "delete"}

Call == [op : Adds, index : Index, datum : Datum]
          \cup [op : Takes \cup Reads \cup Clears, index : Index, datum : {"none"}]
Nothing == [op |-> "none", index |-> 0, datum |-> "none"]

LInit ==
  /\ list = <<>>
  /\ asked = [c \in Caller |-> Nothing]
  /\ answer = [c \in Caller |-> "none"]

Ask(c) ==
  /\ asked[c] = Nothing
  /\ \E q \in Call : asked' = [asked EXCEPT ![c] = q]
  /\ answer' = [answer EXCEPT ![c] = "pending"]
  /\ UNCHANGED list

(* The place a call works on, counted from 1: that of the element it reads  *)
(* or takes, or where the element it adds will be.                          *)
Place(q) ==
  CASE q.op \in {"push_front", "pop_front", "seek_front"} -> 1
    [] q.op = "push_back" -> Len(list) + 1
    [] q.op \in {"pop_back", "seek_back"} -> Len(list)
    [] OTHER -> q.index + 1

Effect(c) ==
  LET q == asked[c]
      i == Place(q)
      Becomes(l, a) == list' = l /\ answer' = [answer EXCEPT ![c] = a]
  IN
  /\ answer[c] = "pending"
  /\ UNCHANGED asked
  /\ \/ /\ q.op \in Adds /\ i <= Len(list) + 1
        /\ Becomes(InsertAt(list, i, q.datum), "ok")
     \/ /\ q.op \in Adds
        /\ Becomes(list, "failed")
     \/ /\ q.op \in Takes /\ i \in DOMAIN list
        /\ Becomes(RemoveAt(list, i), list[i])
     \/ /\ q.op \in Reads /\ i \in DOMAIN list
        /\ Becomes(list, list[i])
     \/ /\ q.op \notin Adds /\ list = <<>>
        /\ Becomes(list, "empty")
     \/ /\ q.op = "erase" /\ list # <<>> /\ i \notin DOMAIN list
        /\ Becomes(list, "failed")
     \/ /\ q.op \in Clears /\ list # <<>>
        /\ Becomes(<<>>, "ok")

Done(c) ==
  /\ asked[c] # Nothing /\ answer[c] # "pending"
  /\ asked' = [asked EXCEPT ![c] = Nothing]
  /\ UNCHANGED <<list, answer>>

LNext == \E c \in Caller : Ask(c) \/ Effect(c) \/ Done(c)

LSpec == LInit /\ [][LNext]_lVars
=============================================================================
