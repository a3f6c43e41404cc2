----------------------------- MODULE MCSamplers -----------------------------
(* Samplers for TLC.  Requests: of one and of four samples per batch, one    *)
(* with a sampling rate above its streaming rate, and one for each way       *)
(* validation can fail.  FewRequests adds the request of zero rates, which   *)
(* only the backends that validate nothing accept.                           *)
EXTENDS Samplers, TLC

Rates == {1, 5}
Streams == {2, 4}
ManyRequests == {[capability |-> 0, sampling |-> 5, streaming |-> 4],
                 [capability |-> 0, sampling |-> 1, streaming |-> 4],
                 [capability |-> 1, sampling |-> 1, streaming |-> 4],
                 [capability |-> 0, sampling |-> 2, streaming |-> 4]}
FewRequests == {[capability |-> 0, sampling |-> 1, streaming |-> 2],
                [capability |-> 0, sampling |-> 0, streaming |-> 0]}
OneRequest == {[capability |-> 0, sampling |-> 1, streaming |-> 2]}
Threads == Permutations(Thread)

(* No step reads what was sent, and the invariants of hasty do not either.   *)
AllButSent == <<registry, client, flag, threads, fault>>
=============================================================================
