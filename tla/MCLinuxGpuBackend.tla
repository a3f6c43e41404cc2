-------------------------- MODULE MCLinuxGpuBackend --------------------------
(* LinuxGpuBackend for TLC: two metrics; requests of one and of three        *)
(* samples per batch, and one for each way validation can fail.              *)
EXTENDS LinuxGpuBackend

Rates == {1, 4}
Streams == {2, 3}
Requests == {[capability |-> 0, sampling |-> 4, streaming |-> 2],
             [capability |-> 0, sampling |-> 1, streaming |-> 3],
             [capability |-> 1, sampling |-> 1, streaming |-> 2],
             [capability |-> 0, sampling |-> 3, streaming |-> 2]}
OneRequest == {[capability |-> 0, sampling |-> 1, streaming |-> 2]}
KnownCapability == {0}
=============================================================================
