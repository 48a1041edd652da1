----------------------------- MODULE MCRecording -----------------------------
(***************************************************************************)
(* Recordings of the programs of MCVMPTrace.                               *)
(***************************************************************************)
EXTENDS Recording, MCVMPTrace

\* The layout of the samples meets the conditions of OneCallIsExact.
ASSUME VmOnlyAssumption == CalledOnce("vm", {1}, {2, 3} \cup (6..10), {4, 5})

=============================================================================
