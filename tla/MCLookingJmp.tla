---------------------------- MODULE MCLookingJmp ----------------------------
(***************************************************************************)
(* Traced programs for LookingJmp, built from the instructions of          *)
(* MCAttackVmp.                                                            *)
(***************************************************************************)
EXTENDS LookingJmp, MCAttackVmp

\* Every program of three of these: comparisons of registers and with memory,
\* a flags word built from one argument or from both, values that go through
\* memory, a jump, and library calls that overwrite what the function computed.
Handlers ==
  {Mov("m0", "dil"), Alu("m0", AndOp, "dil", "sil"), Alu("al", XorOp, "al", "sil"),
   Load("al", "m0"), One("al"),
   Cmp(XorOp, "dil", "sil"), Cmp(AndOp, "al", "sil"), CmpMem(AndOp, "m0", "sil"),
   Popfq("m0"), Jump("af"), Library("al", "sil"), Library("m0", "sil")}
AllPrograms == [s \in Handlers \X Handlers \X Handlers |-> Assemble(s)]

\* The trace is given, or not.
LookCommands == {Argument(t, FALSE, 1, 0, "none") : t \in BOOLEAN}

=============================================================================
