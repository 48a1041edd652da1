----------------------------- MODULE LookingJmp -----------------------------
(***************************************************************************)
(* looking_jmp.py: one recorded trace is replayed and the instructions     *)
(* that look like a virtual branch on the arguments are printed, for the   *)
(* user to choose --vbraddr and --vbrflag from.                            *)
(*                                                                         *)
(* The loop of the replay is that of attack_vmp.py, whose variables and    *)
(* synchronization are used as they are.  What differs: the context is     *)
(* concretized first, there is no second trace, and the markers are wider. *)
(***************************************************************************)
EXTENDS AttackVmp

\* One instruction per address: the code does not modify itself.
ASSUME LookAssumption ==
  \A n \in DOMAIN Programs : \A j, k \in DOMAIN Programs[n] :
    Programs[n][j].addr = Programs[n][k].addr =>
      Programs[n][j].kind = Programs[n][k].kind /\ Programs[n][j].regs = Programs[n][k].regs

\* --trace and --symsize.
LookInit ==
  /\ Init
  /\ ~argv.trace2 /\ argv.vbraddr = 0 /\ argv.vbrflag = NoFlag

LookAccepted == argv.trace1 /\ argv.symsize \in ValidSizes

\* concretizeAllRegister and concretizeAllMemory.
ConcretizeAll ==
  /\ ast' = [l \in Loc |-> Const(conc[l])]
  /\ UNCHANGED <<conc, varval, symvars>>

LookMain ==
  /\ phase = "argv"
  /\ IF LookAccepted
       THEN phase' = "replay" /\ ConcretizeAll /\ UNCHANGED outcome
       ELSE phase' = "exit" /\ outcome' = "usage" /\ UNCHANGED contextVars
  /\ UNCHANGED <<argv, execid, fuse, stage, todo, outputVars, targetVars, historyVars>>

-----------------------------------------------------------------------------
(* emulate: the lines are treated as in attack_vmp.py.                     *)

LookSyncMemory == SyncMemory
LookSyncReg    == SyncReg

\* Mutations: the carry is looked at after a comparison too; any instruction is
\* a marker, on what it assigns.
LookMarkerCarry(ins) == IF ins.kind \in {"popfq", "cmp"} THEN {Cf} ELSE {}
LookMarkerAny(ins) == DOMAIN ins.eff

\* The operands of a comparison are not looked at.
LookMarker(ins) ==
  CASE ins.kind = "popfq" -> {Cf}
    [] ins.kind = "cmp"   -> {Af}
    [] OTHER              -> {}

\* Mutations: the models for which the flag does not change; the models the
\* solver finds when it is not asked again for the same instruction.
LookReportSame(ins) == {c \in Candidates(ins, LookMarker(ins)) : ~Flips(ins, c)}
LookReportOnce(ins) ==
  {c \in Report(ins, LookMarker(ins)) : \A d \in reported : d.flag # c.flag}

LookReport(ins) == Report(ins, LookMarker(ins))

LookDetectingVjmp(ins) ==
  IF LookReport(ins) # {}
    THEN \E c \in LookReport(ins) : reported' = reported \cup {c}
    ELSE UNCHANGED reported

\* The fuse symbolizes the arguments without looking for existing variables:
\* there are none, the context is new.
LookExecInstruction ==
  ProcessInstruction /\ LookDetectingVjmp(Code[pc]) /\ UNCHANGED vjmp

\* analysis ignores the expression that one_path returns.
LookEnd == ResultOfOnePath

LookNext ==
  \/ LookMain
  \/ Untraced \/ NextLines
  \/ LookSyncMemory \/ LookSyncReg \/ LookExecInstruction
  \/ LookEnd
  \/ Done

LookSpec == LookInit /\ [][LookNext]_vars

-----------------------------------------------------------------------------
(* Properties.                                                             *)

\* What the traced process leaves in f when it executes the instruction at pc.
FlagAfter(f) == After(Code[pc])[f]

\* The inputs a printed model can be about.
Reach == peers \cap Covered(in)

\* A printed branch is one: while the function has read only its arguments and
\* its own writes, a model printed for an instruction, if it follows the recorded
\* path, does set the flag of the real instruction to the other value.
ReportIsReal ==
  pure => \A c \in reported' \ reported :
            c.model \in Reach => FlagAfter(c.flag)[c.model] # FlagAfter(c.flag)[in]

ReportsAreReal == [][ReportIsReal]_vars

\* f depends on one of the two arguments at most.
OneArgument(f) ==
  \E R \in {Rdi, Rsi} : \A i, j \in Reach :
    (\A k \in DOMAIN R : i[R[k]] = j[R[k]]) => FlagAfter(f)[i] = FlagAfter(f)[j]

\* Why a branch can be missed.  An instruction of a marker's kind is passed over
\* in silence only if its flag is the same on the whole recorded path, or depends
\* on one argument: two variables are asked for (lines 57 and 63).
MissIsExplained ==
  stage = "i" /\ stage' = "fetch" /\ phase' = "replay" /\ pure =>
    \A f \in LookMarker(Code[pc]) :
      \/ \E c \in reported' : c.addr = Code[pc].addr /\ c.flag = f
      \/ \A i \in Reach : FlagAfter(f)[i] = FlagAfter(f)[in]
      \/ OneArgument(f)

MissesAreExplained == [][MissIsExplained]_vars

\* The candidates attack_vmp.py looks at too.
Shared == {c \in reported : \E k \in DOMAIN Code : c.addr = Code[k].addr /\ c.flag \in Marker(Code[k])}

Attack == INSTANCE AttackVmp WITH reported <- Shared

\* looking_jmp.py is the first replay of attack_vmp.py, and prints what it
\* prints or more: concretizing a new context changes nothing, no variable
\* exists when the fuse burns, and only the candidates at comparisons with
\* memory are new.
FirstReplay == Attack!Spec

=============================================================================
