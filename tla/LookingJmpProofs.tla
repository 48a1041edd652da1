-------------------------- MODULE LookingJmpProofs --------------------------
(***************************************************************************)
(* Theorems about looking_jmp.py, for every set of locations, every traced *)
(* program and every command line.  Its replay preserves the invariants of *)
(* the replay of attack_vmp.py, whose lemmas are used; what is new is the  *)
(* relation between an AST and the variables in it, and the refinement.    *)
(***************************************************************************)
EXTENDS LookingJmp, AttackVmpProofs

-----------------------------------------------------------------------------
(* The invariants of the replay.                                           *)

\* One trace, replayed in a context that is new when it is concretized.
OneTrace ==
  /\ ~argv.trace2 /\ execid = 1
  /\ stage # "fetch" => phase = "replay"
  /\ phase = "argv" => ast = [l \in Loc |-> Const(conc[l])]

LookInv == TypeOK /\ Coherent /\ SyncInv /\ FaithInv /\ OneTrace

\* The steps that are taken as they are in attack_vmp.py.
SharedStep ==
  Untraced \/ NextLines \/ SyncMemory \/ SyncReg \/ ResultOfOnePath \/ Done \/ UNCHANGED vars

LEMMA SharedStepIsNext == SharedStep => [Next]_vars
  BY DEF SharedStep, Next

LEMMA LookInitInv == LookInit => LookInv
<1> SUFFICES ASSUME LookInit PROVE LookInv
  OBVIOUS
<1>1. Init
  BY DEF LookInit
<1>2. TypeOK /\ FaithInv
  BY <1>1, InitType, InitFaithful
<1>3. SyncInv
  BY <1>1 DEF Init, SyncInv, SyncedBeforeExec
<1>4. Coherent
  <2>1. varval \in Inputs
    BY <1>2 DEF TypeOK
  <2> QED BY <1>1, <2>1, ConstEvaluates DEF Init, Coherent, FirstRunCoherent, Evaluate
<1>5. OneTrace
  BY <1>1 DEF LookInit, Init, OneTrace
<1> QED BY <1>2, <1>3, <1>4, <1>5 DEF LookInv

\* Concretizing the new context leaves it as it is.
LEMMA LookMainIsMain ==
  ASSUME LookInv, LookMain PROVE Main
<1>1. LookAccepted <=> ArgsAccepted
  BY DEF LookInv, OneTrace, LookAccepted, ArgsAccepted
<1>2. LookAccepted => UNCHANGED contextVars
  BY DEF LookMain, ConcretizeAll, LookInv, OneTrace, contextVars
<1> QED BY <1>1, <1>2 DEF LookMain, Main, contextVars

\* No variable exists when the fuse burns, so no value is refused.
LEMMA NeverTooBig == LookInv => ~TooBig
  BY DEF LookInv, OneTrace, Coherent, TooBig, TypeOK

LEMMA LookReportType ==
  ASSUME TypeOK, pc # 0
  PROVE  LookReport(Code[pc]) \subseteq [addr : Nat \ {0}, flag : {Cf, Af}, model : Inputs]
<1>1. LookMarker(Code[pc]) \subseteq {Cf, Af}
  BY DEF LookMarker
<1>2. Code[pc].addr \in Nat \ {0}
  BY CodeType
<1> QED BY <1>1, <1>2 DEF LookReport, Report, Candidates, Covered

LEMMA LookExecInv ==
  ASSUME LookInv, LookExecInstruction PROVE LookInv'
<1>1. TypeOK /\ Coherent /\ FaithInv /\ SyncedBeforeExec /\ ProcessInstruction
  BY DEF LookInv, SyncInv, LookExecInstruction
<1>2. pc # 0
  BY <1>1 DEF ProcessInstruction, TypeOK
<1>3. reported' \subseteq [addr : Nat \ {0}, flag : {Cf, Af}, model : Inputs]
  BY <1>1, <1>2, LookReportType DEF LookExecInstruction, LookDetectingVjmp, TypeOK
<1>4. vjmp' \in Seq(SUBSET Inputs)
  BY <1>1 DEF LookExecInstruction, TypeOK
<1>5. TypeOK'
  BY <1>1, <1>2, <1>3, <1>4, ProcessType
<1>6. Coherent'
  BY <1>1, ProcessCoherent
<1>7. FaithInv'
  BY <1>1, NeverTooBig, ProcessFaithful
<1>8. SyncInv' /\ OneTrace'
  BY <1>1 DEF ProcessInstruction, SyncInv, SyncedBeforeExec, LookInv, OneTrace, TypeOK
<1> QED BY <1>5, <1>6, <1>7, <1>8 DEF LookInv

LEMMA LookStep ==
  ASSUME LookInv, [LookNext]_vars PROVE LookInv'
<1>1. ASSUME Main \/ SharedStep PROVE LookInv'
  <2>1. [Next]_vars
    BY <1>1, SharedStepIsNext DEF Next
  <2>2. TypeOK' /\ Coherent' /\ SyncInv' /\ FaithInv'
    BY <2>1, TypeStep, CoherentStep, SyncedStep, NextFaithful DEF LookInv
  <2>3. argv' = argv /\ execid' = execid /\ (stage' # "fetch" => phase' = "replay")
    BY <1>1 DEF Main, SharedStep, Untraced, NextLines, SyncMemory, SyncReg, ResultOfOnePath,
                Done, vars, scriptVars, LookInv, OneTrace
  <2>4. phase' = "argv" => UNCHANGED contextVars /\ phase = "argv"
    BY <1>1 DEF Main, SharedStep, Untraced, NextLines, SyncMemory, SyncReg, ResultOfOnePath,
                Done, vars, scriptVars, LookInv, OneTrace, TypeOK
  <2>5. OneTrace'
    BY <2>3, <2>4 DEF LookInv, OneTrace, contextVars
  <2> QED BY <2>2, <2>5 DEF LookInv
<1>2. CASE LookMain
  BY <1>1, <1>2, LookMainIsMain
<1>3. CASE LookExecInstruction
  BY <1>3, LookExecInv
<1> QED BY <1>1, <1>2, <1>3
        DEF LookNext, LookSyncMemory, LookSyncReg, LookEnd, SharedStep

LEMMA AlwaysLookInv == LookSpec => []LookInv
<1>1. LookInit => LookInv
  BY LookInitInv
<1>2. LookInv /\ [LookNext]_vars => LookInv'
  BY LookStep
<1> QED BY <1>1, <1>2, PTL DEF LookSpec

\* The replay of looking_jmp.py (lines 70-118) keeps the invariants of the first
\* replay of attack_vmp.py, whatever it prints: the context agrees with the
\* traced process before each instruction, and what the function has computed
\* from its arguments has the AST of that function on the recorded path.
THEOREM LookFaithful == LookSpec => [](SyncedBeforeExec /\ PathFaithful)
<1>1. LookInv => SyncedBeforeExec /\ PathFaithful
  BY DEF LookInv, SyncInv, FaithInv
<1> QED BY <1>1, AlwaysLookInv, PTL

-----------------------------------------------------------------------------
(* What is printed.                                                        *)

\* The flag of a marker is one its instruction assigns.
LEMMA MarkerAssigned ==
  ASSUME TypeOK, pc # 0, NEW f \in LookMarker(Code[pc])
  PROVE  f \in DOMAIN Code[pc].eff /\ f \in Loc
<1>1. WellFormedProgram(Code) /\ pc \in DOMAIN Code
  BY AttackAssumption DEF TypeOK, Code
<1> QED BY <1>1, AttackAssumption DEF WellFormedProgram, LookMarker

\* On the recorded path, the AST of such a flag is the flag of the process.
LEMMA FlagIsFaithful ==
  ASSUME LookInv, stage = "i", pure, NEW f \in LookMarker(Code[pc]), NEW i \in Reach
  PROVE  Processed(Code[pc])[f].val[i] = FlagAfter(f)[i]
<1> DEFINE ins == Code[pc]
           eff == ins.eff
<1>1. /\ TypeOK /\ Coherent /\ FaithInv /\ SyncedBeforeExec /\ ~TooBig
      /\ pc # 0 /\ i \in Inputs
  BY NeverTooBig DEF LookInv, SyncInv, TypeOK, Reach
<1>2. \A l \in fresh : FusedAst[l].val[i] = full[l][i]
  BY <1>1, FusedFaithful DEF Reach
<1>3. f \in DOMAIN eff /\ f \in Loc
  BY <1>1, MarkerAssigned
<1>4. eff[f].a \in fresh /\ eff[f].b \in fresh
  BY <1>1, <1>3, OperandsAreSources DEF FaithInv, ReadsFresh
<1>5. Processed(ins)[f] = Combine(eff[f].op, FusedAst[eff[f].a], FusedAst[eff[f].b])
  BY <1>3 DEF Processed
<1>6. Processed(ins)[f].val[i] = eff[f].op[<<FusedAst[eff[f].a].val[i], FusedAst[eff[f].b].val[i]>>]
  <2>1. Combine(eff[f].op, FusedAst[eff[f].a], FusedAst[eff[f].b]).val[i]
          = eff[f].op[<<FusedAst[eff[f].a].val[i], FusedAst[eff[f].b].val[i]>>]
    BY <1>1 DEF Combine
  <2> HIDE DEF ins, eff
  <2> QED BY ONLY <1>5, <2>1
<1>7. FlagAfter(f)[i] = eff[f].op[<<full[eff[f].a][i], full[eff[f].b][i]>>]
  BY <1>1, <1>3 DEF FlagAfter, After
<1> QED BY <1>2, <1>4, <1>6, <1>7

\* The recorded run is one of the inputs a model can be about, and the variables
\* hold its arguments.
LEMMA RecordedIsReached ==
  ASSUME LookInv, stage = "i", pure PROVE in \in Reach /\ FusedVarval = in
<1>1. TypeOK /\ Coherent /\ FaithInv /\ SyncedBeforeExec /\ ~TooBig
  BY NeverTooBig DEF LookInv, SyncInv
<1>2. FusedVarval = in
  BY <1>1, FusedFaithful
<1> QED BY <1>1, <1>2 DEF FaithInv, OnPath, Reach, Covered, TypeOK

\* Only the processing of an instruction prints, and what it prints flips the
\* AST of a flag.
LEMMA PrintedFlips ==
  ASSUME [LookNext]_vars, NEW c \in reported' \ reported
  PROVE  LookExecInstruction /\ c \in LookReport(Code[pc])
<1>1. LookExecInstruction
  BY DEF LookNext, LookMain, Untraced, NextLines, LookSyncMemory, LookSyncReg, SyncMemory,
         SyncReg, LookEnd, ResultOfOnePath, Done, vars, outputVars
<1> QED BY <1>1 DEF LookExecInstruction, LookDetectingVjmp

\* What the script prints as a potential symbolic jump is one: on every input of
\* the recorded path the printed model, if it follows that path, gives the real
\* flag the value it did not have (detecting_vjmp, lines 55-65).
THEOREM ReportedIsReal == LookSpec => ReportsAreReal
<1>1. LookInv /\ [LookNext]_vars => [ReportIsReal]_vars
  <2> SUFFICES ASSUME LookInv, [LookNext]_vars, pure, NEW c \in reported' \ reported,
                      c.model \in Reach
               PROVE  FlagAfter(c.flag)[c.model] # FlagAfter(c.flag)[in]
    BY DEF ReportIsReal
  <2>1. LookExecInstruction /\ c \in LookReport(Code[pc]) /\ stage = "i"
    BY PrintedFlips DEF LookExecInstruction, ProcessInstruction
  <2>2. c.flag \in LookMarker(Code[pc])
    BY <2>1 DEF LookReport, Report, Candidates
  <2>3. in \in Reach /\ FusedVarval = in
    BY <2>1, RecordedIsReached
  <2>4. Processed(Code[pc])[c.flag].val[c.model] # Processed(Code[pc])[c.flag].val[in]
    BY <2>1, <2>3 DEF LookReport, Report, Flips, Evaluate
  <2> QED BY <2>1, <2>2, <2>3, <2>4, FlagIsFaithful
<1> QED BY <1>1, AlwaysLookInv, PTL DEF LookSpec, ReportsAreReal

-----------------------------------------------------------------------------
(* What is passed over.                                                    *)

\* Inputs that give the variables in V the same values.
SameOn(V, i, j) == \A b \in DataBytes : VarOf(b) \in V => i[b] = j[b]

\* An AST depends on no variable that does not occur in it.
Closed(a) == \A i, j \in Inputs : SameOn(a.vars, i, j) => a.val[i] = a.val[j]

AstsClosed == \A l \in Loc : Closed(ast[l])

LEMMA ConstClosed == \A v : Closed(Const(v))
  BY DEF Closed, Const

LEMMA SymByteClosed ==
  ASSUME NEW b \in DataBytes PROVE Closed(SymByte(b, VarOf(b)))
  BY DEF Closed, SymByte, SameOn

LEMMA CombineClosed ==
  ASSUME NEW op, NEW a, NEW b, Closed(a), Closed(b) PROVE Closed(Combine(op, a, b))
<1> SUFFICES ASSUME NEW i \in Inputs, NEW j \in Inputs, SameOn(a.vars \cup b.vars, i, j)
             PROVE  op[<<a.val[i], b.val[i]>>] = op[<<a.val[j], b.val[j]>>]
  BY DEF Closed, Combine
<1>1. SameOn(a.vars, i, j) /\ SameOn(b.vars, i, j)
  BY DEF SameOn
<1>2. a.val[i] = a.val[j] /\ b.val[i] = b.val[j]
  BY <1>1 DEF Closed
<1> QED BY <1>2

LEMMA ProcessedClosed ==
  ASSUME TypeOK, AstsClosed, pc # 0, NEW l \in Loc PROVE Closed(Processed(Code[pc])[l])
<1> DEFINE eff == Code[pc].eff
<1>1. \A k \in Loc : Closed(FusedAst[k])
  BY ConstClosed, SymByteClosed DEF FusedAst, AstsClosed
<1>2. CASE l \in DOMAIN eff
  <2>1. eff[l].a \in Loc /\ eff[l].b \in Loc
    BY <1>2, CodeType DEF Term
  <2>2. Processed(Code[pc])[l] = Combine(eff[l].op, FusedAst[eff[l].a], FusedAst[eff[l].b])
    BY <1>2 DEF Processed
  <2>3. Closed(Combine(eff[l].op, FusedAst[eff[l].a], FusedAst[eff[l].b]))
    BY <1>1, <2>1, CombineClosed
  <2> QED BY ONLY <2>2, <2>3
<1>3. CASE l \notin DOMAIN eff
  BY <1>1, <1>3 DEF Processed
<1> QED BY <1>2, <1>3

LEMMA AlwaysAstsClosed == LookSpec => []AstsClosed
<1>1. LookInit => AstsClosed
  BY ConstClosed DEF LookInit, Init, AstsClosed
<1>2. LookInv /\ AstsClosed /\ [LookNext]_vars => AstsClosed'
  <2> SUFFICES ASSUME LookInv, AstsClosed, [LookNext]_vars PROVE AstsClosed'
    OBVIOUS
  <2>1. CASE ast' = ast
    BY <2>1 DEF AstsClosed
  <2>2. ASSUME NEW groups, Sync(groups) PROVE AstsClosed'
    BY <2>2, ConstClosed DEF Sync, AstsClosed
  <2>3. CASE LookSyncMemory \/ LookSyncReg
    BY <2>1, <2>2, <2>3 DEF LookSyncMemory, SyncMemory, LookSyncReg, SyncReg, contextVars
  <2>4. CASE LookExecInstruction
    <3>1. ast' = Processed(Code[pc]) /\ pc # 0 /\ TypeOK
      BY <2>4 DEF LookExecInstruction, ProcessInstruction, LookInv, TypeOK
    <3> QED BY <3>1, ProcessedClosed DEF AstsClosed
  <2>5. CASE LookMain
    BY <2>1, <2>5, LookMainIsMain DEF Main, contextVars
  <2>6. CASE Untraced \/ NextLines \/ LookEnd \/ Done \/ UNCHANGED vars
    BY <2>1, <2>6 DEF Untraced, NextLines, LookEnd, ResultOfOnePath, Done, vars, contextVars
  <2> QED BY <2>3, <2>4, <2>5, <2>6 DEF LookNext
<1> QED BY <1>1, <1>2, AlwaysLookInv, PTL DEF LookSpec

\* A flag whose AST lacks a variable depends on one argument.
LEMMA LacksVariable ==
  ASSUME LookInv, AstsClosed, stage = "i", pure, NEW f \in LookMarker(Code[pc]),
         Processed(Code[pc])[f].vars # Var
  PROVE  OneArgument(f)
<1> DEFINE a == Processed(Code[pc])[f]
<1>1. TypeOK /\ pc # 0 /\ f \in Loc
  BY MarkerAssigned DEF LookInv, TypeOK
<1>2. Closed(a) /\ a.vars \subseteq Var
  BY <1>1, ProcessedClosed, ProcessedType DEF Expr
<1>3. \A i \in Reach : i \in Inputs /\ a.val[i] = FlagAfter(f)[i]
  BY <1>1, FlagIsFaithful DEF Reach, TypeOK
<1>4. ASSUME NEW R \in {Rdi, Rsi}, NEW v \in Var, a.vars \subseteq {v},
             \A b \in DataBytes : VarOf(b) = v => \E k \in DOMAIN R : R[k] = b
      PROVE  OneArgument(f)
  <2> SUFFICES ASSUME NEW i \in Reach, NEW j \in Reach, \A k \in DOMAIN R : i[R[k]] = j[R[k]]
               PROVE  FlagAfter(f)[i] = FlagAfter(f)[j]
    BY DEF OneArgument
  <2>1. SameOn(a.vars, i, j)
    BY <1>4 DEF SameOn
  <2>2. a.val[i] = a.val[j]
    BY <1>2, <1>3, <2>1 DEF Closed
  <2> QED BY <1>3, <2>2
<1>5. CASE a.vars \subseteq {"x"}
  <2>1. \A b \in DataBytes : VarOf(b) = "x" => \E k \in DOMAIN Rdi : Rdi[k] = b
    BY DEF VarOf
  <2> QED BY <1>4, <1>5, <2>1 DEF Var
<1>6. CASE a.vars \subseteq {"y"}
  <2>1. \A b \in DataBytes : VarOf(b) = "y" => \E k \in DOMAIN Rsi : Rsi[k] = b
    BY DEF VarOf, DataBytes
  <2> QED BY <1>4, <1>6, <2>1 DEF Var
<1> QED BY <1>2, <1>5, <1>6 DEF Var

\* The branch search is complete up to its own rules: a popfq or a comparison of
\* a pure run is passed over only if no input of the recorded path flips its
\* flag, or if the flag depends on one argument (detecting_vjmp, lines 57 and 63).
THEOREM MissedIsExplained == LookSpec => MissesAreExplained
<1>1. LookInv /\ AstsClosed /\ [LookNext]_vars => [MissIsExplained]_vars
  <2> SUFFICES ASSUME LookInv, AstsClosed, [LookNext]_vars, stage = "i", stage' = "fetch",
                      phase' = "replay", pure, NEW f \in LookMarker(Code[pc]),
                      ~\E c \in reported' : c.addr = Code[pc].addr /\ c.flag = f
               PROVE  OneArgument(f) \/ \A i \in Reach : FlagAfter(f)[i] = FlagAfter(f)[in]
    BY DEF MissIsExplained
  <2> DEFINE a == Processed(Code[pc])[f]
  <2>1. LookExecInstruction
    BY DEF LookNext, LookMain, Untraced, NextLines, LookSyncMemory, LookSyncReg, SyncMemory,
           SyncReg, LookEnd, ResultOfOnePath, Done, vars, scriptVars
  <2>2. LookReport(Code[pc]) = {}
    <3>1. \A c \in LookReport(Code[pc]) : c.addr = Code[pc].addr /\ c.flag = f
      BY DEF LookReport, Report, Candidates, LookMarker
    <3> QED BY <2>1, <3>1 DEF LookExecInstruction, LookDetectingVjmp
  <2>3. in \in Reach /\ FusedVarval = in
    BY RecordedIsReached
  <2>4. ASSUME a.vars = Var, NEW i \in Reach PROVE FlagAfter(f)[i] = FlagAfter(f)[in]
    <3> DEFINE c == [addr |-> Code[pc].addr, flag |-> f, model |-> i]
    <3>1. IsSymbolized(Code[pc])
      <4>1. f \in DOMAIN Code[pc].eff
        BY MarkerAssigned DEF LookInv, TypeOK
      <4> QED BY <2>4, <4>1 DEF IsSymbolized, Var
    <3>2. c \in Candidates(Code[pc], LookMarker(Code[pc]))
      BY <2>3, <2>4, <3>1 DEF Candidates, Reach
    <3>3. ~Flips(Code[pc], c)
      BY <2>2, <3>2 DEF LookReport, Report
    <3>4. a.val[i] = a.val[in]
      BY <2>3, <3>3 DEF Flips, Evaluate
    <3> QED BY <2>3, <3>4, FlagIsFaithful
  <2> QED BY <2>4, LacksVariable
<1> QED BY <1>1, AlwaysLookInv, AlwaysAstsClosed, PTL DEF LookSpec, MissesAreExplained

-----------------------------------------------------------------------------
(* The branch search implements the first replay of attack_vmp.py.         *)

\* A new context, with nothing printed.
LEMMA LookInitIsInit == LookInit => Attack!Init
<1>1. LookInit => Shared = {}
  BY DEF LookInit, Init, Shared
<1> QED BY <1>1
        DEF LookInit, Init, Attack!Init, Enter, Attack!Enter, EntryInput, Attack!EntryInput,
            EntryFull, Attack!EntryFull, Const, Attack!Const, DataBytes, Attack!DataBytes,
            Inputs, Attack!Inputs

\* The operators of the two scripts are the same.
LEMMA SameOperators ==
  /\ Attack!DataBytes = DataBytes /\ Attack!Inputs = Inputs /\ Attack!Code = Code
  /\ Attack!Real = Real /\ (Attack!TooBig <=> TooBig)
  /\ Attack!FusedVarval = FusedVarval /\ Attack!FusedAst = FusedAst
<1>1. Attack!DataBytes = DataBytes
  BY DEF Attack!DataBytes, DataBytes
<1>2. Attack!Inputs = Inputs
  BY <1>1 DEF Attack!Inputs, Inputs
<1>3. Attack!Code = Code /\ Attack!Real = Real
  BY DEF Attack!Code, Code, Attack!Real, Real
<1>4. Attack!SymView = SymView
  BY DEF Attack!SymView, SymView, Attack!SymBytes, SymBytes
<1>5. Attack!TooBig <=> TooBig
  BY <1>1, <1>4 DEF Attack!TooBig, TooBig
<1>6. Attack!FusedVarval = FusedVarval
  BY <1>1 DEF Attack!FusedVarval, FusedVarval
<1>7. Attack!FusedAst = FusedAst
  BY <1>1, <1>2, <1>4 DEF Attack!FusedAst, FusedAst, Attack!SymByte, SymByte, Attack!VarOf, VarOf,
     Attack!Const, Const
<1> QED BY <1>1, <1>2, <1>3, <1>5, <1>6, <1>7

\* They make the same of an instruction.
LEMMA SameProcessing ==
  ASSUME NEW ins
  PROVE  /\ Attack!Processed(ins) = Processed(ins) /\ Attack!After(ins) = After(ins)
         /\ Attack!Marker(ins) = Marker(ins)
<1>1. Attack!Processed(ins) = Processed(ins)
  BY SameOperators DEF Attack!Processed, Processed, Attack!Combine, Combine
<1>2. Attack!After(ins) = After(ins)
  BY SameOperators DEF Attack!After, After
<1>3. Attack!Marker(ins) = Marker(ins)
  BY Zenon DEF Attack!Marker, Marker
<1> QED BY <1>1, <1>2, <1>3

\* They find the same at the flags in F.
LEMMA SameReports ==
  ASSUME NEW ins, NEW F
  PROVE  Attack!Report(ins, F) = Report(ins, F)
<1>1. Attack!IsSymbolized(ins) <=> IsSymbolized(ins)
  BY SameProcessing DEF Attack!IsSymbolized, IsSymbolized
<1>2. \A w : Attack!Covered(w) = Covered(w)
  BY SameOperators DEF Attack!Covered, Covered, Attack!SymView, SymView, Attack!SymBytes, SymBytes
<1>3. Attack!Candidates(ins, F) = Candidates(ins, F)
  <2>1. {f \in F : Attack!IsSymbolized(ins) /\ Attack!Processed(ins)[f].vars = Attack!Var}
          = {f \in F : IsSymbolized(ins) /\ Processed(ins)[f].vars = Var}
    BY <1>1, SameProcessing DEF Attack!Var, Var
  <2>2. Attack!Covered(Attack!FusedVarval) = Covered(FusedVarval)
    BY <1>2, SameOperators
  <2> QED BY <2>1, <2>2 DEF Attack!Candidates, Candidates
<1>4. \A c : Attack!Flips(ins, c) <=> Flips(ins, c)
  BY SameProcessing, SameOperators DEF Attack!Flips, Flips, Attack!Evaluate, Evaluate
<1> QED BY <1>3, <1>4 DEF Attack!Report, Report

\* While nothing is printed, the shared candidates stay.
LEMMA SharedKept ==
  ASSUME reported' = reported, prog' = prog PROVE Shared' = Shared
  BY DEF Shared, Code, Marker

\* The command line is accepted by both, or by none.
LEMMA LookMainIsAttackMain ==
  ASSUME LookInv, LookMain PROVE Attack!Main
<1>1. Main /\ Shared' = Shared
  BY LookMainIsMain, SharedKept DEF LookMain, outputVars, targetVars
<1> QED BY <1>1
        DEF Main, Attack!Main, ArgsAccepted, Attack!ArgsAccepted, ValidSizes, Attack!ValidSizes,
            contextVars, Attack!contextVars, outputVars, Attack!outputVars,
            targetVars, Attack!targetVars, historyVars, Attack!historyVars

\* They synchronize alike.
LEMMA SameSync ==
  ASSUME NEW groups, Sync(groups) PROVE Attack!Sync(groups)
<1>1. Attack!Stale(groups) = Stale(groups)
  BY SameOperators DEF Attack!Stale, Stale
<1> QED BY <1>1, SameOperators DEF Attack!Sync, Sync, Attack!Const, Const

\* An operand has the same size for both.
LEMMA SameCardinality == ASSUME NEW g PROVE Attack!Cardinality(g) = Cardinality(g)
  BY DEF Attack!Cardinality, Cardinality

\* A step that is taken as it is in attack_vmp.py is that step.
LEMMA SharedStepIsAttack ==
  ASSUME SharedStep PROVE [Attack!Next]_(Attack!vars)
<1>1. Shared' = Shared
  BY SharedKept
     DEF SharedStep, Untraced, Retire, NextLines, SyncMemory, SyncReg, ResultOfOnePath, Done,
         vars, outputVars, targetVars
<1>2. CASE Untraced
  <2>1. Attack!Touched(DOMAIN Code[pc].eff) = Touched(DOMAIN Code[pc].eff)
    BY DEF Attack!Touched, Touched
  <2>2. Attack!Retire(Code[pc])
    BY <1>2, SameProcessing DEF Untraced, Attack!Retire, Retire
  <2>3. Attack!Untraced
    BY <1>1, <1>2, <2>1, <2>2, SameOperators
       DEF Untraced, Attack!Untraced, outputVars, Attack!outputVars,
           scriptVars, Attack!scriptVars, contextVars, Attack!contextVars
  <2> QED BY <2>3 DEF Attack!Next
<1>3. CASE NextLines
  <2>1. Attack!Sources(Code[pc]) = Sources(Code[pc])
    BY DEF Attack!Sources, Sources
  <2>2. Attack!NextLines
    BY <1>1, <1>3, <2>1, SameOperators
       DEF NextLines, Attack!NextLines, outputVars, Attack!outputVars,
           contextVars, Attack!contextVars, targetVars, Attack!targetVars
  <2> QED BY <2>2 DEF Attack!Next
<1>4. CASE SyncMemory
  <2>1. PICK g \in todo :
          /\ todo' = LinesLeft(g)
          /\ IF Cardinality(g) \in LoggedSizes
               THEN Sync({g}) /\ UNCHANGED <<phase, outcome, stage>>
               ELSE /\ phase' = "exit" /\ outcome' = "ValueError" /\ stage' = "fetch"
                    /\ UNCHANGED contextVars
    BY <1>4 DEF SyncMemory
  <2>2. /\ todo' = Attack!LinesLeft(g)
        /\ IF Attack!Cardinality(g) \in Attack!LoggedSizes
             THEN Attack!Sync({g}) /\ UNCHANGED <<phase, outcome, stage>>
             ELSE /\ phase' = "exit" /\ outcome' = "ValueError" /\ stage' = "fetch"
                  /\ UNCHANGED Attack!contextVars
    BY <2>1, SameSync, SameCardinality
       DEF LinesLeft, Attack!LinesLeft, LoggedSizes, Attack!LoggedSizes,
           contextVars, Attack!contextVars
  <2>3. /\ stage = "mr"
        /\ UNCHANGED <<argv, execid, fuse, Attack!outputVars, Attack!targetVars, Attack!historyVars>>
    BY <1>1, <1>4 DEF SyncMemory, outputVars, Attack!outputVars, targetVars, Attack!targetVars,
                      historyVars, Attack!historyVars
  <2>4. Attack!SyncMemory
    BY <2>2, <2>3 DEF Attack!SyncMemory
  <2> QED BY <2>4 DEF Attack!Next
<1>5. CASE SyncReg
  <2>1. Attack!SyncReg
    BY <1>1, <1>5, SameSync DEF SyncReg, Attack!SyncReg, outputVars, Attack!outputVars,
       targetVars, Attack!targetVars, historyVars, Attack!historyVars
  <2> QED BY <2>1 DEF Attack!Next
<1>6. CASE ResultOfOnePath
  <2>1. Attack!ResultOfOnePath
    BY <1>1, <1>6
       DEF ResultOfOnePath, Attack!ResultOfOnePath, EndOfFile, Attack!EndOfFile,
           Eax, Attack!Eax, RunRecord, Attack!RunRecord,
           contextVars, Attack!contextVars, targetVars, Attack!targetVars
  <2> QED BY <2>1 DEF Attack!Next
<1>7. CASE Done \/ UNCHANGED vars
  BY <1>1, <1>7
     DEF Done, vars, scriptVars, contextVars, outputVars, targetVars, historyVars,
         Attack!vars, Attack!scriptVars, Attack!contextVars, Attack!outputVars,
         Attack!targetVars, Attack!historyVars
<1> QED BY <1>2, <1>3, <1>4, <1>5, <1>6, <1>7 DEF SharedStep

\* What attack_vmp.py prints for an instruction is what the branch search prints,
\* or nothing.
LEMMA SharedReport ==
  ASSUME LookInv, LookExecInstruction
  PROVE  IF Report(Code[pc], Marker(Code[pc])) # {}
           THEN \E c \in Report(Code[pc], Marker(Code[pc])) : Shared' = Shared \cup {c}
           ELSE Shared' = Shared
<1> DEFINE ins == Code[pc]
<1>1. /\ pc \in DOMAIN Code /\ prog' = prog /\ LookDetectingVjmp(ins)
  BY DEF LookExecInstruction, ProcessInstruction, Retire, LookInv, TypeOK
<1>2. Code' = Code
  BY <1>1 DEF Code
<1>3. \A k \in DOMAIN Code : Code[k].addr = ins.addr => Marker(Code[k]) = Marker(ins)
  <2> SUFFICES ASSUME NEW k \in DOMAIN Code, Code[k].addr = ins.addr
               PROVE  Marker(Code[k]) = Marker(ins)
    OBVIOUS
  <2>1. Code[k].kind = ins.kind /\ Code[k].regs = ins.regs
    BY <1>1, LookAssumption DEF Code, LookInv, TypeOK
  <2> QED BY <2>1 DEF Marker
<1>4. \A c \in LookReport(ins) : c.addr = ins.addr /\ c.flag \in LookMarker(ins)
  BY DEF LookReport, Report, Candidates
<1>5. Marker(ins) = LookMarker(ins) \/ Marker(ins) = {}
  BY DEF Marker, LookMarker
<1>6. Marker(ins) = {} => Report(ins, Marker(ins)) = {}
  BY DEF Report, Candidates
<1>7. Shared' = {c \in reported' : \E k \in DOMAIN Code :
                                    c.addr = Code[k].addr /\ c.flag \in Marker(Code[k])}
  BY <1>2 DEF Shared
<1> HIDE DEF ins
<1>8. CASE LookReport(ins) = {}
  <2>1. Shared' = Shared
    BY <1>1, <1>8, SharedKept DEF LookDetectingVjmp
  <2>2. Report(ins, Marker(ins)) = {}
    BY <1>5, <1>6, <1>8 DEF LookReport
  <2> QED BY <2>1, <2>2 DEF ins
<1>9. CASE LookReport(ins) # {}
  <2>1. PICK c \in LookReport(ins) : reported' = reported \cup {c}
    BY <1>1, <1>9 DEF LookDetectingVjmp
  <2>2. CASE Marker(ins) = LookMarker(ins)
    <3>1. Shared' = Shared \cup {c}
      BY <1>1, <1>4, <1>7, <2>1, <2>2 DEF Shared, ins
    <3> QED BY <2>2, <3>1 DEF LookReport, ins
  <2>3. CASE Marker(ins) = {}
    <3>1. Shared' = Shared
      BY <1>3, <1>4, <1>7, <2>1, <2>3 DEF Shared
    <3> QED BY <1>6, <2>3, <3>1 DEF ins
  <2> QED BY <1>5, <2>2, <2>3
<1> QED BY <1>8, <1>9

LEMMA LookExecIsAttack ==
  ASSUME LookInv, LookExecInstruction PROVE Attack!ExecInstruction
<1>1. ~Attack!TooBig
  BY NeverTooBig, SameOperators
<1>2. Attack!ProcessInstruction
  <2>1. ProcessInstruction
    BY DEF LookExecInstruction
  <2>2. Attack!Retire(Code[pc])
    BY <2>1, SameProcessing DEF ProcessInstruction, Attack!Retire, Retire
  <2> QED BY <2>1, <2>2, SameOperators, SameProcessing
          DEF ProcessInstruction, Attack!ProcessInstruction, Attack!Evaluate, Evaluate
<1>3. Attack!DetectingVjmp(Code[pc])
  <2>1. execid = 1 /\ vjmp' = vjmp
    BY DEF LookInv, OneTrace, LookExecInstruction
  <2>2. /\ Attack!Marker(Code[pc]) = Marker(Code[pc])
        /\ Attack!Report(Code[pc], Marker(Code[pc])) = Report(Code[pc], Marker(Code[pc]))
    BY SameProcessing, SameReports
  <2> QED BY <2>1, <2>2, SharedReport DEF Attack!DetectingVjmp
<1> QED BY <1>1, <1>2, <1>3, SameOperators DEF Attack!ExecInstruction

\* looking_jmp.py, on one trace, does what attack_vmp.py does with it: each of its
\* steps is a step of the first replay, which prints the candidates its own
\* markers allow, or leaves them as they are (looking_jmp.py:14-160 against
\* attack_vmp.py:16-214).
THEOREM LookingIsFirstReplay == LookSpec => FirstReplay
<1>1. LookInit => Attack!Init
  BY LookInitIsInit
<1>2. LookInv /\ [LookNext]_vars => [Attack!Next]_(Attack!vars)
  <2> SUFFICES ASSUME LookInv, [LookNext]_vars PROVE [Attack!Next]_(Attack!vars)
    OBVIOUS
  <2>1. CASE LookMain
    BY <2>1, LookMainIsAttackMain DEF Attack!Next
  <2>2. CASE LookExecInstruction
    BY <2>2, LookExecIsAttack DEF Attack!Next
  <2>3. CASE SharedStep
    BY <2>3, SharedStepIsAttack
  <2> QED BY <2>1, <2>2, <2>3 DEF LookNext, LookSyncMemory, LookSyncReg, LookEnd, SharedStep
<1> QED BY <1>1, <1>2, AlwaysLookInv, PTL DEF LookSpec, FirstReplay, Attack!Spec

=============================================================================
