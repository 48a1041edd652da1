--------------------------- MODULE AttackVmpProofs ---------------------------
(***************************************************************************)
(* Theorems about the replay of attack_vmp.py, for every set of locations, *)
(* every traced program and every command line.                            *)
(***************************************************************************)
EXTENDS AttackVmp, TLAPS

LEMMA DataBytesAreLocations == DataBytes \subseteq Loc
  BY LocAssumption DEF DataBytes

LEMMA ConstType ==
  ASSUME NEW v \in Val PROVE Const(v) \in Expr
  BY DEF Const, Expr

LEMMA SymByteType ==
  ASSUME NEW b \in DataBytes, NEW x \in Var PROVE SymByte(b, x) \in Expr
  BY DEF SymByte, Expr, Inputs

LEMMA CombineType ==
  ASSUME NEW op \in BinOp, NEW a \in Expr, NEW b \in Expr
  PROVE  Combine(op, a, b) \in Expr
<1>1. \A i \in Inputs : op[<<a.val[i], b.val[i]>>] \in Val
  BY DEF BinOp, Expr
<1>2. a.vars \cup b.vars \in SUBSET Var
  BY DEF Expr
<1> QED BY <1>1, <1>2 DEF Combine, Expr

LEMMA VarOfType == \A b : VarOf(b) \in Var
  BY DEF VarOf, Var

-----------------------------------------------------------------------------
(* What the programs' assumption says of the instruction at pc.            *)

LEMMA CodeType ==
  ASSUME TypeOK, pc # 0
  PROVE  /\ pc \in DOMAIN Code
         /\ Code[pc].addr \in Nat \ {0}
         /\ Code[pc].mem \subseteq SUBSET (Loc \ {Zero})
         /\ DOMAIN Code[pc].eff \subseteq Loc \ {Zero}
         /\ \A l \in DOMAIN Code[pc].eff : Code[pc].eff[l] \in Term
         /\ Code[pc].sel \in Loc
         /\ Code[pc].tgt \in [Val -> DOMAIN Code \cup {0}]
<1>1. WellFormedProgram(Code)
  BY AttackAssumption DEF TypeOK, Code
<1>2. pc \in DOMAIN Code
  BY DEF TypeOK
<1> QED BY <1>1, <1>2 DEF WellFormedProgram

LEMMA RealType ==
  ASSUME TypeOK PROVE Real \in [Loc -> Val]
  BY DEF TypeOK, Real

LEMMA AfterType ==
  ASSUME TypeOK, pc # 0
  PROVE  After(Code[pc]) \in [Loc -> [Inputs -> Val]]
<1> DEFINE ins == Code[pc]
<1>1. \A l \in DOMAIN ins.eff : ins.eff[l].op \in BinOp /\ ins.eff[l].a \in Loc /\ ins.eff[l].b \in Loc
  BY CodeType DEF Term
<1>2. full \in [Loc -> [Inputs -> Val]]
  BY DEF TypeOK
<1>3. ASSUME NEW l \in Loc, l \in DOMAIN ins.eff, NEW i \in Inputs
      PROVE  ins.eff[l].op[<<full[ins.eff[l].a][i], full[ins.eff[l].b][i]>>] \in Val
  BY <1>1, <1>2, <1>3 DEF BinOp
<1> QED BY <1>2, <1>3 DEF After

LEMMA FusedAstType ==
  ASSUME TypeOK PROVE FusedAst \in [Loc -> Expr]
<1>1. ast \in [Loc -> Expr]
  BY DEF TypeOK
<1>2. \A l \in DataBytes : SymByte(l, VarOf(l)) \in Expr
  BY SymByteType, VarOfType
<1>3. Const(0) \in Expr
  BY ConstType, LocAssumption
<1> QED BY <1>1, <1>2, <1>3 DEF FusedAst

LEMMA FusedVarvalType ==
  ASSUME TypeOK PROVE FusedVarval \in Inputs
  BY DataBytesAreLocations DEF TypeOK, FusedVarval, Inputs

LEMMA ProcessedType ==
  ASSUME TypeOK, pc # 0
  PROVE  Processed(Code[pc]) \in [Loc -> Expr]
<1> DEFINE ins == Code[pc]
<1>1. \A l \in DOMAIN ins.eff : ins.eff[l].op \in BinOp /\ ins.eff[l].a \in Loc /\ ins.eff[l].b \in Loc
  BY CodeType DEF Term
<1>2. FusedAst \in [Loc -> Expr]
  BY FusedAstType
<1>3. \A l \in DOMAIN ins.eff :
        Combine(ins.eff[l].op, FusedAst[ins.eff[l].a], FusedAst[ins.eff[l].b]) \in Expr
  BY <1>1, <1>2, CombineType
<1> QED BY <1>2, <1>3 DEF Processed

LEMMA EvaluateType ==
  ASSUME NEW a \in Expr, NEW w \in Inputs PROVE Evaluate(a, w) \in Val
  BY DEF Evaluate, Expr

-----------------------------------------------------------------------------
(* Type correctness, one lemma per group of actions.                       *)

LEMMA EnterType ==
  ASSUME NEW e \in Entries
  PROVE  /\ EntryInput(e) \in Inputs
         /\ EntryFull(e) \in [Loc -> [Inputs -> Val]]
<1>1. e \in [Loc -> Val]
  BY AttackAssumption
<1>2. \A l \in DataBytes : \A i \in Inputs : i[l] \in Val
  BY DEF Inputs
<1>3. EntryInput(e) \in Inputs
  BY <1>1, DataBytesAreLocations DEF EntryInput, Inputs
<1>4. EntryFull(e) \in [Loc -> [Inputs -> Val]]
  BY <1>1, <1>2 DEF EntryFull
<1> QED BY <1>3, <1>4

LEMMA InitType == Init => TypeOK
<1> SUFFICES ASSUME Init PROVE TypeOK
  OBVIOUS
<1> USE DEF Init
<1>1. PICK e \in Entries : Enter(e, in, full, peers)
  OBVIOUS
<1>2. /\ in \in Inputs /\ full \in [Loc -> [Inputs -> Val]] /\ peers \subseteq Inputs
  BY <1>1, EnterType DEF Enter
<1>3. /\ conc \in [Loc -> Val] /\ ast \in [Loc -> Expr]
      /\ varval \in Inputs /\ ret \in [RetBytes -> Expr]
  BY ConstType, LocAssumption DEF Inputs
<1>4. pc \in DOMAIN Code \cup {0}
  BY AttackAssumption DEF Code, WellFormedProgram
<1>5. fresh \subseteq Loc
  BY DataBytesAreLocations, AttackAssumption
<1>6. vjmp \in Seq(SUBSET Inputs) /\ past \in Seq(RunType)
  OBVIOUS
<1>7. fuse \in BOOLEAN /\ symvars \in BOOLEAN /\ pure \in BOOLEAN
  OBVIOUS
<1>8. /\ argv \in Argvs /\ prog \in DOMAIN Programs
      /\ phase \in {"argv", "replay", "exit"}
      /\ outcome \in {"none", "usage", "ok", "ValueError", "SymbolicEngine", "IndexError"}
      /\ execid \in {1, 2}
      /\ stage \in {"fetch", "mr", "i"} /\ todo \subseteq SUBSET (Loc \ {Zero})
      /\ reported \subseteq [addr : Nat \ {0}, flag : {Cf, Af}, model : Inputs]
      /\ (stage # "fetch" => pc # 0)
  OBVIOUS
<1> QED BY <1>2, <1>3, <1>4, <1>5, <1>6, <1>7, <1>8 DEF TypeOK

LEMMA RetireType ==
  ASSUME TypeOK, pc # 0, Retire(Code[pc])
  PROVE  /\ full' \in [Loc -> [Inputs -> Val]]
         /\ peers' \subseteq Inputs
         /\ pc' \in DOMAIN Code \cup {0}
         /\ Code' = Code /\ in' = in
<1>1. After(Code[pc])[Code[pc].sel][in] \in Val
  BY AfterType, CodeType DEF TypeOK
<1>2. pc' \in DOMAIN Code \cup {0}
  BY <1>1, CodeType DEF Retire
<1> QED BY <1>2, AfterType DEF Retire, Code, TypeOK

LEMMA SyncType ==
  ASSUME TypeOK, NEW groups, Sync(groups)
  PROVE  /\ conc' \in [Loc -> Val] /\ ast' \in [Loc -> Expr]
         /\ varval' \in Inputs /\ symvars' \in BOOLEAN
<1>1. \A l \in Loc : Const(Real[l]) \in Expr
  BY RealType, ConstType
<1> QED BY <1>1, RealType DEF Sync, TypeOK

LEMMA ReportType ==
  ASSUME TypeOK, pc # 0
  PROVE  Candidates(Code[pc], Marker(Code[pc])) \subseteq [addr : Nat \ {0}, flag : {Cf, Af}, model : Inputs]
<1>1. Marker(Code[pc]) \subseteq {Cf, Af}
  BY DEF Marker
<1>2. Code[pc].addr \in Nat \ {0}
  BY CodeType
<1> QED BY <1>1, <1>2 DEF Candidates, Covered

LEMMA ProcessType ==
  ASSUME TypeOK, ProcessInstruction, pc # 0,
         reported' \subseteq [addr : Nat \ {0}, flag : {Cf, Af}, model : Inputs],
         vjmp' \in Seq(SUBSET Inputs)
  PROVE  TypeOK'
<1>1. ast' \in [Loc -> Expr]
  BY ProcessedType DEF ProcessInstruction
<1>2. varval' \in Inputs
  BY FusedVarvalType DEF ProcessInstruction
<1>3. conc' \in [Loc -> Val]
  <2>1. \A l \in Loc : Evaluate(Processed(Code[pc])[l], FusedVarval) \in Val
    BY ProcessedType, FusedVarvalType, EvaluateType
  <2> QED BY <2>1 DEF ProcessInstruction, TypeOK
<1>4. /\ full' \in [Loc -> [Inputs -> Val]] /\ peers' \subseteq Inputs
      /\ pc' \in DOMAIN Code \cup {0} /\ Code' = Code /\ in' = in
  BY RetireType DEF ProcessInstruction
<1>5. fresh' \subseteq Loc
  BY CodeType DEF ProcessInstruction, TypeOK
<1> QED
  BY <1>1, <1>2, <1>3, <1>4, <1>5 DEF ProcessInstruction, TypeOK, Retire

LEMMA ExecType ==
  ASSUME TypeOK, ExecInstruction, pc # 0 PROVE TypeOK'
<1>1. reported' \subseteq [addr : Nat \ {0}, flag : {Cf, Af}, model : Inputs]
  BY ReportType DEF ExecInstruction, DetectingVjmp, Report, TypeOK
<1>2. vjmp' \in Seq(SUBSET Inputs)
  <2>1. Condition(Code[pc]) \in SUBSET Inputs
    BY DEF Condition
  <2> QED BY <2>1 DEF ExecInstruction, DetectingVjmp, TypeOK
<1> QED BY <1>1, <1>2, ProcessType DEF ExecInstruction

LEMMA TypeStep ==
  ASSUME TypeOK, [Next]_vars PROVE TypeOK'
<1>1. CASE Main
  BY <1>1 DEF Main, TypeOK, Code, contextVars, outputVars, targetVars, historyVars
<1>2. CASE Untraced
  <2>1. pc # 0 /\ Retire(Code[pc])
    BY <1>2 DEF Untraced
  <2>2. /\ full' \in [Loc -> [Inputs -> Val]] /\ peers' \subseteq Inputs
        /\ pc' \in DOMAIN Code \cup {0} /\ Code' = Code /\ in' = in
    BY <2>1, RetireType
  <2> QED BY <1>2, <2>2
          DEF Untraced, Retire, TypeOK, scriptVars, contextVars, outputVars
<1>3. CASE NextLines
  BY <1>3, CodeType DEF NextLines, TypeOK, Code, contextVars, outputVars, targetVars
<1>4. CASE SyncMemory
  <2>1. /\ conc' \in [Loc -> Val] /\ ast' \in [Loc -> Expr]
        /\ varval' \in Inputs /\ symvars' \in BOOLEAN
    <3>1. PICK g \in todo : Sync({g}) \/ UNCHANGED contextVars
      BY <1>4 DEF SyncMemory, LinesLeft
    <3>2. CASE Sync({g})
      BY <3>2, SyncType
    <3>3. CASE UNCHANGED contextVars
      BY <3>3 DEF TypeOK, contextVars
    <3> QED BY <3>1, <3>2, <3>3
  <2>2. /\ phase' \in {"argv", "replay", "exit"} /\ stage' \in {"fetch", "mr", "i"}
        /\ outcome' \in {"none", "usage", "ok", "ValueError", "SymbolicEngine", "IndexError"}
        /\ todo' \subseteq SUBSET (Loc \ {Zero}) /\ (stage' # "fetch" => pc # 0)
    BY <1>4 DEF SyncMemory, LinesLeft, TypeOK
  <2> QED BY <1>4, <2>1, <2>2
          DEF SyncMemory, LinesLeft, TypeOK, Code, outputVars, targetVars, historyVars
<1>5. CASE SyncReg
  <2>1. /\ conc' \in [Loc -> Val] /\ ast' \in [Loc -> Expr]
        /\ varval' \in Inputs /\ symvars' \in BOOLEAN
    BY <1>5, SyncType DEF SyncReg
  <2> QED BY <1>5, <2>1
          DEF SyncReg, TypeOK, Code, outputVars, targetVars, historyVars
<1>6. CASE ExecInstruction
  BY <1>6, ExecType DEF ExecInstruction, ProcessInstruction, TypeOK
<1>7. CASE ExecFails
  BY <1>7 DEF ExecFails, TypeOK, Code, contextVars, outputVars, targetVars, historyVars
<1>8. Eax \in [RetBytes -> Expr] /\ RunRecord \in RunType
  BY AttackAssumption DEF TypeOK, Eax, RunRecord, RunType
<1>9. CASE ResultOfOnePath
  BY <1>8, <1>9 DEF ResultOfOnePath, TypeOK, Code, contextVars, targetVars
<1>10. CASE StartSecondPath
  <2>1. PICK e \in Entries : Enter(e, in', full', peers')
    BY <1>10 DEF StartSecondPath
  <2>2. /\ in' \in Inputs /\ full' \in [Loc -> [Inputs -> Val]] /\ peers' \subseteq Inputs
    BY <2>1, EnterType DEF Enter
  <2>3. 1 \in DOMAIN Code
    BY AttackAssumption DEF TypeOK, Code, WellFormedProgram
  <2>4. fresh' \subseteq Loc
    BY <1>10, DataBytesAreLocations, AttackAssumption DEF StartSecondPath
  <2> QED BY <1>8, <1>10, <2>2, <2>3, <2>4
          DEF StartSecondPath, TypeOK, Code, contextVars
<1>11. CASE MergePaths
  <2>1. \A c : \A a \in Expr, b \in Expr : Ite(c, a, b) \in Expr
    BY DEF Ite, Expr, Var
  <2>2. ret' \in [RetBytes -> Expr]
    BY <1>11, <2>1, AttackAssumption DEF MergePaths, TypeOK
  <2> QED BY <1>8, <1>11, <2>2 DEF MergePaths, TypeOK, Code, contextVars, targetVars
<1>12. CASE UNCHANGED vars
  BY <1>12 DEF TypeOK, Code, vars, scriptVars, contextVars, outputVars, targetVars,
               historyVars
<1>13. CASE Done
  BY <1>12, <1>13 DEF Done
<1> QED BY <1>1, <1>2, <1>3, <1>4, <1>5, <1>6, <1>7, <1>9, <1>10, <1>11, <1>12, <1>13
        DEF Next

\* In every reachable state every variable has its type (attack_vmp.py as a
\* whole): in particular the candidates printed by detecting_vjmp name the
\* carry or the auxiliary carry flag, and a line is being treated only inside
\* the traced program.
THEOREM TypeCorrect == Spec => []TypeOK
<1>1. Init => TypeOK
  BY InitType
<1>2. TypeOK /\ [Next]_vars => TypeOK'
  BY TypeStep
<1> QED BY <1>1, <1>2, PTL DEF Spec

-----------------------------------------------------------------------------
(* Synchronization.                                                        *)

\* The concrete view agrees with the traced process on the bytes of g.
SyncedOn(g) == \A b \in g : conc[b] = Real[b]

\* While the lines of an instruction are read, the operands already treated
\* stay synchronized.
SyncInv ==
  /\ stage = "mr" => /\ todo \subseteq Code[pc].mem
                     /\ \A g \in Code[pc].mem \ todo : SyncedOn(g)
  /\ SyncedBeforeExec

\* Sync(groups) synchronizes those groups and undoes no other.
LEMMA SyncSynchronizes ==
  ASSUME TypeOK, NEW groups \in SUBSET SUBSET Loc, Sync(groups), UNCHANGED targetVars
  PROVE  /\ \A g \in groups : SyncedOn(g)'
         /\ \A g \in SUBSET Loc : SyncedOn(g) => SyncedOn(g)'
<1>1. Real' = Real
  BY DEF Real, targetVars
<1>2. \A b \in Loc : conc'[b] = IF b \in Stale(groups) THEN Real[b] ELSE conc[b]
  BY DEF Sync
<1>3. ASSUME NEW g \in groups, NEW b \in g PROVE conc'[b] = Real[b]
  BY <1>2 DEF Stale
<1> QED BY <1>1, <1>2, <1>3 DEF SyncedOn

LEMMA SyncedStep ==
  ASSUME TypeOK, SyncInv, [Next]_vars PROVE SyncInv'
<1>1. CASE Main
  BY <1>1 DEF Main, SyncInv, SyncedBeforeExec, SyncedOn, Real, Code, contextVars, targetVars
<1>2. CASE NextLines
  BY <1>2 DEF NextLines, SyncInv, SyncedBeforeExec, Code, targetVars
<1>3. CASE SyncMemory
  <2>1. PICK g \in todo :
          /\ todo' = todo \ {g}
          /\ \/ Sync({g}) /\ UNCHANGED <<phase, outcome, stage>>
             \/ stage' = "fetch"
    BY <1>3 DEF SyncMemory, LinesLeft
  <2>2. CASE stage' = "fetch"
    BY <2>2 DEF SyncInv, SyncedBeforeExec
  <2>3. CASE Sync({g}) /\ UNCHANGED <<phase, outcome, stage>>
    <3>1. stage = "mr" /\ stage' = "mr" /\ UNCHANGED targetVars /\ Code' = Code /\ pc' = pc
      BY <1>3, <2>3 DEF SyncMemory, LinesLeft, targetVars, Code
    <3>2. g \in SUBSET Loc /\ Code[pc].mem \subseteq SUBSET Loc
      BY <3>1, CodeType DEF TypeOK
    <3>3. SyncedOn(g)' /\ \A h \in SUBSET Loc : SyncedOn(h) => SyncedOn(h)'
      BY <2>3, <3>1, <3>2, SyncSynchronizes
    <3>4. ASSUME NEW h \in Code[pc].mem \ todo' PROVE SyncedOn(h)'
      BY <2>1, <3>1, <3>2, <3>3 DEF SyncInv
    <3> QED BY <2>1, <3>1, <3>4 DEF SyncInv, SyncedBeforeExec
  <2> QED BY <2>1, <2>2, <2>3
<1>4. CASE SyncReg
  <2>1. /\ stage = "mr" /\ todo = {} /\ stage' = "i" /\ Sync(Gpr)
        /\ UNCHANGED targetVars /\ Code' = Code /\ pc' = pc
    BY <1>4 DEF SyncReg, targetVars, Code
  <2>2. Gpr \in SUBSET SUBSET Loc /\ Code[pc].mem \subseteq SUBSET Loc
    BY <2>1, AttackAssumption, CodeType DEF TypeOK
  <2>3. \A g \in Gpr \cup Code[pc].mem : SyncedOn(g)'
    BY <2>1, <2>2, SyncSynchronizes DEF SyncInv
  <2> QED BY <2>1, <2>3 DEF SyncInv, SyncedBeforeExec, SyncedOn
<1>5. CASE ExecInstruction \/ ExecFails
  BY <1>5 DEF ExecInstruction, ProcessInstruction, ExecFails, SyncInv, SyncedBeforeExec
<1>6. CASE Untraced \/ ResultOfOnePath \/ StartSecondPath \/ MergePaths
  BY <1>6 DEF Untraced, ResultOfOnePath, StartSecondPath, MergePaths, EndOfFile,
              scriptVars, SyncInv, SyncedBeforeExec
<1>7. CASE UNCHANGED vars
  BY <1>7 DEF SyncInv, SyncedBeforeExec, SyncedOn, Real, Code, vars, scriptVars,
              contextVars, targetVars
<1>8. CASE Done
  BY <1>7, <1>8 DEF Done
<1> QED BY <1>1, <1>2, <1>3, <1>4, <1>5, <1>6, <1>7, <1>8 DEF Next

LEMMA SyncedSoFar == Spec => []SyncInv
<1>1. Init => SyncInv
  BY DEF Init, SyncInv, SyncedBeforeExec
<1>2. TypeOK /\ SyncInv /\ [Next]_vars => SyncInv'
  BY SyncedStep
<1> QED BY <1>1, <1>2, TypeCorrect, PTL DEF Spec

\* Before an instruction is processed, the registers and the memory it reads
\* are the recorded ones (sync_reg and sync_memory, lines 16-49), in either
\* trace and whatever was not recorded.
THEOREM Synchronized == Spec => []SyncedBeforeExec
<1>1. SyncInv => SyncedBeforeExec
  BY DEF SyncInv
<1> QED BY <1>1, SyncedSoFar, PTL

-----------------------------------------------------------------------------
(* The two views of the context.                                           *)

\* Before any variable exists every AST is the constant the concrete view
\* holds; in the first trace the variables exist once the fuse is burned.
Coherent ==
  /\ ~symvars => \A l \in Loc : \A i \in Inputs : ast[l].val[i] = conc[l]
  /\ execid = 1 => symvars = ~fuse
  /\ FirstRunCoherent

LEMMA ConstEvaluates ==
  ASSUME NEW v, NEW i \in Inputs PROVE Const(v).val[i] = v
  BY DEF Const

LEMMA SymByteEvaluates ==
  ASSUME NEW b \in DataBytes, NEW x, NEW i \in Inputs PROVE SymByte(b, x).val[i] = i[b]
  BY DEF SymByte

\* Setting a concrete value sets the AST with it.
LEMMA SyncCoherent ==
  ASSUME TypeOK, Coherent, NEW groups, Sync(groups), UNCHANGED <<execid, fuse>>
  PROVE  Coherent'
<1>1. \A l \in Loc : \/ conc'[l] = conc[l] /\ ast'[l] = ast[l]
                     \/ conc'[l] = Real[l] /\ ast'[l] = Const(Real[l])
  BY DEF Sync
<1>2. varval' = varval /\ symvars' = symvars /\ varval \in Inputs
  BY DEF Sync, TypeOK
<1> QED BY <1>1, <1>2, ConstEvaluates DEF Coherent, FirstRunCoherent, Evaluate

\* Symbolizing the arguments does not change what the ASTs evaluate to.
LEMMA FusedCoherent ==
  ASSUME TypeOK, Coherent, execid = 1, NEW l \in Loc
  PROVE  Evaluate(FusedAst[l], FusedVarval) = conc[l]
<1>1. FusedVarval \in Inputs
  BY FusedVarvalType
<1>2. CASE ~fuse
  BY <1>2 DEF FusedAst, FusedVarval, Coherent, FirstRunCoherent
<1>3. CASE fuse /\ l \in DataBytes /\ l \in SymView
  <2>1. FusedAst[l] = SymByte(l, VarOf(l))
    BY <1>3 DEF FusedAst
  <2>2. FusedVarval[l] = conc[l]
    BY <1>3 DEF FusedVarval
  <2> QED BY <1>1, <1>3, <2>1, <2>2, SymByteEvaluates DEF Evaluate
<1>4. CASE fuse /\ ~(l \in DataBytes /\ l \in SymView)
  <2>1. ~symvars
    BY <1>4 DEF Coherent
  <2>2. FusedAst[l] = ast[l]
    BY <1>4, <2>1 DEF FusedAst
  <2> QED BY <1>1, <2>1, <2>2 DEF Coherent, Evaluate
<1> QED BY <1>2, <1>3, <1>4 DEF TypeOK

LEMMA ProcessCoherent ==
  ASSUME TypeOK, Coherent, ProcessInstruction PROVE Coherent'
<1>1. symvars' = TRUE /\ fuse' = FALSE /\ execid' = execid /\ varval' = FusedVarval
  BY DEF ProcessInstruction
<1>2. ASSUME execid = 1, NEW l \in Loc PROVE Evaluate(ast'[l], varval') = conc'[l]
  <2>1. CASE l \in DOMAIN Code[pc].eff
    BY <1>1, <2>1 DEF ProcessInstruction
  <2>2. CASE l \notin DOMAIN Code[pc].eff
    BY <1>1, <1>2, <2>2, FusedCoherent DEF ProcessInstruction, Processed
  <2> QED BY <2>1, <2>2
<1> QED BY <1>1, <1>2 DEF Coherent, FirstRunCoherent

LEMMA CoherentStep ==
  ASSUME TypeOK, Coherent, [Next]_vars PROVE Coherent'
<1>1. CASE UNCHANGED <<execid, fuse, contextVars>>
  BY <1>1 DEF contextVars, Coherent, FirstRunCoherent, Evaluate
<1>2. CASE Main \/ Untraced \/ NextLines \/ ExecFails \/ ResultOfOnePath \/ MergePaths
           \/ Done \/ UNCHANGED vars
  BY <1>1, <1>2 DEF Main, Untraced, NextLines, ExecFails, ResultOfOnePath, MergePaths,
                    Done, vars, scriptVars
<1>3. CASE SyncMemory
  <2>1. PICK g \in todo : Sync({g}) \/ UNCHANGED contextVars
    BY <1>3 DEF SyncMemory, LinesLeft
  <2>2. UNCHANGED <<execid, fuse>>
    BY <1>3 DEF SyncMemory, LinesLeft
  <2> QED BY <1>1, <2>1, <2>2, SyncCoherent
<1>4. CASE SyncReg
  BY <1>4, SyncCoherent DEF SyncReg
<1>5. CASE ExecInstruction
  BY <1>5, ProcessCoherent DEF ExecInstruction
<1>6. CASE StartSecondPath
  BY <1>6 DEF StartSecondPath, Coherent, FirstRunCoherent, contextVars
<1> QED BY <1>2, <1>3, <1>4, <1>5, <1>6 DEF Next

LEMMA ContextCoherent == Spec => []Coherent
<1>1. Init => Coherent
  <2> SUFFICES ASSUME Init PROVE Coherent
    OBVIOUS
  <2>1. varval \in Inputs
    BY InitType DEF TypeOK
  <2> QED BY <2>1, ConstEvaluates DEF Init, Coherent, FirstRunCoherent, Evaluate
<1>2. TypeOK /\ Coherent /\ [Next]_vars => Coherent'
  BY CoherentStep
<1> QED BY <1>1, <1>2, TypeCorrect, PTL DEF Spec

\* During the first trace no AST disagrees with the concrete value of its byte
\* (sync_reg, sync_memory and exec_instruction together): the return value
\* printed for a single trace is the concrete one.
THEOREM FirstRunIsCoherent == Spec => []FirstRunCoherent
<1>1. Coherent => FirstRunCoherent
  BY DEF Coherent
<1> QED BY <1>1, ContextCoherent, PTL

-----------------------------------------------------------------------------
(* The path expression.                                                    *)

\* The recorded run is on its own path.
OnPath == in \in peers

\* The zero location is zero everywhere.
ZeroInv ==
  /\ conc[Zero] = 0
  /\ \A i \in Inputs : full[Zero][i] = 0 /\ ast[Zero].val[i] = 0

\* A run that is pure before its first recorded instruction has done nothing.
AtEntry ==
  fuse /\ pure =>
    /\ pc # 0 /\ fresh = DataBytes \cup {Zero}
    /\ \A b \in DataBytes : \A i \in Inputs : full[b][i] = i[b]

\* The instruction being replayed reads what the run has written.
ReadsFresh == stage # "fetch" /\ pure => pc # 0 /\ Sources(Code[pc]) \subseteq fresh

\* The concrete view never lags behind on what a pure run has written, so no
\* operand that holds it is ever overwritten by a synchronization.
NotStale ==
  pure /\ ~fuse =>
    /\ varval = in
    /\ \A l \in fresh : conc[l] = Real[l]
    /\ \A g \in Gpr : g \cap fresh # {} => SyncedOn(g)

FaithInv == OnPath /\ ZeroInv /\ AtEntry /\ ReadsFresh /\ NotStale /\ PathFaithful

LEMMA ZeroIsNoArgument == Zero \notin DataBytes
  BY AttackAssumption

LEMMA EntryFacts ==
  ASSUME NEW e \in Entries
  PROVE  /\ EntryInput(e) \in Inputs
         /\ \A i \in Inputs : EntryFull(e)[Zero][i] = 0
         /\ \A b \in DataBytes : \A i \in Inputs : EntryFull(e)[b][i] = i[b]
<1>1. EntryInput(e) \in Inputs
  BY EnterType
<1>2. e[Zero] = 0 /\ Zero \in Loc
  BY AttackAssumption
<1> QED BY <1>1, <1>2, ZeroIsNoArgument, DataBytesAreLocations DEF EntryFull

\* The traced process stays on its own path, which can only get narrower, and
\* changes only what the instruction assigns.
LEMMA RetireFacts ==
  ASSUME TypeOK, OnPath, ZeroInv, pc # 0, Retire(Code[pc])
  PROVE  /\ OnPath' /\ in' = in /\ peers' \subseteq peers
         /\ \A i \in Inputs : full'[Zero][i] = 0
         /\ \A l \in Loc \ DOMAIN Code[pc].eff : full'[l] = full[l] /\ Real'[l] = Real[l]
<1>1. in' = in /\ peers' \subseteq peers /\ in \in peers'
  BY DEF Retire, OnPath
<1>2. OnPath'
  BY <1>1 DEF OnPath
<1>3. \A l \in Loc \ DOMAIN Code[pc].eff : full'[l] = full[l]
  BY DEF Retire, After
<1>4. \A l \in Loc \ DOMAIN Code[pc].eff : Real'[l] = Real[l]
  BY <1>1, <1>3 DEF Real
<1>5. Zero \in Loc \ DOMAIN Code[pc].eff
  BY AttackAssumption, CodeType
<1>6. \A i \in Inputs : full'[Zero][i] = 0
  BY <1>3, <1>5 DEF ZeroInv
<1> QED BY <1>1, <1>2, <1>3, <1>4, <1>6

\* Synchronizing operands that are not behind on what the run wrote keeps it.
LEMMA SyncFaithful ==
  ASSUME TypeOK, FaithInv, NEW groups \in SUBSET SUBSET (Loc \ {Zero}), Sync(groups),
         UNCHANGED <<argv, fuse, targetVars, fresh, pure>>,
         pure /\ ~fuse =>
           \A g \in groups : g \cap fresh # {} => SyncedOn(g)
  PROVE  OnPath' /\ ZeroInv' /\ AtEntry' /\ NotStale' /\ PathFaithful'
<1> USE DEF FaithInv
<1>1. /\ Real' = Real /\ Code' = Code /\ Covered(in)' = Covered(in)
      /\ varval' = varval /\ in' = in /\ peers' = peers /\ pc' = pc /\ full' = full
  BY DEF Real, Code, Covered, SymView, Sync, targetVars
<1>2. \A l \in Loc \ Stale(groups) : conc'[l] = conc[l] /\ ast'[l] = ast[l]
  BY DEF Sync
<1>3. Zero \in Loc \ Stale(groups)
  BY AttackAssumption DEF Stale
<1>4. ASSUME pure, ~fuse PROVE fresh \subseteq Loc \ Stale(groups)
  BY <1>4 DEF Stale, SyncedOn, TypeOK
<1>5. \A g \in SUBSET Loc : SyncedOn(g) => SyncedOn(g)'
  BY SyncSynchronizes
<1>6. OnPath'
  BY <1>1 DEF OnPath
<1>7. ZeroInv'
  BY <1>1, <1>2, <1>3 DEF ZeroInv
<1>8. AtEntry'
  BY <1>1 DEF AtEntry
<1>9. NotStale'
  <2> SUFFICES ASSUME pure, ~fuse
               PROVE  /\ varval = in
                      /\ \A l \in fresh : conc'[l] = Real[l]
                      /\ \A g \in Gpr : g \cap fresh # {} => SyncedOn(g)'
    BY <1>1 DEF NotStale
  <2>1. \A l \in fresh : conc'[l] = Real[l]
    BY <1>2, <1>4 DEF NotStale
  <2>2. \A g \in Gpr : g \cap fresh # {} => SyncedOn(g)'
    BY <1>5, AttackAssumption DEF NotStale
  <2> QED BY <2>1, <2>2 DEF NotStale
<1>10. PathFaithful'
  BY <1>1, <1>2, <1>4 DEF PathFaithful
<1> QED BY <1>6, <1>7, <1>8, <1>9, <1>10

LEMMA CombineEvaluates ==
  ASSUME NEW op, NEW a, NEW b, NEW i \in Inputs
  PROVE  Combine(op, a, b).val[i] = op[<<a.val[i], b.val[i]>>]
  BY DEF Combine

LEMMA OperandsAreSources ==
  ASSUME NEW ins, NEW l \in DOMAIN ins.eff
  PROVE  ins.eff[l].a \in Sources(ins) /\ ins.eff[l].b \in Sources(ins)
  BY DEF Sources

\* When the fuse burns the variables stand for the arguments, and every byte the
\* run may read evaluates, on every input of the path, to what it holds there.
LEMMA FusedFaithful ==
  ASSUME TypeOK, Coherent, FaithInv, SyncedBeforeExec, stage = "i", ~TooBig, pure
  PROVE  /\ FusedVarval = in
         /\ \A l \in fresh : \A i \in peers \cap Covered(in) : FusedAst[l].val[i] = full[l][i]
<1> USE DEF FaithInv
<1>1. CASE ~fuse
  BY <1>1 DEF FusedVarval, FusedAst, NotStale, PathFaithful, TypeOK
<1>2. CASE fuse
  <2>1. /\ fresh = DataBytes \cup {Zero}
        /\ \A b \in DataBytes : \A i \in Inputs : full[b][i] = i[b]
    BY <1>2 DEF AtEntry
  <2>2. \A b \in DataBytes : conc[b] = in[b]
    <3>1. \A b \in DataBytes : conc[b] = Real[b]
      BY AttackAssumption DEF SyncedBeforeExec
    <3>2. \A b \in DataBytes : Real[b] = full[b][in]
      BY DataBytesAreLocations DEF Real
    <3> QED BY <2>1, <3>1, <3>2 DEF TypeOK
  <2>3. FusedVarval = in
    BY <1>2, <2>2 DEF FusedVarval, TypeOK, Inputs
  <2>4. ASSUME NEW l \in DataBytes, NEW i \in peers \cap Covered(in) PROVE FusedAst[l].val[i] = full[l][i]
    <3>1. i \in Inputs /\ l \in Loc
      BY DataBytesAreLocations DEF TypeOK
    <3>2. CASE l \in SymView
      BY <1>2, <2>1, <3>1, <3>2, SymByteEvaluates DEF FusedAst
    <3>3. CASE l \notin SymView
      <4>1. i[l] = in[l]
        BY <3>3 DEF Covered
      <4>2. CASE symvars
        <5>1. FusedAst[l] = Const(0)
          BY <1>2, <3>1, <3>3, <4>2 DEF FusedAst
        <5>2. conc[l] = 0
          BY <1>2, <3>3, <4>2 DEF TooBig
        <5> QED BY <2>1, <2>2, <3>1, <4>1, <5>1, <5>2, ConstEvaluates
      <4>3. CASE ~symvars
        <5>1. FusedAst[l] = ast[l]
          BY <1>2, <3>1, <3>3, <4>3 DEF FusedAst
        <5> QED BY <2>1, <2>2, <3>1, <4>1, <4>3, <5>1 DEF Coherent
      <4> QED BY <4>2, <4>3
    <3> QED BY <3>2, <3>3
  <2>5. ASSUME NEW i \in peers \cap Covered(in) PROVE FusedAst[Zero].val[i] = full[Zero][i]
    <3>1. i \in Inputs
      BY DEF TypeOK
    <3>2. FusedAst[Zero] = ast[Zero]
      BY ZeroIsNoArgument, AttackAssumption DEF FusedAst
    <3> QED BY <3>1, <3>2 DEF ZeroInv
  <2> QED BY <2>1, <2>3, <2>4, <2>5
<1> QED BY <1>1, <1>2 DEF TypeOK

LEMMA ProcessFaithful ==
  ASSUME TypeOK, Coherent, FaithInv, SyncedBeforeExec, ~TooBig, ProcessInstruction
  PROVE  FaithInv'
<1> DEFINE ins == Code[pc]
           eff == ins.eff
<1>1. /\ pc # 0 /\ stage = "i" /\ ~TooBig /\ Retire(ins) /\ fuse' = FALSE
      /\ pure' = pure /\ stage' = "fetch" /\ fresh' = fresh \cup DOMAIN eff
      /\ argv' = argv /\ varval' = FusedVarval /\ ast' = Processed(ins)
  BY DEF ProcessInstruction, TypeOK
<1>2. /\ OnPath' /\ in' = in /\ peers' \subseteq peers
      /\ \A i \in Inputs : full'[Zero][i] = 0
      /\ \A l \in Loc \ DOMAIN eff : full'[l] = full[l] /\ Real'[l] = Real[l]
  BY <1>1, RetireFacts DEF FaithInv
<1>3. \A l \in Loc \ DOMAIN eff : conc'[l] = conc[l] /\ ast'[l] = FusedAst[l]
  BY <1>1 DEF ProcessInstruction, Processed
<1>4. ZeroInv'
  <2>1. Zero \in Loc \ DOMAIN eff
    BY <1>1, AttackAssumption, CodeType
  <2>2. FusedAst[Zero] = ast[Zero]
    BY ZeroIsNoArgument, AttackAssumption DEF FusedAst
  <2> QED BY <1>2, <1>3, <2>1, <2>2 DEF ZeroInv, FaithInv
<1>5. AtEntry' /\ ReadsFresh'
  BY <1>1 DEF AtEntry, ReadsFresh
<1>6. ASSUME pure
      PROVE  /\ FusedVarval = in
             /\ \A l \in fresh' : \A i \in peers \cap Covered(in) : ast'[l].val[i] = full'[l][i]
  <2>1. /\ FusedVarval = in
        /\ \A l \in fresh : \A i \in peers \cap Covered(in) : FusedAst[l].val[i] = full[l][i]
    BY <1>1, <1>6, FusedFaithful
  <2>2. fresh \subseteq Loc /\ DOMAIN eff \subseteq Loc /\ peers \subseteq Inputs
    BY <1>1, CodeType DEF TypeOK
  <2>3. ASSUME NEW l \in fresh \ DOMAIN eff, NEW i \in peers \cap Covered(in)
        PROVE  ast'[l].val[i] = full'[l][i]
    BY <1>2, <1>3, <2>1, <2>2
  <2>4. ASSUME NEW l \in DOMAIN eff, NEW i \in peers \cap Covered(in) PROVE ast'[l].val[i] = full'[l][i]
    <3>1. eff[l].a \in fresh /\ eff[l].b \in fresh
      BY <1>1, <1>6, OperandsAreSources DEF FaithInv, ReadsFresh
    <3>2. ast'[l] = Combine(eff[l].op, FusedAst[eff[l].a], FusedAst[eff[l].b])
      BY <1>1, <2>2 DEF Processed
    <3>3. ast'[l].val[i] = eff[l].op[<<FusedAst[eff[l].a].val[i], FusedAst[eff[l].b].val[i]>>]
      <4>1. i \in Inputs
        BY <2>2
      <4>2. Combine(eff[l].op, FusedAst[eff[l].a], FusedAst[eff[l].b]).val[i]
              = eff[l].op[<<FusedAst[eff[l].a].val[i], FusedAst[eff[l].b].val[i]>>]
        BY <4>1 DEF Combine
      <4> HIDE DEF ins, eff
      <4> QED BY ONLY <3>2, <4>2
    <3>4. full'[l][i] = eff[l].op[<<full[eff[l].a][i], full[eff[l].b][i]>>]
      BY <1>1, <2>2 DEF Retire, After
    <3> QED BY <2>1, <3>1, <3>3, <3>4
  <2> QED BY <1>1, <2>1, <2>2, <2>3, <2>4
<1>7. Covered(in)' = Covered(in) /\ in \in Covered(in)
  BY <1>1, <1>2 DEF Covered, SymView, TypeOK
<1>8. PathFaithful'
  BY <1>1, <1>2, <1>6, <1>7 DEF PathFaithful
<1>9. NotStale'
  <2> SUFFICES ASSUME pure
               PROVE  /\ varval' = in'
                      /\ \A l \in fresh' : conc'[l] = Real'[l]
                      /\ \A g \in Gpr : g \cap fresh' # {} => SyncedOn(g)'
    BY <1>1 DEF NotStale
  <2>1. in \in peers /\ in \in Inputs /\ fresh \subseteq Loc /\ DOMAIN eff \subseteq Loc
    BY <1>1, CodeType DEF FaithInv, OnPath, TypeOK
  <2>2. ASSUME NEW l \in DOMAIN eff PROVE conc'[l] = Real'[l]
    <3>1. conc'[l] = ast'[l].val[in]
      BY <1>1, <1>6, <2>1 DEF ProcessInstruction, Evaluate
    <3>2. Real'[l] = full'[l][in]
      BY <1>2, <2>1 DEF Real
    <3> QED BY <1>1, <1>6, <1>7, <2>1, <3>1, <3>2
  <2>3. \A g \in Gpr : SyncedOn(g)'
    <3>1. \A g \in Gpr : \A b \in g : b \in Loc /\ conc[b] = Real[b]
      BY <1>1, AttackAssumption DEF SyncedBeforeExec
    <3> QED BY <1>2, <1>3, <2>2, <3>1 DEF SyncedOn
  <2>4. ASSUME NEW l \in fresh \ DOMAIN eff PROVE conc'[l] = Real'[l]
    <3>1. conc[l] = Real[l]
      <4>1. CASE ~fuse
        BY <4>1 DEF FaithInv, NotStale
      <4>2. CASE fuse
        <5>1. l \in DataBytes \/ l = Zero
          BY <4>2 DEF FaithInv, AtEntry
        <5>2. ASSUME l \in DataBytes PROVE conc[l] = Real[l]
          BY <1>1, <5>2, AttackAssumption DEF SyncedBeforeExec
        <5>3. ASSUME l = Zero PROVE conc[l] = Real[l]
          BY <2>1, <5>3, AttackAssumption DEF FaithInv, ZeroInv, Real
        <5> QED BY <5>1, <5>2, <5>3
      <4> QED BY <4>1, <4>2 DEF TypeOK
    <3> QED BY <1>2, <1>3, <2>1, <3>1
  <2> QED BY <1>1, <1>2, <1>6, <2>2, <2>3, <2>4
<1> QED BY <1>2, <1>4, <1>5, <1>8, <1>9 DEF FaithInv

LEMMA UntracedFaithful ==
  ASSUME TypeOK, FaithInv, Untraced PROVE FaithInv'
<1> DEFINE D == DOMAIN Code[pc].eff
<1>1. /\ pc # 0 /\ stage = "fetch" /\ Retire(Code[pc])
      /\ fresh' = fresh \ Touched(D) /\ pure' = (pure /\ ~fuse)
      /\ fuse' = fuse /\ stage' = stage /\ argv' = argv
      /\ conc' = conc /\ ast' = ast /\ varval' = varval
  BY DEF Untraced, scriptVars, contextVars
<1>2. /\ OnPath' /\ in' = in /\ peers' \subseteq peers
      /\ \A i \in Inputs : full'[Zero][i] = 0
      /\ \A l \in Loc \ D : full'[l] = full[l] /\ Real'[l] = Real[l]
  BY <1>1, RetireFacts DEF FaithInv
<1>3. ZeroInv'
  BY <1>1, <1>2 DEF ZeroInv, FaithInv
<1>4. AtEntry' /\ ReadsFresh'
  BY <1>1 DEF AtEntry, ReadsFresh
<1>5. fresh' \subseteq fresh /\ fresh' \cap D = {} /\ fresh \subseteq Loc
  BY <1>1 DEF Touched, TypeOK
<1>6. ASSUME NEW g \in Gpr, g \cap fresh' # {} PROVE g \subseteq Loc \ D
  BY <1>1, <1>6, AttackAssumption DEF Touched
<1>8. PathFaithful'
  <2> SUFFICES ASSUME pure, ~fuse, NEW l \in fresh',
                      NEW i \in peers' \cap Covered(in)
               PROVE  ast[l].val[i] = full'[l][i]
    BY <1>1, <1>2 DEF PathFaithful, Covered, SymView
  <2>1. full'[l] = full[l] /\ l \in fresh /\ i \in peers
    BY <1>2, <1>5
  <2> QED BY <2>1 DEF FaithInv, PathFaithful
<1>9. NotStale'
  <2> SUFFICES ASSUME pure, ~fuse
               PROVE  /\ varval = in
                      /\ \A l \in fresh' : conc[l] = Real'[l]
                      /\ \A g \in Gpr : g \cap fresh' # {} => SyncedOn(g)'
    BY <1>1, <1>2 DEF NotStale
  <2>1. \A l \in fresh' : conc[l] = Real'[l]
    BY <1>2, <1>5 DEF FaithInv, NotStale
  <2>2. ASSUME NEW g \in Gpr, g \cap fresh' # {} PROVE SyncedOn(g)'
    <3>1. SyncedOn(g)
      BY <1>5, <2>2 DEF FaithInv, NotStale
    <3> QED BY <1>1, <1>2, <1>6, <2>2, <3>1 DEF SyncedOn
  <2> QED BY <2>1, <2>2 DEF FaithInv, NotStale
<1> QED BY <1>2, <1>3, <1>4, <1>8, <1>9 DEF FaithInv

LEMMA SecondPathFaithful ==
  ASSUME TypeOK, FaithInv, StartSecondPath PROVE FaithInv'
<1>1. /\ fuse' = TRUE /\ stage' = "fetch" /\ fresh' = DataBytes \cup {Zero}
      /\ pc' = 1 /\ conc' = conc /\ ast' = ast
  BY DEF StartSecondPath, EndOfFile, contextVars
<1>2. PICK e \in Entries : Enter(e, in', full', peers')
  BY DEF StartSecondPath
<1>3. OnPath'
  BY <1>2, EntryFacts DEF OnPath, Enter
<1>4. ZeroInv'
  BY <1>1, <1>2, EntryFacts DEF ZeroInv, Enter, FaithInv
<1>5. AtEntry'
  BY <1>1, <1>2, EntryFacts DEF AtEntry, Enter
<1> QED BY <1>1, <1>3, <1>4, <1>5 DEF FaithInv, ReadsFresh, NotStale, PathFaithful

LEMMA InitFaithful == Init => FaithInv
<1> SUFFICES ASSUME Init PROVE FaithInv
  OBVIOUS
<1>1. PICK e \in Entries : Enter(e, in, full, peers)
  BY DEF Init
<1>2. OnPath
  BY <1>1, EntryFacts DEF OnPath, Enter
<1>3. ZeroInv
  BY <1>1, EntryFacts, ConstEvaluates, AttackAssumption DEF Init, ZeroInv, Enter
<1>4. AtEntry
  BY <1>1, EntryFacts DEF Init, AtEntry, Enter
<1> QED BY <1>2, <1>3, <1>4 DEF Init, FaithInv, ReadsFresh, NotStale, PathFaithful

LEMMA NextFaithful ==
  ASSUME TypeOK, Coherent, SyncInv, FaithInv, [Next]_vars PROVE FaithInv'
<1>1. ASSUME UNCHANGED <<argv, fuse, contextVars, targetVars, fresh, pure>>,
             stage' = stage \/ stage' = "fetch"
      PROVE  FaithInv'
  <2>1. Real' = Real /\ Code' = Code
    BY <1>1 DEF Real, Code, targetVars
  <2> QED BY <1>1, <2>1 DEF contextVars, targetVars, FaithInv, OnPath, ZeroInv, AtEntry,
                            ReadsFresh, NotStale, PathFaithful, Covered, SymView, SyncedOn
<1>2. CASE Main \/ ExecFails \/ ResultOfOnePath \/ MergePaths \/ Done \/ UNCHANGED vars
  BY <1>1, <1>2 DEF Main, ExecFails, ResultOfOnePath, MergePaths, Done, vars, scriptVars,
                    targetVars, historyVars
<1>3. CASE Untraced
  BY <1>3, UntracedFaithful
<1>4. CASE NextLines
  <2>1. /\ Real' = Real /\ Code' = Code /\ pc # 0
        /\ UNCHANGED <<argv, fuse, contextVars, targetVars, fresh>>
        /\ pure' = (pure /\ Sources(Code[pc]) \subseteq fresh)
    BY <1>4 DEF NextLines, Real, Code, targetVars
  <2>2. OnPath' /\ ZeroInv' /\ AtEntry' /\ ReadsFresh'
    BY <2>1 DEF contextVars, targetVars, FaithInv, OnPath, ZeroInv, AtEntry, ReadsFresh
  <2>3. NotStale'
    BY <2>1 DEF contextVars, targetVars, FaithInv, NotStale, SyncedOn
  <2>4. PathFaithful'
    <3>1. UNCHANGED <<SymView, fuse, fresh, ast, full, peers, in>> /\ (pure' => pure)
      BY <2>1 DEF SymView, contextVars, targetVars
    <3> QED BY <3>1 DEF FaithInv, PathFaithful, Covered
  <2> QED BY <2>2, <2>3, <2>4 DEF FaithInv
<1>5. CASE SyncMemory
  <2>1. PICK g \in todo :
          \/ Sync({g}) /\ UNCHANGED <<phase, outcome, stage>>
          \/ stage' = "fetch" /\ UNCHANGED contextVars
    BY <1>5 DEF SyncMemory, LinesLeft
  <2>2. /\ UNCHANGED <<argv, fuse, targetVars, fresh, pure>>
        /\ stage = "mr" /\ pc # 0 /\ g \in SUBSET (Loc \ {Zero})
    BY <1>5 DEF SyncMemory, LinesLeft, historyVars, TypeOK
  <2>3. CASE stage' = "fetch" /\ UNCHANGED contextVars
    BY <1>1, <2>2, <2>3
  <2>4. CASE Sync({g}) /\ UNCHANGED <<phase, outcome, stage>>
    <3>1. ASSUME pure, ~fuse PROVE SyncedOn(g)
      <4>1. g \subseteq Sources(Code[pc])
        BY <2>2 DEF SyncInv, Sources
      <4> QED BY <2>2, <3>1, <4>1 DEF FaithInv, ReadsFresh, NotStale, SyncedOn
    <3>2. OnPath' /\ ZeroInv' /\ AtEntry' /\ NotStale' /\ PathFaithful'
      BY <2>2, <2>4, <3>1, SyncFaithful
    <3> QED BY <2>2, <2>4, <3>2 DEF FaithInv, ReadsFresh, Code, targetVars
  <2> QED BY <2>1, <2>3, <2>4
<1>6. CASE SyncReg
  <2>1. /\ UNCHANGED <<argv, fuse, targetVars, fresh, pure>>
        /\ stage = "mr" /\ Sync(Gpr)
    BY <1>6 DEF SyncReg, historyVars
  <2>2. OnPath' /\ ZeroInv' /\ AtEntry' /\ NotStale' /\ PathFaithful'
    BY <2>1, SyncFaithful, AttackAssumption DEF FaithInv, NotStale
  <2> QED BY <2>1, <2>2 DEF FaithInv, ReadsFresh, Code, targetVars
<1>7. CASE ExecInstruction
  BY <1>7, ProcessFaithful DEF SyncInv, ExecInstruction
<1>8. CASE StartSecondPath
  BY <1>8, SecondPathFaithful
<1> QED BY <1>2, <1>3, <1>4, <1>5, <1>6, <1>7, <1>8 DEF Next

LEMMA AlwaysFaithInv == Spec => []FaithInv
<1>1. Init => FaithInv
  BY InitFaithful
<1>2. TypeOK /\ Coherent /\ SyncInv /\ FaithInv /\ [Next]_vars => FaithInv'
  BY NextFaithful
<1> QED BY <1>1, <1>2, TypeCorrect, ContextCoherent, SyncedSoFar, PTL DEF Spec

\* The AST of every byte that a trace's replay has written is that byte as a
\* function of the arguments, on every input of the recorded path, as long as
\* the function reads only its arguments and its own writes: the expressions
\* built by emulate (lines 140-163), in the first trace and in the second one.
THEOREM PathIsFaithful == Spec => []PathFaithful
<1>1. FaithInv => PathFaithful
  BY DEF FaithInv
<1> QED BY <1>1, AlwaysFaithInv, PTL

-----------------------------------------------------------------------------
(* The results.                                                            *)

\* ret holds what the first run of the function returned, on its path.
FirstReturned ==
  past[1].pure /\ RetBytes \subseteq past[1].fresh => AgreesOn(1, Inputs)

ResultInv ==
  /\ stage # "fetch" => phase = "replay"
  /\ phase # "exit" => outcome = "none"
  /\ phase = "argv" => execid = 1
  /\ phase # "exit" /\ execid = 1 => past = <<>>
  /\ phase # "exit" /\ execid = 2 => Len(past) = 1 /\ FirstReturned
  /\ ResultFaithful /\ MergedExact

\* At the end of a trace, eax is faithful if the run was pure.
LEMMA EaxFaithful ==
  ASSUME TypeOK, FaithInv, pure, RetBytes \subseteq fresh,
         NEW b \in RetBytes, NEW i \in peers \cap Covered(in)
  PROVE  Eax[b].val[i] = RunRecord.eax[b][i]
<1>1. ~fuse
  BY AttackAssumption DEF FaithInv, AtEntry
<1>2. ast[b].val[i] = full[b][i]
  BY <1>1 DEF FaithInv, PathFaithful
<1> QED BY <1>2 DEF Eax, RunRecord

LEMMA IteEvaluates ==
  ASSUME NEW cond, NEW a, NEW b, NEW i \in Inputs
  PROVE  Ite(cond, a, b).val[i] = IF i \in cond THEN a.val[i] ELSE b.val[i]
  BY DEF Ite

LEMMA RunRecordType ==
  ASSUME TypeOK PROVE RunRecord \in RunType
  BY AttackAssumption DEF TypeOK, RunRecord, RunType

LEMMA AppendFacts ==
  ASSUME NEW S, NEW s \in Seq(S), NEW r \in S
  PROVE  /\ Len(Append(s, r)) = Len(s) + 1 /\ Append(s, r)[Len(s) + 1] = r
         /\ \A k \in 1..Len(s) : Append(s, r)[k] = s[k]
  OBVIOUS

LEMMA NextResult ==
  ASSUME TypeOK, FaithInv, ResultInv, [Next]_vars PROVE ResultInv'
<1>1. ASSUME UNCHANGED <<argv, execid, ret, past, vjmp>>,
             \/ UNCHANGED <<phase, outcome>>
             \/ phase' = "replay" /\ outcome' = "none" /\ phase # "exit"
             \/ phase' = "exit" /\ outcome' # "ok",
             stage' # "fetch" => phase' = "replay"
      PROVE  ResultInv'
  <2>1. \A w : Covered(w)' = Covered(w)
    BY <1>1 DEF Covered, SymView
  <2> QED BY <1>1, <2>1 DEF ResultInv, FirstReturned, ResultFaithful, MergedExact, Merged,
                            AgreesOn
<1>2. CASE Main \/ NextLines \/ Untraced
  BY <1>1, <1>2 DEF Main, NextLines, Untraced, ResultInv, outputVars, historyVars, scriptVars
<1>3. CASE SyncMemory \/ SyncReg \/ ExecFails
  BY <1>1, <1>3 DEF SyncMemory, LinesLeft, SyncReg, ExecFails, ResultInv, outputVars, historyVars
<1>4. CASE Done \/ UNCHANGED vars
  BY <1>1, <1>4 DEF Done, ResultInv, vars, scriptVars, outputVars, historyVars
<1>5. CASE ExecInstruction
  <2>1. UNCHANGED <<argv, execid, ret, past, phase, outcome>> /\ stage' = "fetch"
        /\ phase = "replay"
    BY <1>5 DEF ExecInstruction, ProcessInstruction, ResultInv
  <2>2. \A w : Covered(w)' = Covered(w)
    BY <2>1 DEF Covered, SymView
  <2> QED BY <2>1, <2>2 DEF ResultInv, FirstReturned, ResultFaithful, MergedExact, Merged,
                            AgreesOn
<1>6. CASE ResultOfOnePath \/ StartSecondPath
  <2>1. /\ EndOfFile /\ past = <<>> /\ past' = Append(past, RunRecord) /\ ret' = Eax
        /\ argv' = argv /\ stage' = "fetch"
    BY <1>6 DEF ResultOfOnePath, StartSecondPath, EndOfFile, ResultInv
  <2>2. Len(past') = 1 /\ past'[1] = RunRecord
    BY <2>1, RunRecordType, AppendFacts DEF TypeOK
  <2>3. \A w : Covered(w)' = Covered(w)
    BY <2>1 DEF Covered, SymView
  <2>4. FirstReturned'
    <3> SUFFICES ASSUME pure, RetBytes \subseteq fresh,
                        NEW b \in RetBytes, NEW i \in peers \cap Covered(in)
                 PROVE  Eax[b].val[i] = RunRecord.eax[b][i]
      BY <2>1, <2>2, <2>3 DEF FirstReturned, AgreesOn, RunRecord
    <3> QED BY <2>1, EaxFaithful
  <2>5. ResultFaithful' /\ MergedExact'
    BY <2>2, <2>4 DEF FirstReturned, ResultFaithful, MergedExact, Merged
  <2>6. /\ (phase' # "exit" => outcome' = "none" /\ execid' = 2 /\ phase' # "argv")
        /\ stage' = "fetch"
    BY <1>6, <2>1 DEF ResultOfOnePath, StartSecondPath, EndOfFile, ResultInv
  <2> QED BY <2>2, <2>4, <2>5, <2>6 DEF ResultInv
<1>7. CASE MergePaths
  <2>1. /\ EndOfFile /\ Len(past) = 1 /\ FirstReturned /\ past' = Append(past, RunRecord)
        /\ argv' = argv /\ stage' = "fetch" /\ phase' = "exit" /\ vjmp' = vjmp
    BY <1>7 DEF MergePaths, EndOfFile, ResultInv
  <2>2. Len(past') = 2 /\ past'[1] = past[1] /\ past'[2] = RunRecord
    <3>1. past \in Seq(RunType) /\ RunRecord \in RunType
      BY RunRecordType DEF TypeOK
    <3>2. /\ Len(Append(past, RunRecord)) = Len(past) + 1
          /\ Append(past, RunRecord)[Len(past) + 1] = RunRecord
          /\ \A k \in 1..Len(past) : Append(past, RunRecord)[k] = past[k]
      BY ONLY <3>1, AppendFacts
    <3>3. Len(past) = 1 /\ past' = Append(past, RunRecord)
      BY <2>1
    <3> QED BY ONLY <3>2, <3>3
  <2>3. \A w : Covered(w)' = Covered(w)
    BY <2>1 DEF Covered, SymView
  <2>4. MergedExact'
    <3> SUFFICES ASSUME Merged', NEW b \in RetBytes, NEW i \in Inputs
                 PROVE  /\ i \in past[1].peers \cap Covered(past[1].in) /\ i \notin vjmp[1]
                             => ret'[b].val[i] = past[1].eax[b][i]
                        /\ i \in RunRecord.peers \cap Covered(in) /\ i \in vjmp[1]
                             => ret'[b].val[i] = RunRecord.eax[b][i]
      <4>1. past[1].peers \subseteq Inputs /\ RunRecord.peers \subseteq Inputs
            /\ RunRecord.in = in
        <5>1. past[1] \in RunType
          BY <2>1 DEF TypeOK
        <5> QED BY <5>1, RunRecordType DEF RunType, RunRecord
      <4> QED BY <2>1, <2>2, <2>3, <4>1 DEF MergedExact, AgreesOn
    <3>1. ret'[b] = Ite(vjmp[1], ast[b], ret[b])
      BY <1>7 DEF MergePaths, Merged
    <3>2. /\ past[1].pure /\ RetBytes \subseteq past[1].fresh
          /\ pure /\ RetBytes \subseteq fresh
      BY <2>2 DEF Merged, RunRecord
    <3>3. i \in past[1].peers \cap Covered(past[1].in) => ret[b].val[i] = past[1].eax[b][i]
      BY <2>1, <3>2 DEF FirstReturned, AgreesOn
    <3>4. i \in RunRecord.peers \cap Covered(in) => ast[b].val[i] = RunRecord.eax[b][i]
      <4>1. RunRecord.peers = peers /\ Eax[b] = ast[b]
        BY DEF RunRecord, Eax
      <4> QED BY <2>1, <3>2, <4>1, EaxFaithful
    <3>5. ret'[b].val[i] = IF i \in vjmp[1] THEN ast[b].val[i] ELSE ret[b].val[i]
      BY <3>1, IteEvaluates
    <3> QED BY <3>3, <3>4, <3>5
  <2> QED BY <2>1, <2>2, <2>4 DEF ResultInv, ResultFaithful
<1> QED BY <1>2, <1>3, <1>4, <1>5, <1>6, <1>7 DEF Next

LEMMA AlwaysResultInv == Spec => []ResultInv
<1>1. Init => ResultInv
  BY DEF Init, ResultInv, ResultFaithful, MergedExact, Merged
<1>2. TypeOK /\ FaithInv /\ ResultInv /\ [Next]_vars => ResultInv'
  BY NextResult
<1> QED BY <1>1, <1>2, TypeCorrect, AlwaysFaithInv, PTL DEF Spec

\* The expression a single trace yields is the function on its whole path
\* (analysis, line 212).
THEOREM ResultIsFaithful == Spec => []ResultFaithful
<1>1. ResultInv => ResultFaithful
  BY DEF ResultInv
<1> QED BY <1>1, AlwaysResultInv, PTL

\* The expression merged from two traces is the function on the inputs of each
\* path that the condition of V_JMP[0] sends to it (analysis, lines 205-210).
THEOREM MergeIsExact == Spec => []MergedExact
<1>1. ResultInv => MergedExact
  BY DEF ResultInv
<1> QED BY <1>1, AlwaysResultInv, PTL

-----------------------------------------------------------------------------
(* Refusals.                                                               *)

\* When a replay was refused, what the process held at its first instruction
\* did not fit the variables.
RefusalInv ==
  /\ outcome = "SymbolicEngine" => phase = "exit"
  /\ RefusalJustified

LEMMA AlwaysRefusalInv == Spec => []RefusalInv
<1>1. Init => RefusalInv
  BY DEF Init, RefusalInv, RefusalJustified
<1>2. TypeOK /\ Coherent /\ SyncInv /\ ResultInv /\ RefusalInv /\ [Next]_vars => RefusalInv'
  <2> SUFFICES ASSUME TypeOK, Coherent, SyncInv, ResultInv, RefusalInv, [Next]_vars
               PROVE  RefusalInv'
    OBVIOUS
  <2>1. CASE ExecFails
    <3>1. TooBig /\ stage = "i" /\ phase' = "exit" /\ execid' = execid
          /\ Real' = Real /\ SymView' = SymView
      BY <2>1 DEF ExecFails, Real, SymView, targetVars
    <3>2. execid = 2
      BY <3>1 DEF TooBig, Coherent, TypeOK
    <3>3. \A b \in DataBytes : conc[b] = Real[b]
      BY <3>1, AttackAssumption DEF SyncInv, SyncedBeforeExec
    <3> QED BY <3>1, <3>2, <3>3 DEF TooBig, RefusalInv, RefusalJustified
  <2>2. CASE Done \/ UNCHANGED vars
    BY <2>2 DEF Done, RefusalInv, RefusalJustified, Real, SymView, vars, scriptVars, targetVars
  <2>3. CASE Main \/ Untraced \/ NextLines \/ SyncMemory \/ SyncReg \/ ExecInstruction
             \/ ResultOfOnePath \/ StartSecondPath \/ MergePaths
    <3>1. phase # "exit"
      BY <2>3 DEF Main, Untraced, NextLines, SyncMemory, LinesLeft, SyncReg, ExecInstruction,
                  ProcessInstruction, ResultOfOnePath, StartSecondPath, MergePaths, EndOfFile, ResultInv
    <3>2. outcome' # "SymbolicEngine"
      BY <2>3, <3>1 DEF Main, Untraced, NextLines, SyncMemory, LinesLeft, SyncReg, ExecInstruction,
                  ProcessInstruction, ResultOfOnePath, StartSecondPath, MergePaths, ResultInv, scriptVars
    <3> QED BY <3>2 DEF RefusalInv, RefusalJustified
  <2> QED BY <2>1, <2>2, <2>3 DEF Next
<1> QED BY <1>1, <1>2, TypeCorrect, ContextCoherent, SyncedSoFar, AlwaysResultInv, PTL
        DEF Spec

\* The replay of the second trace is refused only for an argument register that
\* really held more than symsize (update_sym_var, lines 91-100).
THEOREM RefusalIsJustified == Spec => []RefusalJustified
<1>1. RefusalInv => RefusalJustified
  BY DEF RefusalInv
<1> QED BY <1>1, AlwaysRefusalInv, PTL

=============================================================================
