---------------------------- MODULE MergeProofs ----------------------------
(***************************************************************************)
(* When attack_vmp.py merges two traces rightly, for every function that   *)
(* has one branch, and every command that names that branch.  In general   *)
(* it does not: V_JMP[0] is the first condition found at the given         *)
(* address, wherever the branch is.                                        *)
(***************************************************************************)
EXTENDS AttackVmpProofs

-----------------------------------------------------------------------------
(* The end of the second replay.                                           *)

EndInv ==
  /\ execid = 1 => vjmp = <<>>
  /\ Len(past) = 2 =>
       /\ phase = "exit" /\ execid = 2 /\ past[2] = RunRecord
       /\ outcome = "ok" <=> vjmp # <<>>

LEMMA NextEnd ==
  ASSUME TypeOK, ResultInv, EndInv, [Next]_vars PROVE EndInv'
<1>1. ASSUME UNCHANGED <<execid, vjmp, past>>, phase # "exit" PROVE EndInv'
  BY <1>1 DEF EndInv
<1>2. CASE Main \/ NextLines \/ Untraced
  BY <1>1, <1>2 DEF Main, NextLines, Untraced, historyVars, outputVars, scriptVars
<1>3. CASE SyncMemory \/ SyncReg \/ ExecFails
  BY <1>1, <1>3 DEF SyncMemory, LinesLeft, SyncReg, ExecFails, historyVars, outputVars, ResultInv
<1>4. CASE Done \/ UNCHANGED vars
  <2>1. UNCHANGED vars
    BY <1>4 DEF Done
  <2>2. UNCHANGED <<execid, vjmp, past, phase, outcome>> /\ RunRecord' = RunRecord
    BY <2>1 DEF vars, scriptVars, outputVars, historyVars, targetVars, RunRecord
  <2> QED BY <2>2 DEF EndInv
<1>5. CASE ExecInstruction
  <2>1. phase = "replay" /\ UNCHANGED <<execid, past>> /\ (execid = 1 => vjmp' = vjmp)
    BY <1>5 DEF ExecInstruction, ProcessInstruction, DetectingVjmp, ResultInv
  <2> QED BY <2>1 DEF EndInv
<1>6. CASE ResultOfOnePath \/ StartSecondPath
  <2>1. past = <<>> /\ past' = Append(past, RunRecord) /\ vjmp' = vjmp /\ execid = 1
    BY <1>6 DEF ResultOfOnePath, StartSecondPath, EndOfFile, ResultInv
  <2>2. Len(past') = 1
    BY <2>1, RunRecordType, AppendFacts DEF TypeOK
  <2> QED BY <2>1, <2>2 DEF EndInv
<1>7. CASE MergePaths
  <2>1. /\ EndOfFile /\ execid = 2 /\ Len(past) = 1 /\ past' = Append(past, RunRecord)
        /\ phase' = "exit" /\ execid' = execid /\ vjmp' = vjmp
        /\ outcome' = IF vjmp = <<>> THEN "IndexError" ELSE "ok"
    BY <1>7 DEF MergePaths, EndOfFile, ResultInv
  <2>2. RunRecord' = RunRecord
    BY <1>7 DEF MergePaths, targetVars, RunRecord
  <2>3. past' [2] = RunRecord
    <3>1. past \in Seq(RunType) /\ RunRecord \in RunType
      BY RunRecordType DEF TypeOK
    <3>2. Append(past, RunRecord)[Len(past) + 1] = RunRecord
      BY ONLY <3>1, AppendFacts
    <3> QED BY <2>1, <3>2
  <2> QED BY <2>1, <2>2, <2>3 DEF EndInv
<1> QED BY <1>2, <1>3, <1>4, <1>5, <1>6, <1>7 DEF Next

LEMMA AlwaysEndInv == Spec => []EndInv
<1>1. Init => EndInv
  BY DEF Init, EndInv
<1>2. TypeOK /\ ResultInv /\ EndInv /\ [Next]_vars => EndInv'
  BY NextEnd
<1> QED BY <1>1, <1>2, TypeCorrect, AlwaysResultInv, PTL DEF Spec

-----------------------------------------------------------------------------
(* The condition F separates the paths, and is taken from the right branch. *)

\* Where control goes after ins on input i.
Took(ins, i) == ins.tgt[After(ins)[ins.sel][i]]

\* A recorded path holds every input, or those on one side of F, and the latter
\* at its end.  Where the script takes its condition, before the paths part, the
\* given flag is F.
BranchSeparates(F) ==
  /\ peers \in {Inputs, SameSide(F, in)}
  /\ pc = 0 => peers = SameSide(F, in)
  /\ stage = "i" /\ execid = 2 /\ vjmp = <<>> /\ Code[pc].addr = argv.vbraddr =>
       /\ argv.vbrflag \in DOMAIN Code[pc].eff
       /\ After(Code[pc])[argv.vbrflag] = F
       /\ peers = Inputs
       /\ \A i \in Inputs : Took(Code[pc], i) = Took(Code[pc], in)

\* V_JMP[0] holds on the side of the second recorded run.
CondInv(F) ==
  execid = 2 /\ pure /\ vjmp # <<>> =>
    \A i \in Covered(in) : i \in vjmp[1] <=> F[i] = F[in]

PastInv(F) == past # <<>> => past[1].peers \in {Inputs, SameSide(F, past[1].in)}

LEMMA ConditionTaken ==
  ASSUME TypeOK, FaithInv, FaithInv', NEW F, BranchSeparates(F),
         ExecInstruction, execid = 2, pure, vjmp = <<>>, AtVirtualBranch(Code[pc]),
         NEW i \in Covered(in)
  PROVE  i \in Condition(Code[pc]) <=> F[i] = F[in]
<1> DEFINE ins == Code[pc]
           f == argv.vbrflag
<1>1. /\ stage = "i" /\ pc # 0 /\ Retire(ins) /\ ast' = Processed(ins) /\ varval' = FusedVarval
      /\ fuse' = FALSE /\ pure' = pure /\ fresh' = fresh \cup DOMAIN ins.eff /\ argv' = argv
  BY DEF ExecInstruction, ProcessInstruction, TypeOK
<1>2. /\ f \in DOMAIN ins.eff /\ After(ins)[f] = F /\ peers = Inputs
      /\ \A j \in Inputs : Took(ins, j) = Took(ins, in)
  BY <1>1 DEF BranchSeparates, AtVirtualBranch
<1>3. full' = After(ins) /\ in' = in
  BY <1>1 DEF Retire
<1>4. peers' = Inputs
  BY <1>1, <1>2 DEF Retire, Took
<1>5. varval' = in /\ \A j \in Covered(in) : ast'[f].val[j] = F[j]
  <2>1. Covered(in)' = Covered(in) /\ Covered(in) \subseteq Inputs
    BY <1>1, <1>3 DEF Covered, SymView
  <2>2. NotStale' /\ PathFaithful'
    BY DEF FaithInv
  <2>3. varval' = in
    BY <1>1, <1>3, <2>2 DEF NotStale
  <2>4. \A j \in peers' \cap Covered(in)' : ast'[f].val[j] = full'[f][j]
    BY <1>1, <1>2, <2>2 DEF PathFaithful
  <2> QED BY <1>2, <1>3, <1>4, <2>1, <2>3, <2>4
<1>6. in \in Covered(in) /\ i \in Inputs
  BY DEF Covered, TypeOK
<1>7. Condition(ins) = {j \in Inputs : ast'[f].val[j] = ast'[f].val[in]}
  BY <1>1, <1>5 DEF Condition, Evaluate
<1> QED BY <1>5, <1>6, <1>7

LEMMA NextMerge ==
  ASSUME TypeOK, FaithInv, FaithInv', ResultInv, EndInv, NEW F,
         BranchSeparates(F), CondInv(F), PastInv(F), [Next]_vars
  PROVE  CondInv(F)' /\ PastInv(F)'
<1>1. ASSUME UNCHANGED <<argv, execid, in, vjmp, past>>, pure' => pure
      PROVE  CondInv(F)' /\ PastInv(F)'
  BY <1>1 DEF CondInv, PastInv, Covered, SymView
<1>2. CASE Main \/ NextLines \/ Done \/ UNCHANGED vars
  <2>1. UNCHANGED <<argv, execid, in, vjmp, past>>
    BY <1>2 DEF Main, NextLines, Done, vars, historyVars, outputVars, targetVars, scriptVars
  <2>2. pure' => pure
    BY <1>2 DEF Main, NextLines, Done, vars, historyVars
  <2> QED BY <1>1, <2>1, <2>2
<1>3. CASE SyncMemory \/ SyncReg \/ ExecFails
  <2>1. UNCHANGED <<argv, execid, outputVars, targetVars, historyVars>>
    BY <1>3 DEF SyncMemory, LinesLeft, SyncReg, ExecFails
  <2> QED BY <1>1, <2>1 DEF historyVars, outputVars, targetVars
<1>4. CASE Untraced
  BY <1>1, <1>4 DEF Untraced, Retire, outputVars, scriptVars
<1>5. CASE ExecInstruction
  <2>1. UNCHANGED <<argv, execid, in, past, pure>>
    BY <1>5 DEF ExecInstruction, ProcessInstruction, Retire
  <2>2. Covered(in)' = Covered(in)
    BY <2>1 DEF Covered, SymView
  <2>3. PastInv(F)'
    BY <2>1 DEF PastInv
  <2>4. CASE vjmp' = vjmp
    BY <1>1, <2>1, <2>4
  <2>5. CASE execid = 2 /\ AtVirtualBranch(Code[pc]) /\ vjmp' = Append(vjmp, Condition(Code[pc]))
    <3>1. vjmp \in Seq(SUBSET Inputs) /\ Condition(Code[pc]) \in SUBSET Inputs
      BY DEF TypeOK, Condition
    <3>2. vjmp'[1] = IF vjmp = <<>> THEN Condition(Code[pc]) ELSE vjmp[1]
      BY <2>5, <3>1
    <3>3. CASE vjmp # <<>>
      BY <2>1, <2>2, <3>2, <3>3 DEF CondInv, PastInv
    <3>4. CASE vjmp = <<>>
      <4>1. ASSUME pure, NEW i \in Covered(in) PROVE i \in vjmp'[1] <=> F[i] = F[in]
        BY <1>5, <2>5, <3>2, <3>4, <4>1, ConditionTaken
      <4> QED BY <2>1, <2>2, <2>3, <4>1 DEF CondInv
    <3> QED BY <3>3, <3>4
  <2> QED BY <1>5, <2>4, <2>5 DEF ExecInstruction, DetectingVjmp
<1>6. CASE ResultOfOnePath \/ StartSecondPath
  <2>1. /\ past = <<>> /\ past' = Append(past, RunRecord) /\ vjmp' = <<>>
    BY <1>6 DEF ResultOfOnePath, StartSecondPath, EndOfFile, ResultInv, EndInv
  <2>2. past'[1] = RunRecord
    BY <2>1, RunRecordType, AppendFacts DEF TypeOK
  <2>3. past'[1].peers = peers /\ past'[1].in = in
    BY <2>2 DEF RunRecord
  <2> QED BY <2>1, <2>3 DEF CondInv, PastInv, BranchSeparates
<1>7. CASE MergePaths
  <2>1. /\ Len(past) = 1 /\ past' = Append(past, RunRecord)
        /\ UNCHANGED <<argv, execid, in, vjmp, pure>>
    BY <1>7 DEF MergePaths, EndOfFile, ResultInv, targetVars
  <2>2. past'[1] = past[1]
    <3>1. past \in Seq(RunType) /\ RunRecord \in RunType
      BY RunRecordType DEF TypeOK
    <3>2. \A k \in 1..Len(past) : Append(past, RunRecord)[k] = past[k]
      BY ONLY <3>1, AppendFacts
    <3> QED BY <2>1, <3>2
  <2>3. past # <<>>
    BY <2>1
  <2> QED BY <2>1, <2>2, <2>3 DEF CondInv, PastInv, Covered, SymView
<1> QED BY <1>2, <1>3, <1>4, <1>5, <1>6, <1>7 DEF Next

\* The two conditions add up to the workflow's promise.
LEMMA MergedRightly ==
  ASSUME TypeOK, ResultInv, EndInv, NEW F,
         BranchSeparates(F), CondInv(F), PastInv(F)
  PROVE  MergeCorrect
<1> SUFFICES ASSUME Merged, ReadmeWorkflow, past[2].whole
             PROVE  AgreesOn(1, Inputs) /\ AgreesOn(2, Inputs)
  BY DEF MergeCorrect
<1> DEFINE in1 == past[1].in
<1>1. /\ Len(past) = 2 /\ outcome = "ok" /\ past[2] = RunRecord /\ vjmp # <<>> /\ execid = 2
      /\ past[1] \in RunType /\ past # <<>> /\ past[2].pure
  <2>1. Len(past) = 2 /\ outcome = "ok" /\ past[2].pure
    BY DEF Merged
  <2>2. past[1] \in RunType /\ past # <<>>
    <3>1. past \in Seq(RunType)
      BY DEF TypeOK
    <3> QED BY ONLY <2>1, <3>1
  <2> QED BY <2>1, <2>2 DEF EndInv
<1>2. /\ past[2].in = in /\ past[2].peers = peers /\ pure /\ pc = 0
  <2>1. /\ RunRecord.in = in /\ RunRecord.peers = peers /\ RunRecord.pure = pure
        /\ RunRecord.whole = (pc = 0)
    BY DEF RunRecord
  <2> QED BY <1>1, <2>1
<1>3. AgreesOn(2, vjmp[1]) /\ AgreesOn(1, Inputs \ vjmp[1])
  BY DEF ResultInv, MergedExact
<1>4. peers = SameSide(F, in) /\ in \in Inputs
  BY <1>2 DEF BranchSeparates, TypeOK
<1>5. \A i \in Covered(in) : i \in vjmp[1] <=> F[i] = F[in]
  BY <1>1, <1>2 DEF CondInv
<1>6. in \in Covered(in1) /\ in \notin past[1].peers
  BY <1>2 DEF ReadmeWorkflow
<1>7. Covered(in) = Covered(in1)
  BY <1>6 DEF Covered
<1>8. past[1].peers = SameSide(F, in1) /\ F[in] # F[in1]
  BY <1>1, <1>4, <1>6 DEF PastInv, SameSide
<1>9. ASSUME NEW i \in peers \cap Covered(in) PROVE i \in vjmp[1]
  BY <1>4, <1>5 DEF SameSide
<1>10. ASSUME NEW i \in past[1].peers \cap Covered(in1) PROVE i \in Inputs \ vjmp[1]
  BY <1>5, <1>7, <1>8 DEF SameSide
<1>11. AgreesOn(2, Inputs)
  BY <1>2, <1>3, <1>9 DEF AgreesOn
<1>12. AgreesOn(1, Inputs)
  BY <1>3, <1>10 DEF AgreesOn
<1> QED BY <1>11, <1>12

\* If a condition separates the two paths of a function, and the flag of the given
\* branch is that condition where the script looks at it, the merged expression
\* is the function on both paths (lines 205-210): the premise that fails in a
\* function whose comparison handler runs before the branch too.
THEOREM SeparatedPathsMerge ==
  ASSUME NEW F
  PROVE  Spec /\ []BranchSeparates(F) => []MergeCorrect
<1>1. Init => CondInv(F) /\ PastInv(F)
  BY DEF Init, CondInv, PastInv
<1>2. /\ TypeOK /\ FaithInv /\ FaithInv' /\ ResultInv /\ EndInv
      /\ BranchSeparates(F) /\ CondInv(F) /\ PastInv(F) /\ [Next]_vars
      => CondInv(F)' /\ PastInv(F)'
  BY NextMerge
<1>3. TypeOK /\ ResultInv /\ EndInv /\ BranchSeparates(F) /\ CondInv(F) /\ PastInv(F)
      => MergeCorrect
  BY MergedRightly
<1> QED BY <1>1, <1>2, <1>3, TypeCorrect, AlwaysFaithInv, AlwaysResultInv, AlwaysEndInv, PTL
        DEF Spec

-----------------------------------------------------------------------------
(* A function with one branch.                                             *)

\* The side of the recorded run, the path it follows, and what is known on it.
Side(b)  == b.cond.val[in]
Path(b)  == b.path[Side(b)]
Known(b) == b.known[Side(b)]

\* The recorded run is about to execute its q-th instruction.
AtStep(b, q) ==
  /\ q \in 1..Len(Path(b)) /\ pc = Path(b)[q]
  /\ peers = IF q <= b.jump THEN Inputs ELSE SameSide(b.cond.val, in)
  /\ \A l \in DOMAIN Known(b)[q] : full[l] = Known(b)[q][l].val

LEMMA CodeIsWellFormed == ASSUME TypeOK PROVE WellFormedProgram(Code)
  BY AttackAssumption DEF TypeOK, Code

LEMMA SideHolds ==
  ASSUME NEW p, NEW b, OneBranch(p, b), NEW j \in Inputs PROVE OneSide(p, b, b.cond.val[j])
<1>1. b.cond.val[j] \in {b.cond.val[i] : i \in Inputs}
  OBVIOUS
<1> QED BY <1>1 DEF OneBranch

LEMMA PathFacts ==
  ASSUME NEW p, NEW b, OneBranch(p, b), NEW j \in Inputs
  PROVE  LET path == b.path[b.cond.val[j]]
             n    == Len(path)
         IN  /\ n \in Nat /\ b.at \in Nat /\ b.jump \in Nat
             /\ 1 <= b.at /\ b.at < b.jump /\ b.jump < n
             /\ path[1] = 1
             /\ \A q \in 1..n : path[q] \in DOMAIN p \cup {0} /\ (path[q] = 0 <=> q = n)
<1> DEFINE path == b.path[b.cond.val[j]]
<1>0. OneSide(p, b, b.cond.val[j])
  BY SideHolds
<1>1. /\ b.at \in Nat \ {0} /\ b.jump \in Nat /\ b.at < b.jump
      /\ path \in Seq(DOMAIN p \cup {0}) /\ path[1] = 1 /\ b.jump < Len(path)
      /\ \A q \in 1..Len(path) : path[q] = 0 <=> q = Len(path)
  BY <1>0 DEF OneBranch, OneSide
<1> HIDE DEF path
<1>2. Len(path) \in Nat /\ \A q \in 1..Len(path) : path[q] \in DOMAIN p \cup {0}
  BY ONLY <1>1
<1>3. 1 <= b.at
  BY ONLY <1>1
<1> QED BY <1>1, <1>2, <1>3 DEF path

LEMMA KnownFacts ==
  ASSUME NEW p, NEW b, OneBranch(p, b), NEW j \in Inputs
  PROVE  LET path  == b.path[b.cond.val[j]]
             known == b.known[b.cond.val[j]]
         IN  /\ \A q \in 1..Len(path) : DOMAIN known[q] \subseteq Loc
             /\ \A l \in DOMAIN known[1] : \/ l \in DataBytes /\ known[1][l] = SymByte(l, l)
                                           \/ l = Zero /\ known[1][l] = Const(0)
             /\ \A q \in 1..(Len(path) - 1) : Follows(known[q + 1], p[path[q]], known[q])
<1>1. OneSide(p, b, b.cond.val[j])
  BY SideHolds
<1> QED BY <1>1 DEF OneSide

\* Where control goes on a path, and where the other side goes at the jump.
LEMMA ControlFacts ==
  ASSUME NEW p, NEW b, OneBranch(p, b), NEW j \in Inputs, NEW i \in Inputs
  PROVE  LET side  == b.cond.val[j]
             path  == b.path[side]
             known == b.known[side]
             last  == p[path[b.jump]]
         IN  /\ \A q \in 1..(Len(path) - 1) : q < b.jump \/ b.cond.val[i] = side =>
                  LeadsTo(path[q + 1], p[path[q]], known[q + 1], i)
             /\ last.sel \in DOMAIN known[b.jump + 1]
             /\ b.cond.val[i] # side =>
                  last.tgt[known[b.jump + 1][last.sel].val[i]] # path[b.jump + 1]
<1>1. OneSide(p, b, b.cond.val[j])
  BY SideHolds
<1> QED BY <1>1 DEF OneSide

LEMMA FollowsKnown ==
  ASSUME NEW ins, NEW before, NEW after, Follows(after, ins, before), DOMAIN after \subseteq Loc,
         \A l \in DOMAIN before : full[l] = before[l].val, NEW l \in DOMAIN after
  PROVE  After(ins)[l] = after[l].val
<1>1. CASE l \in DOMAIN ins.eff
  <2> DEFINE t == ins.eff[l]
  <2>1. /\ t.a \in DOMAIN before /\ t.b \in DOMAIN before
        /\ after[l] = Combine(t.op, before[t.a], before[t.b])
    BY <1>1 DEF Follows
  <2>2. full[t.a] = before[t.a].val /\ full[t.b] = before[t.b].val
    BY <2>1
  <2>3. After(ins)[l] = [i \in Inputs |-> t.op[<<full[t.a][i], full[t.b][i]>>]]
    BY <1>1 DEF After
  <2>4. after[l].val = [i \in Inputs |-> t.op[<<before[t.a].val[i], before[t.b].val[i]>>]]
    BY <2>1 DEF Combine
  <2> HIDE DEF t
  <2> QED BY <2>2, <2>3, <2>4
<1>2. CASE l \notin DOMAIN ins.eff
  <2>1. l \in DOMAIN before /\ after[l] = before[l]
    BY <1>2 DEF Follows
  <2>2. After(ins)[l] = full[l]
    BY <1>2 DEF After
  <2> QED BY <2>1, <2>2
<1> QED BY <1>1, <1>2

\* A run that is not at its end is before it, and its steps are numbers.
LEMMA StepFacts ==
  ASSUME TypeOK, NEW b, OneBranch(Code, b), NEW q, AtStep(b, q)
  PROVE  /\ q \in Nat /\ 1 <= q /\ q <= Len(Path(b)) /\ b.jump < Len(Path(b))
         /\ Len(Path(b)) \in Nat
         /\ b.at \in Nat /\ b.jump \in Nat /\ 1 <= b.at /\ b.at < b.jump
         /\ pc = 0 <=> q = Len(Path(b))
         /\ pc # 0 => q \in 1..(Len(Path(b)) - 1) /\ q + 1 \in 1..Len(Path(b))
<1> DEFINE n == Len(Path(b))
<1>1. /\ n \in Nat /\ b.jump < n /\ (\A k \in 1..n : Path(b)[k] = 0 <=> k = n)
      /\ b.at \in Nat /\ b.jump \in Nat /\ 1 <= b.at /\ b.at < b.jump
  BY PathFacts DEF TypeOK, Path, Side
<1>2. q \in 1..n /\ (pc = 0 <=> q = n)
  BY <1>1 DEF AtStep
<1> HIDE DEF n
<1>3. q \in Nat /\ 1 <= q /\ q <= n /\ (q # n => q \in 1..(n - 1) /\ q + 1 \in 1..n)
  BY ONLY <1>1, <1>2
<1> QED BY <1>1, <1>2, <1>3 DEF n

\* What the instruction about to be executed makes of what is known.
LEMMA StepKnown ==
  ASSUME TypeOK, NEW b, OneBranch(Code, b), NEW q, AtStep(b, q), pc # 0
  PROVE  /\ Follows(Known(b)[q + 1], Code[pc], Known(b)[q])
         /\ DOMAIN Known(b)[q + 1] \subseteq Loc
         /\ \A l \in DOMAIN Known(b)[q + 1] : After(Code[pc])[l] = Known(b)[q + 1][l].val
<1>1. /\ q \in 1..(Len(Path(b)) - 1) /\ q + 1 \in 1..Len(Path(b)) /\ in \in Inputs
      /\ pc = Path(b)[q] /\ \A l \in DOMAIN Known(b)[q] : full[l] = Known(b)[q][l].val
  BY StepFacts DEF AtStep, TypeOK
<1>2. /\ Follows(Known(b)[q + 1], Code[pc], Known(b)[q])
      /\ DOMAIN Known(b)[q + 1] \subseteq Loc
  BY <1>1, KnownFacts DEF Known, Path, Side
<1> QED BY <1>1, <1>2, FollowsKnown

\* The inputs go where the path does, up to the jump or on the same side.
LEMMA StepTook ==
  ASSUME TypeOK, NEW b, OneBranch(Code, b), NEW q, AtStep(b, q), pc # 0, NEW i \in Inputs
  PROVE  /\ q < b.jump \/ b.cond.val[i] = Side(b) => Took(Code[pc], i) = Path(b)[q + 1]
         /\ q = b.jump /\ b.cond.val[i] # Side(b) => Took(Code[pc], i) # Path(b)[q + 1]
<1> DEFINE ins   == Code[pc]
           after == Known(b)[q + 1]
<1>1. q \in 1..(Len(Path(b)) - 1) /\ pc = Path(b)[q] /\ in \in Inputs
  BY StepFacts DEF AtStep, TypeOK
<1>2. After(ins)[ins.sel][i] \in Val
  BY AfterType, CodeType DEF TypeOK
<1>3. ins.sel \in DOMAIN after => After(ins)[ins.sel][i] = after[ins.sel].val[i]
  BY StepKnown
<1>4. /\ q < b.jump \/ b.cond.val[i] = Side(b) => LeadsTo(Path(b)[q + 1], ins, after, i)
      /\ q = b.jump => ins.sel \in DOMAIN after
      /\ q = b.jump /\ b.cond.val[i] # Side(b) =>
           ins.tgt[after[ins.sel].val[i]] # Path(b)[q + 1]
  BY <1>1, ControlFacts DEF Known, Path, Side
<1>5. LeadsTo(Path(b)[q + 1], ins, after, i) => Took(ins, i) = Path(b)[q + 1]
  BY <1>2, <1>3 DEF LeadsTo, Took
<1>6. q = b.jump => Took(ins, i) = ins.tgt[after[ins.sel].val[i]]
  BY <1>3, <1>4 DEF Took
<1> HIDE DEF ins, after
<1> QED BY <1>4, <1>5, <1>6 DEF ins

\* The process executes the q-th instruction.
LEMMA RetireStep ==
  ASSUME TypeOK, NEW b, OneBranch(Code, b), NEW q, AtStep(b, q), pc # 0, Retire(Code[pc])
  PROVE  AtStep(b, q + 1)'
<1> DEFINE ins == Code[pc]
           F   == b.cond.val
<1>1. /\ full' = After(ins) /\ in' = in /\ pc' = Took(ins, in)
      /\ peers' = {i \in peers : Took(ins, i) = Took(ins, in)}
  BY DEF Retire, Took
<1>2. Path(b)' = Path(b) /\ Known(b)' = Known(b) /\ SameSide(F, in)' = SameSide(F, in)
  BY <1>1 DEF Path, Known, Side, SameSide
<1>3. in \in Inputs /\ q + 1 \in 1..Len(Path(b)) /\ q \in Nat /\ b.jump \in Nat
  BY StepFacts DEF TypeOK
<1>4. Took(ins, in) = Path(b)[q + 1]
  BY <1>3, StepTook DEF Side
<1>5. peers' = IF q + 1 <= b.jump THEN Inputs ELSE SameSide(F, in)
  <2>1. peers = IF q <= b.jump THEN Inputs ELSE SameSide(F, in)
    BY DEF AtStep
  <2>2. CASE q < b.jump
    <3>1. \A i \in Inputs : Took(ins, i) = Path(b)[q + 1]
      BY <2>2, StepTook
    <3>2. q <= b.jump /\ q + 1 <= b.jump
      BY <1>3, <2>2
    <3> QED BY <1>1, <1>4, <2>1, <3>1, <3>2
  <2>3. CASE q = b.jump
    <3>1. \A i \in Inputs : Took(ins, i) = Path(b)[q + 1] <=> F[i] = F[in]
      BY <2>3, StepTook DEF Side
    <3>2. q <= b.jump /\ ~(q + 1 <= b.jump)
      BY <1>3, <2>3
    <3> QED BY <1>1, <1>4, <2>1, <3>1, <3>2 DEF SameSide
  <2>4. CASE q > b.jump
    <3>1. \A i \in SameSide(F, in) : Took(ins, i) = Path(b)[q + 1]
      BY StepTook DEF Side, SameSide
    <3>2. ~(q <= b.jump) /\ ~(q + 1 <= b.jump)
      BY <1>3, <2>4
    <3> QED BY <1>1, <1>4, <2>1, <3>1, <3>2
  <2> QED BY <1>3, <2>2, <2>3, <2>4
<1>6. \A l \in DOMAIN Known(b)[q + 1] : full'[l] = Known(b)[q + 1][l].val
  BY <1>1, StepKnown
<1> QED BY <1>1, <1>2, <1>3, <1>4, <1>5, <1>6 DEF AtStep

\* The process enters the region.
LEMMA EntryKnown ==
  ASSUME NEW p, NEW b, OneBranch(p, b), NEW e \in Entries, NEW j \in Inputs,
         NEW l \in DOMAIN b.known[b.cond.val[j]][1]
  PROVE  EntryFull(e)[l] = b.known[b.cond.val[j]][1][l].val
<1> DEFINE known == b.known[b.cond.val[j]]
<1>1. e[Zero] = 0 /\ Zero \in Loc
  BY AttackAssumption
<1>2. CASE l \in DataBytes /\ known[1][l] = SymByte(l, l)
  <2>1. EntryFull(e)[l] = [i \in Inputs |-> i[l]]
    BY <1>2, DataBytesAreLocations DEF EntryFull
  <2>2. SymByte(l, l).val = [i \in Inputs |-> i[l]]
    BY DEF SymByte
  <2> QED BY <1>2, <2>1, <2>2
<1>3. CASE l = Zero /\ known[1][l] = Const(0)
  <2>1. EntryFull(e)[l] = [i \in Inputs |-> 0]
    BY <1>1, <1>3, ZeroIsNoArgument DEF EntryFull
  <2>2. Const(0).val = [i \in Inputs |-> 0]
    BY DEF Const
  <2> QED BY <1>3, <2>1, <2>2
<1> QED BY <1>2, <1>3, KnownFacts

LEMMA FirstStep ==
  ASSUME NEW p, NEW b, OneBranch(p, b), NEW j \in Inputs
  PROVE  b.path[b.cond.val[j]][1] = 1 /\ 1 \in 1..Len(b.path[b.cond.val[j]]) /\ 1 <= b.jump
<1> DEFINE path == b.path[b.cond.val[j]]
<1>1. /\ path[1] = 1 /\ Len(path) \in Nat /\ b.jump \in Nat
      /\ b.at \in Nat /\ 1 <= b.at /\ b.at < b.jump /\ b.jump < Len(path)
  BY PathFacts
<1> HIDE DEF path
<1>2. 1 \in 1..Len(path) /\ 1 <= b.jump
  BY ONLY <1>1
<1> QED BY <1>1, <1>2 DEF path

LEMMA EnterStep ==
  ASSUME Init, NEW b, OneBranch(Code, b) PROVE AtStep(b, 1)
<1>1. PICK e \in Entries : Enter(e, in, full, peers)
  BY DEF Init
<1>2. pc = 1 /\ in \in Inputs
  BY InitType DEF Init, TypeOK
<1>3. Path(b)[1] = 1 /\ 1 \in 1..Len(Path(b)) /\ 1 <= b.jump
  BY <1>2, FirstStep DEF Path, Side
<1>4. \A l \in DOMAIN Known(b)[1] : full[l] = Known(b)[1][l].val
  BY <1>1, <1>2, EntryKnown DEF Known, Side, Enter
<1> QED BY <1>1, <1>2, <1>3, <1>4 DEF AtStep, Enter

LEMMA CommandKept == [Next]_vars => argv' = argv /\ prog' = prog
  BY DEF Next, Main, Untraced, NextLines, SyncMemory, LinesLeft, SyncReg, ExecInstruction,
         ProcessInstruction, ExecFails, ResultOfOnePath, StartSecondPath, MergePaths, Done,
         Retire, vars, scriptVars, targetVars

\* The steps in which the process waits for the script.
Waits ==
  \/ Main \/ NextLines \/ SyncMemory \/ SyncReg \/ ExecFails
  \/ ResultOfOnePath \/ MergePaths \/ Done \/ UNCHANGED vars

LEMMA WaitsKeeps ==
  ASSUME Waits
  PROVE  UNCHANGED <<pc, in, full, peers, execid, fuse, fresh, vjmp>> /\ (pure' => pure)
<1>1. CASE Main \/ NextLines \/ SyncMemory \/ SyncReg \/ ExecFails
  <2>1. UNCHANGED <<pc, in, full, peers, execid, fuse, fresh, vjmp>>
    BY <1>1 DEF Main, NextLines, SyncMemory, LinesLeft, SyncReg, ExecFails, scriptVars,
                outputVars, targetVars, historyVars
  <2>2. pure' => pure
    BY <1>1 DEF Main, NextLines, SyncMemory, LinesLeft, SyncReg, ExecFails, historyVars
  <2> QED BY <2>1, <2>2
<1>2. CASE ResultOfOnePath \/ MergePaths \/ Done \/ UNCHANGED vars
  BY <1>2 DEF ResultOfOnePath, MergePaths, Done, vars, scriptVars, outputVars, targetVars,
              historyVars
<1> QED BY <1>1, <1>2 DEF Waits

\* In every other step it executes an instruction, or its second run starts.
LEMMA NextStep ==
  ASSUME TypeOK, TypeOK', NEW b, OneBranch(Code, b), NEW q, AtStep(b, q), [Next]_vars
  PROVE  \/ Waits /\ AtStep(b, q)'
         \/ (Untraced \/ ExecInstruction) /\ pc # 0 /\ AtStep(b, q + 1)'
         \/ StartSecondPath /\ AtStep(b, 1)'
<1>1. CASE Waits
  <2>1. UNCHANGED <<pc, in, full, peers>>
    BY <1>1, WaitsKeeps
  <2> QED BY <1>1, <2>1 DEF AtStep, Path, Known, Side, SameSide
<1>2. CASE Untraced
  BY <1>2, RetireStep DEF Untraced
<1>3. CASE ExecInstruction
  <2>1. pc # 0 /\ Retire(Code[pc])
    BY <1>3 DEF ExecInstruction, ProcessInstruction, TypeOK
  <2> QED BY <1>3, <2>1, RetireStep
<1>4. CASE StartSecondPath
  <2>1. PICK e \in Entries : Enter(e, in', full', peers')
    BY <1>4 DEF StartSecondPath
  <2>2. pc' = 1 /\ in' \in Inputs
    BY <1>4 DEF StartSecondPath, TypeOK
  <2>3. Path(b)'[1] = 1 /\ 1 \in 1..Len(Path(b)') /\ 1 <= b.jump
    BY <2>2, FirstStep DEF Path, Side
  <2>4. \A l \in DOMAIN Known(b)'[1] : full'[l] = Known(b)'[1][l].val
    BY <2>1, <2>2, EntryKnown DEF Known, Side, Enter
  <2>5. peers' = Inputs
    BY <2>1 DEF Enter
  <2>6. AtStep(b, 1)'
    BY <2>2, <2>3, <2>4, <2>5 DEF AtStep
  <2> QED BY <1>4, <2>6
<1> QED BY <1>1, <1>2, <1>3, <1>4 DEF Next, Waits

\* The run is at the marker when it is at its address.
LEMMA MarkerStep ==
  ASSUME TypeOK, NEW b, OneBranch(Code, b), NEW q, AtStep(b, q), pc # 0
  PROVE  /\ Code[pc].addr = b.addr <=> q = b.at
         /\ q = b.at => /\ Code[pc].traced /\ b.flag \in DOMAIN Code[pc].eff
                        /\ b.flag \in DOMAIN Known(b)[q + 1] /\ Known(b)[q + 1][b.flag] = b.cond
<1>1. q \in 1..(Len(Path(b)) - 1) /\ pc = Path(b)[q] /\ in \in Inputs
  BY StepFacts DEF AtStep, TypeOK
<1>2. OneSide(Code, b, Side(b))
  BY <1>1, SideHolds DEF Side
<1>3. /\ \A k \in 1..(Len(Path(b)) - 1) : Code[Path(b)[k]].addr = b.addr <=> k = b.at
      /\ Code[Path(b)[b.at]].traced /\ b.flag \in DOMAIN Code[Path(b)[b.at]].eff
      /\ b.flag \in DOMAIN Known(b)[b.at + 1] /\ Known(b)[b.at + 1][b.flag] = b.cond
  BY <1>2 DEF OneSide, Known, Path
<1> QED BY <1>1, <1>3

LEMMA OneBranchSeparates ==
  ASSUME TypeOK, NEW b, OneBranch(Code, b), NEW q, AtStep(b, q), Names(b)
  PROVE  BranchSeparates(b.cond.val)
<1> DEFINE F == b.cond.val
<1>1. /\ peers = IF q <= b.jump THEN Inputs ELSE SameSide(F, in)
      /\ b.at \in Nat /\ b.jump \in Nat /\ b.at < b.jump
  BY StepFacts DEF AtStep
<1>2. pc = 0 => peers = SameSide(F, in)
  BY <1>1, StepFacts
<1>3. ASSUME stage = "i", Code[pc].addr = argv.vbraddr
      PROVE  /\ argv.vbrflag \in DOMAIN Code[pc].eff
             /\ After(Code[pc])[argv.vbrflag] = F
             /\ peers = Inputs
             /\ \A i \in Inputs : Took(Code[pc], i) = Took(Code[pc], in)
  <2>1. pc # 0 /\ in \in Inputs
    BY <1>3 DEF TypeOK
  <2>2. q = b.at /\ argv.vbrflag = b.flag
    BY <1>3, <2>1, MarkerStep DEF Names
  <2>3. /\ b.flag \in DOMAIN Code[pc].eff /\ b.flag \in DOMAIN Known(b)[q + 1]
        /\ Known(b)[q + 1][b.flag] = b.cond
    BY <2>1, <2>2, MarkerStep
  <2>4. After(Code[pc])[b.flag] = F
    BY <2>1, <2>3, StepKnown
  <2>5. \A i \in Inputs : Took(Code[pc], i) = Path(b)[q + 1]
    BY <1>1, <2>1, <2>2, StepTook
  <2>6. peers = Inputs
    BY <1>1, <2>2
  <2> QED BY <2>1, <2>2, <2>3, <2>4, <2>5, <2>6
<1> QED BY <1>1, <1>2, <1>3 DEF BranchSeparates

PlaceInv(b) == \E q : AtStep(b, q)

\* A function with one branch, replayed twice with the branch and the flag that
\* decide it: the merged expression is the function on both paths.
THEOREM OneBranchMerges ==
  ASSUME NEW n \in DOMAIN Programs, NEW b, OneBranch(Programs[n], b)
  PROVE  Spec => [](prog = n /\ Names(b) => MergeCorrect)
<1> DEFINE F == b.cond.val
           Inv == prog = n => PlaceInv(b) /\ (Names(b) => CondInv(F) /\ PastInv(F))
<1>1. Init => Inv
  BY EnterStep DEF Init, CondInv, PastInv, PlaceInv, Code
<1>2. /\ TypeOK /\ TypeOK' /\ FaithInv /\ FaithInv' /\ ResultInv /\ EndInv /\ Inv /\ [Next]_vars
      => Inv'
  <2> SUFFICES ASSUME TypeOK, TypeOK', FaithInv, FaithInv', ResultInv, EndInv, Inv, [Next]_vars,
                      prog = n
               PROVE  PlaceInv(b)' /\ (Names(b)' => CondInv(F)' /\ PastInv(F)')
    BY CommandKept
  <2>1. OneBranch(Code, b) /\ PlaceInv(b)
    BY DEF Code
  <2>2. Names(b)' => Names(b)
    BY CommandKept DEF Names
  <2>3. PICK q : AtStep(b, q)
    BY <2>1 DEF PlaceInv
  <2>4. Names(b) => CondInv(F)' /\ PastInv(F)'
    BY <2>1, <2>3, OneBranchSeparates, NextMerge
  <2>5. PlaceInv(b)'
    BY <2>1, <2>3, NextStep DEF PlaceInv
  <2> QED BY <2>2, <2>4, <2>5
<1>3. TypeOK /\ ResultInv /\ EndInv /\ Inv => (prog = n /\ Names(b) => MergeCorrect)
  BY OneBranchSeparates, MergedRightly DEF Code, PlaceInv
<1> HIDE DEF Inv
<1> QED BY <1>1, <1>2, <1>3, TypeCorrect, AlwaysFaithInv, AlwaysResultInv, AlwaysEndInv, PTL
        DEF Spec

-----------------------------------------------------------------------------
(* The second replay recognizes the branch the first one printed.          *)

\* Before the variables exist no AST holds one, and an immediate never does.
ClosedInv ==
  /\ ast[Zero].vars = {}
  /\ ~symvars => \A l \in Loc : ast[l].vars = {}

\* The variables for the bytes in B.
Symbols(B) == {VarOf(x) : x \in B \cap SymView}

\* At its q-th instruction, the AST of what is known, and written by the run, has
\* the variables of the bytes that are in it; the fuse burns at the first one.
VarsAt(b, q) ==
  /\ fuse /\ pure => q = 1
  /\ pure /\ ~fuse =>
       \A l \in fresh \cap DOMAIN Known(b)[q] : ast[l].vars = Symbols(Known(b)[q][l].vars)

\* The flag of the branch holds both variables.
FlagIsSymbolic(b) == Symbols(b.cond.vars) = Var

FirstPure == IF execid = 1 THEN pure ELSE past[1].pure

ReportedInv(b) ==
  FirstPure /\ (\E c \in reported : c.addr = argv.vbraddr /\ c.flag = argv.vbrflag)
    => FlagIsSymbolic(b)

\* The second replay has taken its condition when it has passed the marker.
TakenAt(b, q) == execid = 2 /\ pure /\ FlagIsSymbolic(b) /\ q > b.at => vjmp # <<>>

StepInv(b) == \E q : AtStep(b, q) /\ VarsAt(b, q) /\ (Names(b) => TakenAt(b, q))

LEMMA SymbolsOfUnion ==
  ASSUME NEW A, NEW B PROVE Symbols(A \cup B) = Symbols(A) \cup Symbols(B)
  BY DEF Symbols

LEMMA SymbolsKept ==
  ASSUME argv' = argv, NEW B PROVE Symbols(B)' = Symbols(B)
  BY DEF Symbols, SymView

LEMMA NextClosed ==
  ASSUME TypeOK, ClosedInv, [Next]_vars PROVE ClosedInv'
<1>1. ASSUME UNCHANGED <<ast, symvars>> PROVE ClosedInv'
  BY <1>1 DEF ClosedInv
<1>2. CASE Main \/ NextLines \/ ExecFails \/ Untraced
  BY <1>1, <1>2 DEF Main, NextLines, ExecFails, Untraced, contextVars
<1>3. CASE ResultOfOnePath \/ StartSecondPath \/ MergePaths \/ Done \/ UNCHANGED vars
  BY <1>1, <1>3 DEF ResultOfOnePath, StartSecondPath, MergePaths, Done, vars, contextVars
<1>4. CASE SyncMemory \/ SyncReg
  <2>1. /\ symvars' = symvars
        /\ \A l \in Loc : ast'[l] = ast[l] \/ ast'[l] = Const(Real[l])
    <3>1. ASSUME NEW groups, Sync(groups)
          PROVE  /\ symvars' = symvars
                 /\ \A l \in Loc : ast'[l] = ast[l] \/ ast'[l] = Const(Real[l])
      BY <3>1 DEF Sync
    <3> QED BY <1>4, <3>1 DEF SyncMemory, SyncReg, contextVars
  <2>2. \A v : Const(v).vars = {}
    BY DEF Const
  <2>3. Zero \in Loc
    BY AttackAssumption
  <2> QED BY <2>1, <2>2, <2>3 DEF ClosedInv
<1>5. CASE ExecInstruction
  <2>1. symvars' = TRUE /\ ast' = Processed(Code[pc]) /\ pc # 0
    BY <1>5 DEF ExecInstruction, ProcessInstruction, TypeOK
  <2>2. Zero \in Loc /\ Zero \notin DOMAIN Code[pc].eff
    BY <2>1, CodeType, AttackAssumption
  <2>3. ast'[Zero] = ast[Zero]
    BY <2>1, <2>2, ZeroIsNoArgument DEF Processed, FusedAst
  <2> QED BY <2>1, <2>3 DEF ClosedInv
<1> QED BY <1>2, <1>3, <1>4, <1>5 DEF Next

LEMMA AlwaysClosed == Spec => []ClosedInv
<1>1. Init => ClosedInv
  BY AttackAssumption DEF Init, ClosedInv, Const
<1>2. TypeOK /\ ClosedInv /\ [Next]_vars => ClosedInv'
  BY NextClosed
<1> QED BY <1>1, <1>2, TypeCorrect, PTL DEF Spec

\* What is known at the start of either side.
LEMMA FirstKnown ==
  ASSUME TypeOK, NEW b, OneBranch(Code, b), NEW l \in DOMAIN Known(b)[1]
  PROVE  \/ l \in DataBytes /\ Known(b)[1][l] = SymByte(l, l)
         \/ l = Zero /\ Known(b)[1][l] = Const(0)
<1>1. OneSide(Code, b, Side(b))
  BY SideHolds DEF Side, TypeOK
<1> QED BY <1>1 DEF OneSide, Known

\* The variables in the context once the fuse has burned.
LEMMA FusedVars ==
  ASSUME TypeOK, ClosedInv, NEW b, OneBranch(Code, b), NEW q, VarsAt(b, q), pure,
         NEW l \in fresh \cap DOMAIN Known(b)[q]
  PROVE  FusedAst[l].vars = Symbols(Known(b)[q][l].vars)
<1> DEFINE known == Known(b)
<1>1. l \in Loc
  BY DEF TypeOK
<1>2. CASE ~fuse
  BY <1>1, <1>2 DEF FusedAst, VarsAt
<1>3. CASE fuse
  <2>1. q = 1
    BY <1>3 DEF VarsAt
  <2>2. CASE l \in DataBytes /\ known[1][l] = SymByte(l, l)
    <3>1. known[q][l].vars = {l}
      BY <2>1, <2>2 DEF SymByte
    <3>2. CASE l \in SymView
      <4>1. FusedAst[l].vars = {VarOf(l)}
        BY <1>1, <1>3, <2>2, <3>2 DEF FusedAst, SymByte
      <4> QED BY <3>1, <3>2, <4>1 DEF Symbols
    <3>3. CASE l \notin SymView
      <4>1. FusedAst[l] = IF symvars THEN Const(0) ELSE ast[l]
        BY <1>1, <1>3, <2>2, <3>3 DEF FusedAst
      <4>2. FusedAst[l].vars = {}
        BY <1>1, <4>1 DEF ClosedInv, Const
      <4> QED BY <3>1, <3>3, <4>2 DEF Symbols
    <3> QED BY <3>2, <3>3
  <2>3. CASE l = Zero /\ known[1][l] = Const(0)
    <3>1. FusedAst[l] = ast[l]
      BY <1>1, <2>3, ZeroIsNoArgument DEF FusedAst
    <3>2. FusedAst[l].vars = {} /\ known[q][l].vars = {}
      BY <2>1, <2>3, <3>1 DEF ClosedInv, Const
    <3> QED BY <3>2 DEF Symbols
  <2> QED BY <2>1, <2>2, <2>3, FirstKnown
<1> QED BY <1>2, <1>3

\* An instruction of the path makes of them what the description says.
LEMMA ProcessedVars ==
  ASSUME TypeOK, FaithInv, ClosedInv, NEW b, OneBranch(Code, b), NEW q, AtStep(b, q),
         VarsAt(b, q), pure, stage = "i",
         NEW l \in (fresh \cup DOMAIN Code[pc].eff) \cap DOMAIN Known(b)[q + 1]
  PROVE  Processed(Code[pc])[l].vars = Symbols(Known(b)[q + 1][l].vars)
<1> DEFINE ins == Code[pc]
           before == Known(b)[q]
           after == Known(b)[q + 1]
           x == ins.eff[l].a
           y == ins.eff[l].b
<1>1. pc # 0 /\ Follows(after, ins, before) /\ l \in Loc
  BY StepKnown DEF TypeOK
<1>2. CASE l \in DOMAIN ins.eff
  <2>1. /\ x \in DOMAIN before /\ y \in DOMAIN before
        /\ after[l] = Combine(ins.eff[l].op, before[x], before[y])
    BY <1>1, <1>2 DEF Follows
  <2>2. x \in fresh /\ y \in fresh
    BY <1>2, OperandsAreSources DEF FaithInv, ReadsFresh
  <2>3. Processed(ins)[l] = Combine(ins.eff[l].op, FusedAst[x], FusedAst[y])
    BY <1>1, <1>2 DEF Processed
  <2>4. \A m \in fresh \cap DOMAIN before : FusedAst[m].vars = Symbols(before[m].vars)
    BY FusedVars
  <2>5. /\ Processed(ins)[l].vars = FusedAst[x].vars \cup FusedAst[y].vars
        /\ after[l].vars = before[x].vars \cup before[y].vars
    <3>1. \A op, u, v : Combine(op, u, v).vars = u.vars \cup v.vars
      BY DEF Combine
    <3> HIDE DEF ins, before, after, x, y
    <3> QED BY <2>1, <2>3, <3>1
  <2>6. Processed(ins)[l].vars = Symbols(after[l].vars)
    <3> HIDE DEF ins, before, after, x, y
    <3> QED BY <2>1, <2>2, <2>4, <2>5, SymbolsOfUnion
  <2> QED BY <2>6
<1>3. CASE l \notin DOMAIN ins.eff
  <2>1. l \in DOMAIN before /\ after[l] = before[l] /\ l \in fresh
    BY <1>1, <1>3 DEF Follows
  <2>2. Processed(ins)[l] = FusedAst[l]
    BY <1>1, <1>3 DEF Processed
  <2> QED BY <2>1, <2>2, FusedVars
<1> QED BY <1>2, <1>3

\* Synchronization leaves what a pure run has written alone.
LEMMA SyncVars ==
  ASSUME TypeOK, SyncInv, FaithInv, pure, ~fuse, SyncMemory \/ SyncReg, NEW l \in fresh
  PROVE  ast'[l] = ast[l]
<1>1. l \in Loc
  BY DEF TypeOK
<1>2. ASSUME NEW groups, Sync(groups), \A g \in groups : g \cap fresh # {} => SyncedOn(g)
      PROVE  ast'[l] = ast[l]
  <2>1. l \notin Stale(groups)
    BY <1>2 DEF Stale, SyncedOn
  <2> QED BY <1>1, <1>2, <2>1 DEF Sync
<1>3. CASE SyncReg
  <2>1. \A g \in Gpr : g \cap fresh # {} => SyncedOn(g)
    BY DEF FaithInv, NotStale
  <2> QED BY <1>2, <1>3, <2>1 DEF SyncReg
<1>4. CASE SyncMemory
  <2>1. PICK g \in todo : Sync({g}) \/ UNCHANGED contextVars
    BY <1>4 DEF SyncMemory, LinesLeft
  <2>2. stage = "mr" /\ pc # 0
    BY <1>4 DEF SyncMemory, TypeOK
  <2>3. g \subseteq Sources(Code[pc])
    BY <2>2 DEF SyncInv, Sources
  <2>4. SyncedOn(g)
    BY <2>2, <2>3 DEF FaithInv, ReadsFresh, NotStale, SyncedOn
  <2> QED BY <1>2, <2>1, <2>4 DEF contextVars
<1> QED BY <1>3, <1>4

LEMMA WaitsVars ==
  ASSUME TypeOK, SyncInv, FaithInv, NEW b, NEW q, VarsAt(b, q), Waits, argv' = argv
  PROVE  VarsAt(b, q)'
<1>1. UNCHANGED <<in, fuse, fresh>> /\ (pure' => pure)
  BY WaitsKeeps
<1>2. Known(b)' = Known(b) /\ \A B : Symbols(B)' = Symbols(B)
  BY <1>1, SymbolsKept DEF Known, Side
<1>3. ASSUME pure, ~fuse, NEW l \in fresh PROVE ast'[l] = ast[l]
  <2>1. CASE SyncMemory \/ SyncReg
    BY <1>3, <2>1, SyncVars
  <2>2. CASE ~(SyncMemory \/ SyncReg)
    BY <2>2 DEF Waits, Main, NextLines, ExecFails, ResultOfOnePath, MergePaths, Done, vars,
                contextVars
  <2> QED BY <2>1, <2>2
<1> QED BY <1>1, <1>2, <1>3 DEF VarsAt

LEMMA RetireVars ==
  ASSUME TypeOK, FaithInv, ClosedInv, NEW b, OneBranch(Code, b), NEW q, AtStep(b, q),
         VarsAt(b, q), pc # 0, Untraced \/ ExecInstruction, argv' = argv
  PROVE  VarsAt(b, q + 1)'
<1>1. in' = in
  BY DEF Untraced, ExecInstruction, ProcessInstruction, Retire
<1>2. Known(b)' = Known(b) /\ \A B : Symbols(B)' = Symbols(B)
  BY <1>1, SymbolsKept DEF Known, Side
<1>3. CASE Untraced
  <2>1. /\ fuse' = fuse /\ ast' = ast
        /\ fresh' = fresh \ Touched(DOMAIN Code[pc].eff)
    BY <1>3 DEF Untraced, scriptVars, contextVars
  <2>2. pure' => pure /\ ~fuse
    BY <1>3 DEF Untraced
  <2>3. ASSUME pure, ~fuse, NEW l \in fresh' \cap DOMAIN Known(b)[q + 1]
        PROVE  ast[l].vars = Symbols(Known(b)[q + 1][l].vars)
    <3>1. l \in fresh /\ l \notin DOMAIN Code[pc].eff
      BY <2>1, <2>3 DEF Touched
    <3>2. l \in DOMAIN Known(b)[q] /\ Known(b)[q + 1][l] = Known(b)[q][l]
      BY <2>3, <3>1, StepKnown DEF Follows
    <3> QED BY <2>3, <3>1, <3>2 DEF VarsAt
  <2> QED BY <1>2, <2>1, <2>2, <2>3 DEF VarsAt
<1>4. CASE ExecInstruction
  <2>1. /\ stage = "i" /\ fuse' = FALSE /\ pure' = pure
        /\ ast' = Processed(Code[pc]) /\ fresh' = fresh \cup DOMAIN Code[pc].eff
    BY <1>4 DEF ExecInstruction, ProcessInstruction
  <2>2. ASSUME pure, NEW l \in fresh' \cap DOMAIN Known(b)[q + 1]
        PROVE  ast'[l].vars = Symbols(Known(b)[q + 1][l].vars)
    BY <2>1, <2>2, ProcessedVars
  <2> QED BY <1>2, <2>1, <2>2 DEF VarsAt
<1> QED BY <1>3, <1>4

\* At the marker, the AST of the flag has the variables of the flag.
LEMMA MarkerVars ==
  ASSUME TypeOK, FaithInv, ClosedInv, NEW b, OneBranch(Code, b), NEW q, AtStep(b, q),
         VarsAt(b, q), pure, stage = "i", q = b.at
  PROVE  /\ b.flag \in DOMAIN Code[pc].eff
         /\ Processed(Code[pc])[b.flag].vars = Symbols(b.cond.vars)
<1>1. pc # 0
  BY DEF TypeOK
<1>2. /\ b.flag \in DOMAIN Code[pc].eff
      /\ b.flag \in DOMAIN Known(b)[q + 1] /\ Known(b)[q + 1][b.flag] = b.cond
  BY <1>1, MarkerStep
<1> QED BY <1>2, ProcessedVars

\* The first replay prints the given branch only if its flag holds both variables.
LEMMA NextReported ==
  ASSUME TypeOK, FaithInv, ResultInv, EndInv, ClosedInv, NEW b, OneBranch(Code, b), NEW q,
         AtStep(b, q), VarsAt(b, q), Names(b), ReportedInv(b), [Next]_vars
  PROVE  ReportedInv(b)'
<1>0. argv' = argv /\ FlagIsSymbolic(b)' = FlagIsSymbolic(b)
  BY CommandKept, SymbolsKept DEF FlagIsSymbolic
<1>1. ASSUME FirstPure' => FirstPure, reported' = reported PROVE ReportedInv(b)'
  BY <1>0, <1>1 DEF ReportedInv
<1>2. CASE Main \/ NextLines \/ ExecFails \/ SyncMemory \/ SyncReg \/ Untraced
  <2>1. UNCHANGED <<execid, past, reported>>
    BY <1>2 DEF Main, NextLines, ExecFails, SyncMemory, LinesLeft, SyncReg, Untraced, scriptVars,
                outputVars, historyVars
  <2>2. pure' => pure
    BY <1>2 DEF Main, NextLines, ExecFails, SyncMemory, LinesLeft, SyncReg, Untraced, historyVars
  <2> QED BY <1>1, <2>1, <2>2 DEF FirstPure
<1>3. CASE Done \/ UNCHANGED vars
  BY <1>1, <1>3 DEF Done, vars, scriptVars, outputVars, historyVars, FirstPure
<1>4. CASE ResultOfOnePath
  <2>1. UNCHANGED <<execid, pure, reported>> /\ execid = 1
    BY <1>4 DEF ResultOfOnePath
  <2> QED BY <1>1, <2>1 DEF FirstPure
<1>5. CASE StartSecondPath
  <2>1. /\ past = <<>> /\ past' = Append(past, RunRecord) /\ execid = 1 /\ execid' = 2
        /\ reported' = reported
    BY <1>5 DEF StartSecondPath, EndOfFile, ResultInv
  <2>2. past'[1] = RunRecord
    BY <2>1, RunRecordType, AppendFacts DEF TypeOK
  <2>3. past'[1].pure = pure
    BY <2>2 DEF RunRecord
  <2> QED BY <1>1, <2>1, <2>3 DEF FirstPure
<1>6. CASE MergePaths
  <2>1. /\ Len(past) = 1 /\ past' = Append(past, RunRecord) /\ execid = 2
        /\ UNCHANGED <<execid, reported>>
    BY <1>6 DEF MergePaths, EndOfFile, ResultInv
  <2>2. past'[1] = past[1]
    <3>1. past \in Seq(RunType) /\ RunRecord \in RunType
      BY RunRecordType DEF TypeOK
    <3>2. \A k \in 1..Len(past) : Append(past, RunRecord)[k] = past[k]
      BY ONLY <3>1, AppendFacts
    <3> QED BY <2>1, <3>2
  <2> QED BY <1>1, <2>1, <2>2 DEF FirstPure
<1>7. CASE ExecInstruction
  <2>1. UNCHANGED <<execid, past, pure>> /\ stage = "i" /\ pc # 0
    BY <1>7 DEF ExecInstruction, ProcessInstruction, TypeOK
  <2>2. FirstPure' = FirstPure
    BY <2>1 DEF FirstPure
  <2>3. CASE reported' = reported
    BY <1>1, <2>2, <2>3
  <2>4. ASSUME execid = 1, NEW c \in Report(Code[pc], Marker(Code[pc])),
               reported' = reported \cup {c}
        PROVE  ReportedInv(b)'
    <3>1. /\ c.addr = Code[pc].addr /\ c.flag \in Marker(Code[pc])
          /\ Processed(Code[pc])[c.flag].vars = Var
      BY <2>4 DEF Report, Candidates
    <3>2. ASSUME c.addr = argv.vbraddr, c.flag = argv.vbrflag, pure PROVE FlagIsSymbolic(b)
      <4>1. q = b.at /\ c.flag = b.flag
        BY <2>1, <3>1, <3>2, MarkerStep DEF Names
      <4> QED BY <2>1, <3>1, <3>2, <4>1, MarkerVars DEF FlagIsSymbolic
    <3>3. FirstPure <=> pure
      BY <2>4 DEF FirstPure
    <3> QED BY <1>0, <2>2, <2>4, <3>2, <3>3 DEF ReportedInv
  <2> QED BY <1>7, <2>3, <2>4 DEF ExecInstruction, DetectingVjmp
<1> QED BY <1>2, <1>3, <1>4, <1>5, <1>6, <1>7 DEF Next

\* The second replay takes its condition at the marker.
LEMMA RetireTaken ==
  ASSUME TypeOK, FaithInv, ClosedInv, NEW b, OneBranch(Code, b), NEW q, AtStep(b, q),
         VarsAt(b, q), Names(b), TakenAt(b, q), pc # 0, Untraced \/ ExecInstruction, argv' = argv
  PROVE  TakenAt(b, q + 1)'
<1>1. FlagIsSymbolic(b)' = FlagIsSymbolic(b)
  BY SymbolsKept DEF FlagIsSymbolic
<1>2. q + 1 > b.at => q > b.at \/ q = b.at
  BY StepFacts
<1>3. CASE Untraced
  <2>1. ~Code[pc].traced /\ execid' = execid /\ vjmp' = vjmp
    BY <1>3 DEF Untraced, scriptVars, outputVars
  <2>2. pure' => pure
    BY <1>3 DEF Untraced
  <2>3. q # b.at
    BY <2>1, MarkerStep
  <2> QED BY <1>1, <1>2, <2>1, <2>2, <2>3 DEF TakenAt
<1>4. CASE ExecInstruction
  <2>1. /\ stage = "i" /\ UNCHANGED <<execid, pure>>
        /\ vjmp' = IF execid = 2 /\ AtVirtualBranch(Code[pc])
                     THEN Append(vjmp, Condition(Code[pc])) ELSE vjmp
    BY <1>4 DEF ExecInstruction, ProcessInstruction, DetectingVjmp
  <2>2. vjmp # <<>> \/ (execid = 2 /\ AtVirtualBranch(Code[pc])) => vjmp' # <<>>
    <3>1. vjmp \in Seq(SUBSET Inputs)
      BY DEF TypeOK
    <3> QED BY <2>1, <3>1
  <2>3. ASSUME execid = 2, pure, FlagIsSymbolic(b), q = b.at PROVE vjmp' # <<>>
    <3>1. b.flag \in DOMAIN Code[pc].eff /\ Processed(Code[pc])[b.flag].vars = Var
      BY <2>1, <2>3, MarkerVars DEF FlagIsSymbolic
    <3>2. argv.vbrflag = b.flag /\ argv.vbraddr = Code[pc].addr
      BY <2>3, MarkerStep DEF Names
    <3>3. argv.vbraddr # 0 /\ argv.vbrflag # NoFlag
      BY <3>1, <3>2, CodeType, AttackAssumption
    <3>4. IsSymbolized(Code[pc])
      BY <3>1 DEF IsSymbolized, Var
    <3> QED BY <2>2, <2>3, <3>1, <3>2, <3>3, <3>4 DEF AtVirtualBranch
  <2> QED BY <1>1, <1>2, <2>1, <2>2, <2>3 DEF TakenAt
<1> QED BY <1>3, <1>4

LEMMA NextStepInv ==
  ASSUME TypeOK, TypeOK', SyncInv, FaithInv, ClosedInv, NEW b, OneBranch(Code, b), StepInv(b),
         [Next]_vars
  PROVE  StepInv(b)'
<1>1. PICK q : AtStep(b, q) /\ VarsAt(b, q) /\ (Names(b) => TakenAt(b, q))
  BY DEF StepInv
<1>2. argv' = argv /\ Names(b)' = Names(b) /\ FlagIsSymbolic(b)' = FlagIsSymbolic(b)
  BY CommandKept, SymbolsKept DEF Names, FlagIsSymbolic
<1>3. CASE Waits /\ AtStep(b, q)'
  <2>1. VarsAt(b, q)'
    BY <1>1, <1>2, <1>3, WaitsVars
  <2>2. UNCHANGED <<execid, vjmp>> /\ (pure' => pure)
    BY <1>3, WaitsKeeps
  <2>3. Names(b)' => TakenAt(b, q)'
    BY <1>1, <1>2, <2>2 DEF TakenAt
  <2> QED BY <1>3, <2>1, <2>3 DEF StepInv
<1>4. CASE (Untraced \/ ExecInstruction) /\ pc # 0 /\ AtStep(b, q + 1)'
  <2>1. VarsAt(b, q + 1)'
    BY <1>1, <1>2, <1>4, RetireVars
  <2>2. Names(b)' => TakenAt(b, q + 1)'
    BY <1>1, <1>2, <1>4, RetireTaken
  <2> QED BY <1>4, <2>1, <2>2 DEF StepInv
<1>5. CASE StartSecondPath /\ AtStep(b, 1)'
  <2>1. fuse' = TRUE
    BY <1>5 DEF StartSecondPath
  <2>2. ~(1 > b.at)
    BY DEF OneBranch
  <2>3. VarsAt(b, 1)' /\ TakenAt(b, 1)'
    BY <2>1, <2>2 DEF VarsAt, TakenAt
  <2> QED BY <1>5, <2>3 DEF StepInv
<1> QED BY <1>1, <1>3, <1>4, <1>5, NextStep

LEMMA WorkflowEnds ==
  ASSUME TypeOK, EndInv, NEW b, OneBranch(Code, b), StepInv(b), Names(b), ReportedInv(b)
  PROVE  WorkflowAnswered
<1> SUFFICES ASSUME Len(past) = 2, ReadmeWorkflow, past[1].pure, past[2].pure, past[2].whole
             PROVE  outcome = "ok"
  BY DEF WorkflowAnswered
<1>1. execid = 2 /\ past[2] = RunRecord /\ (outcome = "ok" <=> vjmp # <<>>)
  BY DEF EndInv
<1>2. pure /\ pc = 0
  <2>1. RunRecord.pure = pure /\ RunRecord.whole = (pc = 0)
    BY DEF RunRecord
  <2> QED BY <1>1, <2>1
<1>3. FlagIsSymbolic(b)
  BY <1>1 DEF ReportedInv, ReadmeWorkflow, FirstPure
<1>4. PICK q : AtStep(b, q) /\ TakenAt(b, q)
  BY DEF StepInv
<1>5. q > b.at
  BY <1>2, <1>4, StepFacts
<1> QED BY <1>1, <1>2, <1>3, <1>4, <1>5 DEF TakenAt

\* For a function with one branch, the README's workflow on whole recordings never
\* ends in the IndexError of line 208: what the first replay printed, the second
\* one recognizes.
THEOREM OneBranchIsAnswered ==
  ASSUME NEW n \in DOMAIN Programs, NEW b, OneBranch(Programs[n], b)
  PROVE  Spec => [](prog = n /\ Names(b) => WorkflowAnswered)
<1> DEFINE Inv == prog = n => StepInv(b) /\ (Names(b) => ReportedInv(b))
<1>1. Init => Inv
  <2> SUFFICES ASSUME Init, prog = n PROVE StepInv(b) /\ ReportedInv(b)
    OBVIOUS
  <2>1. AtStep(b, 1)
    BY EnterStep DEF Code
  <2>2. VarsAt(b, 1) /\ TakenAt(b, 1) /\ ReportedInv(b)
    BY DEF Init, VarsAt, TakenAt, ReportedInv
  <2> QED BY <2>1, <2>2 DEF StepInv
<1>2. /\ TypeOK /\ TypeOK' /\ SyncInv /\ FaithInv /\ ResultInv /\ EndInv /\ ClosedInv
      /\ Inv /\ [Next]_vars
      => Inv'
  <2> SUFFICES ASSUME TypeOK, TypeOK', SyncInv, FaithInv, ResultInv, EndInv, ClosedInv, Inv,
                      [Next]_vars, prog = n
               PROVE  StepInv(b)' /\ (Names(b)' => ReportedInv(b)')
    BY CommandKept
  <2>1. OneBranch(Code, b) /\ StepInv(b)
    BY DEF Code
  <2>2. Names(b)' => Names(b)
    BY CommandKept DEF Names
  <2>3. PICK q : AtStep(b, q) /\ VarsAt(b, q)
    BY <2>1 DEF StepInv
  <2>4. Names(b) => ReportedInv(b)'
    BY <2>1, <2>3, NextReported
  <2> QED BY <2>1, <2>2, <2>4, NextStepInv
<1>3. TypeOK /\ EndInv /\ Inv => (prog = n /\ Names(b) => WorkflowAnswered)
  BY WorkflowEnds DEF Code
<1> HIDE DEF Inv
<1> QED BY <1>1, <1>2, <1>3, TypeCorrect, SyncedSoFar, AlwaysFaithInv, AlwaysResultInv,
           AlwaysEndInv, AlwaysClosed, PTL DEF Spec

=============================================================================
