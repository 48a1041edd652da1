----------------------------- MODULE AttackVmp -----------------------------
(***************************************************************************)
(* attack_vmp.py: one or two recorded traces of a protected function are   *)
(* replayed in one Triton context, the return register's AST is the        *)
(* devirtualized expression, and with two traces the two expressions are   *)
(* merged under the condition found at the virtual branch.                 *)
(*                                                                         *)
(* A trace file is what the traced process did, one group of lines per     *)
(* instruction: `mr` lines for its memory reads, an `r` line, an `i` line. *)
(* The model produces the groups one at a time, as the script reads them,  *)
(* by running the traced program next to the replay.  The program runs on  *)
(* every input at once: full[l][i] is what location l holds on the current *)
(* path when the arguments are i, and the recorded run is the one of `in`. *)
(***************************************************************************)
EXTENDS TritonContext

CONSTANTS
  Gpr,        \* the general purpose registers of an `r` line: sets of bytes
  RetBytes,   \* the bytes of eax
  Cf, Af,     \* the carry and the auxiliary carry flag
  Zero,       \* a location that always holds 0, the source of immediates
  Programs,   \* the protected functions that are traced, by name
  Entries,    \* the machine states in which the region may be entered
  Argvs,      \* the command lines
  NoFlag,     \* --vbrflag is not given
  Interrupted \* whether a recording may have been cut short

Term  == [op : BinOp, a : Loc, b : Loc]

Argv == [trace1 : BOOLEAN, trace2 : BOOLEAN, symsize : Nat,
         vbraddr : Nat, vbrflag : Loc \cup {NoFlag}]

\* A traced program is a function from its instructions to what each does: it
\* reads the memory operands in mem, assigns every byte in DOMAIN eff, and
\* control then moves to tgt[value of sel], 0 being the end of the region.
\* `regs` says that both operands are registers and `traced` that the tracer
\* recorded the instruction.
WellFormedProgram(p) ==
  /\ 1 \in DOMAIN p
  /\ \A k \in DOMAIN p :
       /\ p[k].addr \in Nat \ {0}
       /\ p[k].kind \in {"popfq", "cmp", "other"}
       /\ p[k].kind = "popfq" => Cf \in DOMAIN p[k].eff
       /\ p[k].kind = "cmp" => Af \in DOMAIN p[k].eff
       /\ p[k].regs \in BOOLEAN /\ p[k].traced \in BOOLEAN
       /\ p[k].mem \subseteq SUBSET (Loc \ {Zero})
       /\ DOMAIN p[k].eff \subseteq Loc \ {Zero}
       /\ \A l \in DOMAIN p[k].eff : p[k].eff[l] \in Term
       /\ p[k].sel \in Loc
       /\ p[k].tgt \in [Val -> DOMAIN p \cup {0}]

ASSUME AttackAssumption ==
  /\ Gpr \subseteq SUBSET (Loc \ {Zero})
  /\ DataBytes \subseteq UNION Gpr
  /\ RetBytes \subseteq Loc \ (DataBytes \cup {Zero}) /\ RetBytes # {}
  /\ Cf \in Loc /\ Af \in Loc /\ Zero \in Loc
  /\ \A n \in DOMAIN Programs : WellFormedProgram(Programs[n])
  /\ Entries \subseteq [Loc -> Val]
  /\ \A e \in Entries : e[Zero] = 0
  /\ Argvs \subseteq Argv
  /\ NoFlag \notin Loc
  /\ Interrupted \in BOOLEAN

-----------------------------------------------------------------------------
VARIABLES
  argv, phase, outcome,       \* main and analysis
  execid, fuse, stage, todo,  \* one_path and emulate
  conc, ast, varval, symvars, \* the Triton context
  vjmp, reported, ret,        \* V_JMP, the printed candidates, the result
  prog, pc, in, full, peers,  \* the traced program, external
  fresh, pure, past           \* history

scriptVars  == <<argv, phase, outcome, execid, fuse, stage, todo>>
contextVars == <<conc, ast, varval, symvars>>
outputVars  == <<vjmp, reported, ret>>
targetVars  == <<prog, pc, in, full, peers>>
historyVars == <<fresh, pure, past>>
vars == <<scriptVars, contextVars, outputVars, targetVars, historyVars>>

\* The program being traced.
Code == Programs[prog]

\* What location l holds in the recorded run.
Real == [l \in Loc |-> full[l][in]]

EntryInput(e) == [b \in DataBytes |-> e[b]]
EntryFull(e)  == [l \in Loc |-> [i \in Inputs |-> IF l \in DataBytes THEN i[l] ELSE e[l]]]

\* The part of an entry of the region that a run of the target fixes.
Enter(e, inN, fullN, peersN) ==
  /\ inN = EntryInput(e)
  /\ fullN = EntryFull(e)
  /\ peersN = Inputs

Init ==
  /\ argv \in Argvs
  /\ phase = "argv" /\ outcome = "none"
  /\ execid = 1 /\ fuse = TRUE /\ stage = "fetch" /\ todo = {}
  /\ conc = [l \in Loc |-> 0]
  /\ ast = [l \in Loc |-> Const(0)]
  /\ varval = [b \in DataBytes |-> 0]
  /\ symvars = FALSE
  /\ vjmp = <<>> /\ reported = {} /\ ret = [b \in RetBytes |-> Const(0)]
  /\ prog \in DOMAIN Programs
  /\ pc = 1
  /\ \E e \in Entries : Enter(e, in, full, peers)
  /\ fresh = DataBytes \cup {Zero} /\ pure = TRUE /\ past = <<>>

-----------------------------------------------------------------------------
(* main: the command line is checked before anything is replayed.          *)

ValidSizes == {1, 2, 4, 8}

ArgsAccepted ==
  /\ argv.trace1
  /\ argv.symsize \in ValidSizes
  /\ argv.trace2 => argv.vbrflag # NoFlag

Main ==
  /\ phase = "argv"
  /\ IF ArgsAccepted
       THEN phase' = "replay" /\ UNCHANGED outcome
       ELSE phase' = "exit" /\ outcome' = "usage"
  /\ UNCHANGED <<argv, execid, fuse, stage, todo, contextVars, outputVars,
                 targetVars, historyVars>>

-----------------------------------------------------------------------------
(* The traced program.  It has already run when its trace is replayed.     *)

Sources(ins) ==
  (UNION ins.mem) \cup {ins.eff[l].a : l \in DOMAIN ins.eff}
                  \cup {ins.eff[l].b : l \in DOMAIN ins.eff}

After(ins) ==
  [l \in Loc |->
     IF l \in DOMAIN ins.eff
       THEN [i \in Inputs |-> ins.eff[l].op[<<full[ins.eff[l].a][i], full[ins.eff[l].b][i]>>]]
       ELSE full[l]]

\* The process executes ins: registers, memory, control and the inputs that
\* are still on the recorded path.
Retire(ins) ==
  /\ full' = After(ins)
  /\ pc' = ins.tgt[After(ins)[ins.sel][in]]
  /\ peers' = {i \in peers : ins.tgt[After(ins)[ins.sel][i]] = pc'}
  /\ UNCHANGED <<prog, in>>

\* Every general purpose register with a byte in D.
Touched(D) == D \cup UNION {g \in Gpr : g \cap D # {}}

\* An instruction the tracer did not record: a library, a stale code cache.
Untraced ==
  /\ phase = "replay" /\ stage = "fetch" /\ pc # 0 /\ ~Code[pc].traced
  /\ Retire(Code[pc])
  /\ fresh' = fresh \ Touched(DOMAIN Code[pc].eff)
  /\ pure' = (pure /\ ~fuse)
  /\ UNCHANGED <<scriptVars, contextVars, outputVars, past>>

\* The next group of lines.  The run stays pure while its instructions read
\* only the arguments and what recorded instructions of this run have written.
NextLines ==
  /\ phase = "replay" /\ stage = "fetch" /\ pc # 0 /\ Code[pc].traced
  /\ stage' = "mr" /\ todo' = Code[pc].mem
  /\ pure' = (pure /\ Sources(Code[pc]) \subseteq fresh)
  /\ UNCHANGED <<argv, phase, outcome, execid, fuse, contextVars, outputVars,
                 targetVars, fresh, past>>

-----------------------------------------------------------------------------
(* emulate: one line of the trace file at a time.                          *)

\* Mutations: synchronize every operand; only the operands without a variable.
StaleAlways(groups) == UNION groups
StaleConcrete(groups) ==
  UNION {g \in groups : (\E b \in g : conc[b] # Real[b]) /\ \A b \in g : ast[b].vars = {}}

\* The groups of bytes whose concrete value differs from the recorded one.
\* sync_reg and sync_memory compare whole operands, so one byte that differs
\* makes setConcrete...Value overwrite, and concretize, every byte of it.
Stale(groups) == UNION {g \in groups : \E b \in g : conc[b] # Real[b]}

\* Mutation: setting a concrete value leaves the AST.
SyncKeepsAst(groups) ==
  /\ conc' = [l \in Loc |-> IF l \in Stale(groups) THEN Real[l] ELSE conc[l]]
  /\ UNCHANGED <<ast, varval, symvars>>

Sync(groups) ==
  /\ conc' = [l \in Loc |-> IF l \in Stale(groups) THEN Real[l] ELSE conc[l]]
  /\ ast'  = [l \in Loc |-> IF l \in Stale(groups) THEN Const(Real[l]) ELSE ast[l]]
  /\ UNCHANGED <<varval, symvars>>

\* cb_memread writes the data of operands of these sizes only.
LoggedSizes == {1, 2, 4, 8}

\* Mutation: the line is read again.
LinesLeftAll(g) == todo

LinesLeft(g) == todo \ {g}

SyncMemory ==
  /\ stage = "mr"
  /\ \E g \in todo :
       /\ todo' = LinesLeft(g)
       /\ IF Cardinality(g) \in LoggedSizes
            THEN Sync({g}) /\ UNCHANGED <<phase, outcome, stage>>
            ELSE /\ phase' = "exit" /\ outcome' = "ValueError" /\ stage' = "fetch"
                 /\ UNCHANGED contextVars
  /\ UNCHANGED <<argv, execid, fuse, outputVars, targetVars, historyVars>>

SyncReg ==
  /\ stage = "mr" /\ todo = {}
  /\ Sync(Gpr)
  /\ stage' = "i"
  /\ UNCHANGED <<argv, phase, outcome, execid, fuse, todo, outputVars,
                 targetVars, historyVars>>

-----------------------------------------------------------------------------
(* exec_instruction.                                                       *)

SymView == SymBytes(argv.symsize)

\* The inputs that differ from w in the symbolic bytes only.
Covered(w) == {i \in Inputs : \A b \in DataBytes \ SymView : i[b] = w[b]}

\* update_sym_var gives the variables the whole 64-bit register, and Triton
\* refuses a value that does not fit the variable.
TooBig == fuse /\ symvars /\ \E b \in DataBytes \ SymView : conc[b] # 0

\* Mutation: the second trace does not give the variables back to rdi and rsi.
FusedAstOnce ==
  [l \in Loc |-> IF fuse /\ ~symvars /\ l \in SymView THEN SymByte(l, VarOf(l)) ELSE ast[l]]

\* The context after the fuse: symbolizeRegister on the views of the first
\* trace, zero extended variables on the whole registers of the second.
FusedAst ==
  [l \in Loc |->
     IF ~fuse \/ l \notin DataBytes THEN ast[l]
     ELSE IF l \in SymView THEN SymByte(l, VarOf(l))
     ELSE IF symvars THEN Const(0) ELSE ast[l]]

FusedVarval == IF fuse THEN [b \in DataBytes |-> conc[b]] ELSE varval

\* ctx.processing(inst): an AST for every byte the instruction assigns.
Processed(ins) ==
  [l \in Loc |->
     IF l \in DOMAIN ins.eff
       THEN Combine(ins.eff[l].op, FusedAst[ins.eff[l].a], FusedAst[ins.eff[l].b])
       ELSE FusedAst[l]]

\* inst.isSymbolized(): some expression the instruction built holds a variable.
IsSymbolized(ins) == \E l \in DOMAIN ins.eff : Processed(ins)[l].vars # {}

\* The flag a virtual jump marker looks at.
Marker(ins) ==
  CASE ins.kind = "popfq"            -> {Cf}
    [] ins.kind = "cmp" /\ ins.regs  -> {Af}
    [] OTHER                         -> {}

\* What a replay can print about the flags in F: models of the variables.
Candidates(ins, F) ==
  {[addr |-> ins.addr, flag |-> f, model |-> m] :
     f \in {f \in F : IsSymbolized(ins) /\ Processed(ins)[f].vars = Var},
     m \in Covered(FusedVarval)}

Flips(ins, c) ==
  Evaluate(Processed(ins)[c.flag], c.model) # Evaluate(Processed(ins)[c.flag], FusedVarval)

\* The models that flip the flag, getModel(flag != flag.evaluate()).
Report(ins, F) == {c \in Candidates(ins, F) : Flips(ins, c)}

\* Mutation: the comparison of the first replay, flag != flag.evaluate().
ConditionNegated(ins) ==
  LET flag == Processed(ins)[argv.vbrflag]
  IN  {i \in Inputs : Evaluate(flag, i) # Evaluate(flag, FusedVarval)}

\* The condition the second replay appends to V_JMP, as the inputs it holds for.
Condition(ins) ==
  LET flag == Processed(ins)[argv.vbrflag]
  IN  {i \in Inputs : Evaluate(flag, i) = Evaluate(flag, FusedVarval)}

AtVirtualBranch(ins) ==
  /\ argv.vbraddr # 0 /\ argv.vbrflag # NoFlag
  /\ IsSymbolized(ins) /\ ins.addr = argv.vbraddr
  /\ Processed(ins)[argv.vbrflag].vars = Var

DetectingVjmp(ins) ==
  /\ IF execid = 1 /\ Report(ins, Marker(ins)) # {}
       THEN \E c \in Report(ins, Marker(ins)) : reported' = reported \cup {c}
       ELSE UNCHANGED reported
  /\ vjmp' = IF execid = 2 /\ AtVirtualBranch(ins)
               THEN Append(vjmp, Condition(ins)) ELSE vjmp

\* symbolizeRegister or update_sym_var, then ctx.processing(inst).
ProcessInstruction ==
  /\ stage = "i"
  /\ varval' = FusedVarval
  /\ symvars' = TRUE
  /\ ast' = Processed(Code[pc])
  /\ conc' = [l \in Loc |-> IF l \in DOMAIN Code[pc].eff
                              THEN Evaluate(Processed(Code[pc])[l], FusedVarval)
                              ELSE conc[l]]
  /\ fuse' = FALSE /\ stage' = "fetch"
  /\ Retire(Code[pc])
  /\ fresh' = fresh \cup DOMAIN Code[pc].eff
  /\ UNCHANGED <<argv, phase, outcome, execid, todo, ret, pure, past>>

ExecInstruction == ~TooBig /\ ProcessInstruction /\ DetectingVjmp(Code[pc])

ExecFails ==
  /\ stage = "i" /\ TooBig
  /\ phase' = "exit" /\ outcome' = "SymbolicEngine" /\ stage' = "fetch"
  /\ UNCHANGED <<argv, execid, fuse, todo, contextVars, outputVars,
                 targetVars, historyVars>>

-----------------------------------------------------------------------------
(* analysis.                                                               *)

\* The file ends after the last instruction of the region, or after any line if
\* the recording was interrupted; the script does not tell one from the other.
EndOfFile == phase = "replay" /\ ((stage = "fetch" /\ pc = 0) \/ Interrupted)

\* Mutation: the concrete value of eax.
EaxConcrete == [b \in RetBytes |-> Const(conc[b])]

Eax == [b \in RetBytes |-> ast[b]]

\* What this run of the function returned, for every input on its path.
RunRecord == [in |-> in, peers |-> peers, pure |-> pure, fresh |-> fresh,
              whole |-> pc = 0, eax |-> [b \in RetBytes |-> full[b]]]

\* A single trace: its expression is the result.
ResultOfOnePath ==
  /\ EndOfFile /\ execid = 1 /\ ~argv.trace2
  /\ ret' = Eax
  /\ phase' = "exit" /\ outcome' = "ok"
  /\ past' = Append(past, RunRecord)
  /\ stage' = "fetch"
  /\ UNCHANGED <<argv, execid, fuse, todo, contextVars, vjmp, reported,
                 targetVars, fresh, pure>>

\* The second trace is replayed in the context the first one left.
StartSecondPath ==
  /\ EndOfFile /\ execid = 1 /\ argv.trace2
  /\ ret' = Eax
  /\ execid' = 2 /\ fuse' = TRUE /\ stage' = "fetch"
  /\ pc' = 1
  /\ \E e \in Entries : Enter(e, in', full', peers')
  /\ fresh' = DataBytes \cup {Zero} /\ pure' = TRUE
  /\ past' = Append(past, RunRecord)
  /\ UNCHANGED <<argv, phase, outcome, todo, contextVars, vjmp, reported, prog>>

\* Mutation: the arms swapped.
IteSwapped(cond, a, b) ==
  [val  |-> [i \in Inputs |-> IF i \in cond THEN b.val[i] ELSE a.val[i]],
   vars |-> Var]

Ite(cond, a, b) ==
  [val  |-> [i \in Inputs |-> IF i \in cond THEN a.val[i] ELSE b.val[i]],
   vars |-> Var]

\* ite(V_JMP[0], ret_expr2, ret_expr1); an empty V_JMP raises IndexError.
MergePaths ==
  /\ EndOfFile /\ execid = 2
  /\ phase' = "exit" /\ stage' = "fetch"
  /\ past' = Append(past, RunRecord)
  /\ IF vjmp = <<>>
       THEN outcome' = "IndexError" /\ UNCHANGED ret
       ELSE /\ outcome' = "ok"
            /\ ret' = [b \in RetBytes |-> Ite(vjmp[1], ast[b], ret[b])]
  /\ UNCHANGED <<argv, execid, fuse, todo, contextVars, vjmp, reported,
                 targetVars, fresh, pure>>

\* The script has exited.
Done == phase = "exit" /\ UNCHANGED vars

Next ==
  \/ Main
  \/ Untraced \/ NextLines
  \/ SyncMemory \/ SyncReg
  \/ ExecInstruction \/ ExecFails
  \/ ResultOfOnePath \/ StartSecondPath \/ MergePaths
  \/ Done

Spec == Init /\ [][Next]_vars

\* The script is a sequential loop over files that are finite: it goes on.
FairSpec == Spec /\ WF_vars(Next)

-----------------------------------------------------------------------------
(* Properties.                                                             *)

RunType == [in : Inputs, peers : SUBSET Inputs, pure : BOOLEAN, fresh : SUBSET Loc,
            whole : BOOLEAN, eax : [RetBytes -> [Inputs -> Val]]]

TypeOK ==
  /\ argv \in Argvs /\ prog \in DOMAIN Programs
  /\ phase \in {"argv", "replay", "exit"}
  /\ outcome \in {"none", "usage", "ok", "ValueError", "SymbolicEngine", "IndexError"}
  /\ execid \in {1, 2} /\ fuse \in BOOLEAN
  /\ stage \in {"fetch", "mr", "i"} /\ todo \subseteq SUBSET (Loc \ {Zero})
  /\ conc \in [Loc -> Val] /\ ast \in [Loc -> Expr]
  /\ varval \in Inputs /\ symvars \in BOOLEAN
  /\ vjmp \in Seq(SUBSET Inputs)
  /\ reported \subseteq [addr : Nat \ {0}, flag : {Cf, Af}, model : Inputs]
  /\ ret \in [RetBytes -> Expr]
  /\ pc \in DOMAIN Code \cup {0} /\ (stage # "fetch" => pc # 0)
  /\ in \in Inputs /\ full \in [Loc -> [Inputs -> Val]] /\ peers \subseteq Inputs
  /\ fresh \subseteq Loc /\ pure \in BOOLEAN /\ past \in Seq(RunType)

\* When an instruction is about to be processed, every general purpose register
\* and every byte it reads from memory holds in the context what the traced
\* process held, whatever went unrecorded or was left by the first trace: the
\* `r` and `mr` lines repair the context before each `i` line (lines 36-39, 45-48).
SyncedBeforeExec ==
  stage = "i" => \A g \in Gpr \cup Code[pc].mem : \A b \in g : conc[b] = Real[b]

\* During the first trace the symbolic and the concrete views never disagree:
\* every AST evaluates, under the recorded arguments, to the concrete value.
\* Only the second trace, which changes the variables' values while keeping the
\* ASTs (update_sym_var), can break this.
FirstRunCoherent ==
  execid = 1 => \A l \in Loc : Evaluate(ast[l], varval) = conc[l]

\* What the devirtualization rests on.  In either trace, while the function has
\* read only its arguments and what it wrote itself, the AST of every byte it
\* wrote is that byte as a function of the arguments, for every input that
\* follows the recorded path and differs from the recorded one only in the bytes
\* that symsize makes symbolic: synchronization never discards a symbolic value,
\* nothing left over from the first trace leaks into the second, and a symsize
\* too small for the arguments narrows the inputs but falsifies nothing.
PathFaithful ==
  pure /\ ~fuse =>
    \A l \in fresh : \A i \in peers \cap Covered(in) : ast[l].val[i] = full[l][i]

\* Run k of the function, seen by the result on the inputs in S.
AgreesOn(k, S) ==
  \A b \in RetBytes : \A i \in past[k].peers \cap Covered(past[k].in) \cap S :
    ret[b].val[i] = past[k].eax[b][i]

\* The result of a single trace is what eax holds where the recording stops, be
\* it interrupted, on every input of the recorded path.
ResultFaithful ==
  outcome = "ok" /\ Len(past) = 1 /\ past[1].pure /\ RetBytes \subseteq past[1].fresh
    => AgreesOn(1, Inputs)

\* Two traces of this function were replayed to the end, each reading only the
\* arguments and its own writes, and the merge produced an expression.
Merged ==
  /\ outcome = "ok" /\ Len(past) = 2
  /\ \A k \in {1, 2} : past[k].pure /\ RetBytes \subseteq past[k].fresh

\* The merged expression returns what the function returns: on every input of
\* the second path that satisfies the condition taken from V_JMP[0], and on
\* every input of the first path that does not (line 209).
MergedExact == Merged => AgreesOn(2, vjmp[1]) /\ AgreesOn(1, Inputs \ vjmp[1])

\* The workflow of the README: the branch and the flag given for the second
\* trace are ones the first replay printed, and the arguments of the second
\* trace, which differ from the first ones in what is symbolic, take the function
\* down another path.
ReadmeWorkflow ==
  /\ \E c \in reported : c.addr = argv.vbraddr /\ c.flag = argv.vbrflag
  /\ past[2].in \in Covered(past[1].in) \ past[1].peers

\* Following the README, the merged expression is the function on both paths,
\* for every input of each: the condition at the given branch separates them.
\* The second recording must be whole, the first may have been cut short.
MergeCorrect ==
  Merged /\ ReadmeWorkflow /\ past[2].whole => AgreesOn(1, Inputs) /\ AgreesOn(2, Inputs)

\* Following the README with whole recordings of a function that reads nothing
\* but its arguments and its own writes, the merge does not fail: the replay of
\* the second trace recognizes the branch the first one printed.
WorkflowAnswered ==
  phase = "exit" /\ Len(past) = 2 /\ ReadmeWorkflow
    /\ (\A k \in {1, 2} : past[k].pure) /\ past[2].whole
    => outcome = "ok"

\* The inputs on which the condition cond has the value it has on w.
SameSide(cond, w) == {i \in Inputs : cond[i] = cond[w]}

\* What is known of the locations before ins determines what is known after it.
Follows(after, ins, before) ==
  \A l \in DOMAIN after :
    IF l \in DOMAIN ins.eff
      THEN /\ {ins.eff[l].a, ins.eff[l].b} \subseteq DOMAIN before
           /\ after[l] = Combine(ins.eff[l].op, before[ins.eff[l].a], before[ins.eff[l].b])
      ELSE l \in DOMAIN before /\ after[l] = before[l]

\* What is known after ins tells that control goes to `to` on input i.
LeadsTo(to, ins, after, i) ==
  \A v \in Val : (ins.sel \in DOMAIN after => v = after[ins.sel].val[i]) => ins.tgt[v] = to

\* b describes the one branch of program p.  b.path[c] are the instructions that
\* are executed, 0 at the end, when the condition b.cond is c: the b.at-th is the
\* marker, at b.addr, that sets b.flag to the condition, and the b.jump-th parts
\* the inputs by it.  b.known[c][q] tells, of some locations, what they hold before
\* the q-th as a function of the arguments, and which of their bytes are in it.
OneSide(p, b, c) ==
  LET path  == b.path[c]
      known == b.known[c]
      n     == Len(path)
      last  == p[path[b.jump]]
  IN
  /\ path \in Seq(DOMAIN p \cup {0}) /\ path[1] = 1 /\ b.jump < n
  /\ \A q \in 1..n : path[q] = 0 <=> q = n
  \* What is known follows from the arguments.
  /\ \A q \in 1..n : DOMAIN known[q] \subseteq Loc
  /\ \A l \in DOMAIN known[1] : \/ l \in DataBytes /\ known[1][l] = SymByte(l, l)
                                \/ l = Zero /\ known[1][l] = Const(0)
  /\ \A q \in 1..(n - 1) : Follows(known[q + 1], p[path[q]], known[q])
  \* The marker sets the flag, and no other instruction is at its address.
  /\ \A q \in 1..(n - 1) : p[path[q]].addr = b.addr <=> q = b.at
  /\ p[path[b.at]].traced /\ b.flag \in DOMAIN p[path[b.at]].eff
  /\ b.flag \in DOMAIN known[b.at + 1] /\ known[b.at + 1][b.flag] = b.cond
  \* All inputs go the same way up to the jump; those on this side stay together.
  /\ \A q \in 1..(n - 1), i \in Inputs : q < b.jump \/ b.cond.val[i] = c =>
       LeadsTo(path[q + 1], p[path[q]], known[q + 1], i)
  /\ last.sel \in DOMAIN known[b.jump + 1]
  /\ \A i \in Inputs : b.cond.val[i] # c =>
       last.tgt[known[b.jump + 1][last.sel].val[i]] # path[b.jump + 1]

OneBranch(p, b) ==
  /\ b.at \in Nat \ {0} /\ b.jump \in Nat /\ b.at < b.jump
  /\ \A c \in {b.cond.val[i] : i \in Inputs} : OneSide(p, b, c)

\* The command line names the marker of b and its flag.
Names(b) == argv.vbraddr = b.addr /\ argv.vbrflag = b.flag

\* Triton refuses a value for a variable only while the second trace is loaded
\* and only if, at its first recorded instruction, an argument register really
\* held more than symsize (lines 91-100): no replay is lost to a value left in
\* the context by the first trace.
RefusalJustified ==
  outcome = "SymbolicEngine" => execid = 2 /\ \E b \in DataBytes \ SymView : Real[b] # 0

\* Every command ends, with a result, a refusal or an error: the loop of emulate
\* consumes the lines it reads, and a second trace is not replayed twice.
Terminates == phase = "argv" ~> phase = "exit"

=============================================================================
