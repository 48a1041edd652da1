# VMProtect devirtualization: a TLA+ verification project

The repository recovers the original code of functions protected by VMProtect. A Pin tool records
what one execution of the function did, Python scripts replay the recording in Triton with the two
arguments symbolic, and the expression in `eax` at the end is the function along that path. Two
recordings whose arguments take different paths are merged into one if-then-else, under a condition
that a third script helps to find. The repository keeps the functions it recovered from its samples.

This project models the recording, the file between the two sides, the replay, the branch search, the
samples and the recovered functions, checks them with TLC and proves their main properties with TLAPS.

## 1. Inventory

Paths are relative to `src/`. `P` is short for `pin/source/tools/VMP_Trace/VMP_Trace.cpp`.

| component | state | operations | interacts with |
|---|---|---|---|
| `P`, the pintool | the global `start`; the inserted calls, which live in Pin's code cache | `Trace` (instrumentation), `cb_memread`, `cb_inst` (analysis) | Pin calls `Trace` under its VM lock on each piece of code it compiles, and the analysis routines in parallel from the compiled code; writes to `std::cerr` |
| the trace file | its lines | written line by line, shared with the traced process, cut short, read once | between `P` and the scripts |
| `attack_vmp.py` | the Triton context, the fuse, `V_JMP`, the result | `main`, `analysis`, `one_path`, `emulate`, `sync_reg`, `sync_memory`, `exec_instruction`, `update_sym_var`, `detecting_vjmp`, `result` | reads one or two trace files; Triton |
| `looking_jmp.py` | the Triton context, the fuse | the same replay of one trace, from a context that is concretized first; prints candidate branches | reads a trace file; Triton; its output is typed as `--vbraddr` and `--vbrflag` |
| `vmp_binaries/samples-source/*.c` | none | six pure functions of two arguments | what is protected and traced |
| `devirt/*.ll` | none | the recovered functions, as lifted and after `opt -O3` | output of `attack_vmp.py` |
| `vmp_binaries/build.sh`, `vmp_sdk/` | - | six compiler commands; the VMProtect header and libraries | - |
| the rest of `pin/` | - | the vendored Intel Pin kit | runs the pintool |

The trace file is the only channel between the pintool and the scripts: for each instruction
`mr` lines (the memory it reads), an `r` line (sixteen registers), an `i` line (address, size,
bytes). The scripts have no other knowledge of the traced process.

What is hard in this code:

* The pintool decides what to log when code is *compiled*, not when it is executed. `start` is
  switched by compiling START or END, each decision is frozen in the code cache, and the virtual
  machine of VMProtect is one piece of code that everything shares.
* `start` and the output stream are shared by all threads and are not locked in the analysis
  routines, which write one line in many pieces.
* The recording goes to standard error, which the traced process and its children write to as
  well, and it may be killed. The reader passes over every line it does not know, executes what it does
  know, and carries the flags and the expressions from one instruction to the next itself: no line has them.
* The replay keeps two views of every byte, a concrete value and an AST, and repairs the first
  from the trace. Setting a concrete value destroys the AST of the whole operand, so the
  result is right only if synchronization fires exactly where the context is wrong.
* The second trace is replayed in the context the first one left. The variables are kept, their
  values change, and every AST left in registers and memory is over the first path.
* The condition that merges two paths comes from the second replay only, and is the first
  one found at the given address.
* The flag a user chooses among the printed ones need not be the one the branch is taken on, and
  a comparison is rebuilt by the virtual machine from an addition, a result and a mask.

What makes each component correct:

* pintool: the log of a thread is the sequence of the instructions it executes from START up to END
  (`ExactTrace`, `RegionLogged`, `NothingOutside`, `LogEndsAtEnd`); failing that, one knows why (`MissedExplained`, `StrayExplained`).
* trace file: what is replayed is what was executed, each instruction with its own registers and
  operands (`ReplayFaithful`, `NothingMissing`); whole lines make good what damaged ones did to them
  (`Resynchronized`); and a line takes no expression back that the replay has computed (`AlwaysKept`,
  `RegistersKept`).
* replay: before each instruction the context agrees with the process (`SyncedBeforeExec`); the
  two views agree (`FirstRunCoherent`); the AST of what the function computed is that
  function, on every input of the path (`PathFaithful`, `ResultFaithful`); every command ends
  (`Terminates`).
* merge: the expression is the function on both paths (`MergedExact`, `MergeCorrect`), the
  workflow of the repository's README is answered (`WorkflowAnswered`),
  and a replay is not lost without reason (`RefusalJustified`).
* branch search: a printed branch is one (`ReportsAreReal`), a branch is passed over for a known
  reason only (`MissesAreExplained`), and the script is the first replay of `attack_vmp.py`
  (`FirstReplay`).
* recovered functions: equal to the protected ones on every argument (`Recovers`, and
  `SignsDecide` where they are not), before and after `opt` (`SameOptimized`), and the flags they
  rebuild are those of the comparison in the source (`FlagsOfCmp`).

## 2. Plan

Done: the replay and the merge (`AttackVmp`), the pintool (`VMPTrace`, `RegionTracer`), the branch
search as a refinement of the first replay (`LookingJmp`), the pintool and the reader composed
(`Recording`), the samples and the recovered functions (`Devirt`, `BitVectors`), liveness of the
replay, and the proofs of section 6.

What is left:

1. `MbaAssumption` (section 6) as a lemma rather than an assumption that TLC decides.
2. `OneBranch` for functions whose two paths branch again, in ways that do not matter to the condition; `SeparatedPathsMerge`
   covers the common path of those, but its premise is about behaviours and not about the program alone.
3. Sample 6, if a recovered function of it is added to the repository.
4. A program that computes with flags a library call leaves, which the replay never synchronizes.

## 3. Modules

### TritonContext

External. What the scripts use of Triton. A *location* is one byte of a register, a flag, or one
byte of memory; the context keeps its concrete value and its AST. An AST is abstracted to what it
denotes (a function from the values of the argument registers to a byte) and the set of the symbolic variables in
it. `processing` gives every byte an instruction assigns the AST of the operation. Simplification
(`AST_OPTIMIZATIONS`, `CONSTANT_FOLDING`) never changes the function; it may drop a variable the
function does not depend on, which the model does not do, so that `search(flag, VARIABLE)` may
see two variables here where Triton sees one.

### AttackVmp

One action per step of the script:

| action | code |
|---|---|
| `Main` | the three tests of `main` (225-238) |
| `NextLines`, `SyncMemory`, `SyncReg`, `ExecInstruction` | one turn of the loop of `emulate` per kind of line (145-160) |
| `ExecInstruction` | the whole of `exec_instruction`: `ProcessInstruction` is the fuse, `update_sym_var` and `processing`, which the branch search shares; `DetectingVjmp` is `detecting_vjmp` |
| `ExecFails` | Triton refuses `setConcreteVariableValue` (99-100) |
| `ResultOfOnePath`, `StartSecondPath`, `MergePaths` | `analysis` (202-212), the `IndexError` of line 208 included |
| `Untraced` | external: the process executes an instruction that is not in the log |
| `Done` | the script has exited |

Variables: `conc`, `ast`, `varval`, `symvars` are the context; `vjmp` is `V_JMP`; `reported` the printed
candidates; `ret` is `ret_expr1`, later the result; `fuse`, `execid`, `stage`, `todo` the control
of the loop.

`OneBranch` is the condition on a program under which the merge is right: all inputs take one path up to the jump, the marker
is on it, its flag decides the jump, each side follows one path to the end, and no other step of either path is at the marker's
address. A path may execute the same instruction any number of times, as the handlers of a virtual machine are. The
description `b` it takes lists the two paths and says what is known on them of some locations as functions of the
arguments, so the condition is about the program only and is decided by looking at one step at a time. `Names`
says that the command line gives that marker and that flag.

A recorded trace is what a real execution did, so a trace is not invented: the traced program
(`prog`, `pc`, `full`) runs in lockstep with the replay and its lines are produced when the
script reads them. Since the process does not depend on the script, this is the same as a file
recorded before. `full[l][i]` is what location `l` holds when the arguments are `i`, *on the recorded path*, for
every `i` at once; `peers` are the inputs that follow the same path so far. This is the reference the ASTs are compared
with, and it is computed from concrete executions only.

`Interrupted` says whether a recording may end after any line (`EndOfFile`): the script does not tell a
file that was cut short from a whole one. `Covered(w)` are the inputs that differ from `w` in the bytes `--symsize`
makes symbolic: a variable narrower than the argument makes the result a function of fewer inputs, not a wrong function.

History variables: `fresh`, the bytes this run of the function has written in recorded instructions
(and its arguments); `pure`, every instruction so far read only such bytes and nothing before the first recorded
instruction was lost; `past`, the finished runs.

Abstractions: bytes of one bit in the runs (any set `Val` in the proofs); `symsize` counts
bytes of the modelled registers; `vbraddr` 0 is "not given" (the code tests it for truth); an instruction's memory
operands are distinct sets of bytes at fixed addresses, so user-dependent addresses, which the README of the repository excludes,
do not occur; the solver answers with any model; `result` only prints.

### LookingJmp

Extends `AttackVmp` and takes the actions that are the same code, line for line (`SyncMemory`, `SyncReg`,
`ProcessInstruction`, `ResultOfOnePath`). Its own: `LookMain` with the two loops that concretize the new
context, `LookMarker` without the test of the operands, `LookDetectingVjmp` without the test of `execid`.
`LookAssumption` says that an address holds one kind of instruction; the refinement needs it, because the
candidates that both scripts print are told apart by their address.

`AttackVmp` is the abstract specification of this script: `FirstReplay` is `Attack!Spec`, where
`reported` is mapped to the candidates that the narrower markers of `attack_vmp.py` print too.

### VMPTrace and RegionTracer

`Compile` is a call of `Trace` on the Pin trace that begins where a thread is, `EnterTrace`,
`BeginLine`, `WriteLine` and `Execute` are the compiled copy running: one line at a time, then the instruction.
`BeginLine` is the first of the `<<` that write a line, `WriteLine` the last, the `std::endl`. Between the two other threads run:
lines that are open at the same time are written to one stream piece by piece, and their format flags are those of the stream,
so all of them are `torn`, which is all that is said of their text.
`Visited`, `StartAt`, `Instrumented` and `StartAfter` say what the two nested loops do with `start`, KnobStart, KnobEnd
and the library bound. Pin is external; what is assumed of it is in its manual
(`pin/doc/html/index.html`, lines 141-142, 198-199): traces are compiled just before they are
first executed, are entered at the top only and end at an unconditional transfer; instrumentation
runs under a lock; analysis routines run in parallel. The cache
is never flushed. `Started` are the threads a program runs. `MaxLog` bounds the log; writing stops there.
Addresses are numbered in the order of the layout. `jitted`, `inside`, `torn`, `missed` and `stray` are history variables.

`RegionTracer` is the abstract specification: what `-start` and `-end` promise, "the range of the
instrumentation" (README.md:93-94). `ExactTrace` is the refinement: `code`, `pc` and `inside` are
mapped to the program and to the main thread, `ilog` to the addresses of the `i` lines the thread has in the log, in
their order (`Retired`), without the one it has written for the instruction it is about to execute.
The range goes from START up to END, and END is not in it, because `Trace` returns at KnobEnd before it inserts the calls (P:83-86):
that is what the code does, and the recordings of sample 5 stop there. The committed recordings of samples 2 and 3 have one group more, END's;
no run of this pintool writes it, which is what `range` shows.

### Recording

`VMPTrace` with one thread writes `file`, then the loop of `emulate` reads it. While it is written, the traced
process may add a line (`Foreign`), put a text without a newline before the kind of a line of the tool (the line is "glued" to it and its
kind unknown) or after it ("broken"); `Kill` stops the recording, in the middle of a line too
("torn"). `vmp_traces/sample5.vmp.trace.2` has such texts on its first line and at its end.
`ReadMemory`, `ReadRegisters`, `ReadInstruction`, `ReadOther` are the branches of the loop. A broken or cut line makes the
parsing raise (`ReadRaises`), or has the form of a line and says what the tool wrote, or something else (`Readings`): other registers,
other memory, which may hide what an earlier line said, another instruction.

The context is reduced to what the trace decides. `regs` is the number of the instruction whose registers it has, 0 when that is not
certain. An `r` line sets it; and `ctx.processing` (133-134) makes it the next number, because an instruction executed on its own registers and
operands leaves the registers of the next one (`Processed`). That needs two things of Triton and the target, which are assumptions of this
module: Triton executes an instruction as the processor does, and flags carry nothing over code that is not logged. It also
needs that the replay has been in step since the first instruction: flags and expressions come from nowhere else, so one instruction that
was lost or misread costs the next ones theirs. A library call in between changes the registers (`gaps`), and then the `r` line brings
new ones. `lost` is the first instruction whose `r` line changed a register, and so dropped its expression (line 39), after the inputs
had been made symbolic. `reads` are the places in the file of the `mr` lines the memory comes from.
`Serial` numbers the logged instructions; `ran`, `damaged`, `killed`, `gaps`, `excused` and `lost` are history. Two threads are left out: the
lines do not name their thread, so a file of two interleaved threads cannot be replayed, whatever the script does.

### BitVectors and Devirt

`BitVectors` is the arithmetic of the LLVM IR on words of any width, a word being the set of the positions of its ones:
`and`, `or` and `zext` are set operations, and an addition is defined by its carries. `Devirt` holds the five
samples that have a recovered function, the recovered functions and their `-O3` forms, and runs one of each on the same arguments
(`Secret`). The instructions that build the flags word are grouped by flag, and the flags of a real `cmp` (`CmpFlags`) are
defined from comparisons, not from carries. The mixed arithmetic of sample 3 is computed with
numbers, as in the source; `MbaAssumption` is a closed formula, that it equals an exclusive or with 92 on all 256 bytes,
which TLC decides in each run of `MCDevirt`.

### Other modules

The `MC` modules hold programs, machine states, command lines and arguments for TLC, the `Proofs` modules the
theorems. The definitions marked "Mutation" are wrong versions of the operator that follows them; no property uses them. Each was
substituted for the operator it stands before to see that the property it aims at breaks.

## 4. Runs

Passing:

| run | what is enumerated | what it shows |
|---|---|---|
| `one` | `LookingJmp` on all 1728 programs of three instructions of twelve kinds, eight entry states each, whole and interrupted recordings | `SyncedBeforeExec`, `FirstRunCoherent`, `PathFaithful`, `ResultFaithful`, `ReportsAreReal`, `MissesAreExplained`, the refinement `FirstReplay`, `TypeOK` |
| `two` | four functions with one branch (comparison of registers, `popfq`, an arm through memory, a virtual machine that executes handlers of the common path again on one arm), all pairs of entry states, all command lines, either recording possibly interrupted | `MergedExact`, `MergeCorrect`, `WorkflowAnswered`, `PathFaithful` in the second replay |
| `wide` | registers of two bytes, operands of one, two and three bytes, partial writes, library calls, variables narrower than the registers | `SyncedBeforeExec`, `PathFaithful`, `RefusalJustified`, `Terminates` |
| `region` | `Recording` on the layout of a protected function called once: START behind a transfer, dispatcher, two overlapping handlers, a library call, and straight code that falls into END; one foreign text anywhere, and a kill anywhere | `ReplayFaithful`, `NothingMissing`, `Resynchronized`, `RegistersKept`, the refinement `ExactTrace`, `Replayed` |
| `causes` | 3150 control flow graphs of an entry, START, END and one more instruction that can be compiled before, between or after them, inside the region or not, run by one thread; two threads with two protected functions on one virtual machine | `MissedExplained`, `StrayExplained`, `TypeOK` |
| `devirt` | ints of 16 bits: every pair of bytes for sample 3, all pairs of 48 words next to a carry, a borrow or a sign change for the others | `Recovers`, `SignsDecide`, `FlagsOfCmp`, `SameOptimized` |

Bounds. Three instructions are enough for a value to be written, lost or overwritten outside the
log and read again, which is every way the context can go stale between two lines; longer
interplay is in the functions of `two` and `wide`. Two inputs per byte are enough to tell an AST
from a constant and from another AST, because properties quantify over all inputs. In `causes` three
instructions were too few: the entry is compiled before START, so nothing was left to be compiled between START and
END, and a `start` local to `Trace` went unnoticed; the fourth instruction is that case. `MaxLog` 8
in `causes` is two passes through START with an instruction in between, and lets one thread reach END while the other is
inside; 20 in `region` is a run through every handler and the library and out at END, complete. One foreign text (`MaxNoise`) in each form meets every line of
the file; two would only repeat the harm at a second place. 16 bits keep a low byte (which the parity and the handler's
address use) apart from the sign; the proofs hold for every width. All passing runs leave deadlock checking on: `Done`, `Stopped` and
`RecDone` are the only steps of a finished system.

Violations, each a disagreement of the code with a line of the repository:

| run | code | says otherwise |
|---|---|---|
| `handler` | `attack_vmp.py:208` merges under the first condition found at `vbraddr`, though the handler ran before in the common prefix | `README.md:316-318`, "a same prefix followed by a condition C in T1 and a not(C) in T2" |
| `loop` | `P:84` switches off when END is compiled | `README.md:93-94`, "the range of the instrumentation" |
| `shared` | `P:102` tests `start` when code is compiled, never again | `P:11`, "Stop the tracing at this address" |
| `range` | `P:83-86` returns at KnobEnd before it inserts a call: the instruction at `-end` is never logged | `README.md:91`, "returns at `0x4011ef`", and 97-100, `-end 4198895` and the recording "here", `vmp_traces/sample2.vmp.trace`, whose last group (28048-28050) is that of 0x4011ef; so has `sample3.vmp.trace:54830-54832` the group of its `-end` |
| `glued` | `attack_vmp.py:145` passes over the first `r` line if a text is glued to it. START is processed with the registers the context began with, on which the inputs are made symbolic, and the next `r` line sets the registers that differ (line 39), which drops their expressions; no error is raised | `README.md:126-127`, "all expressions which involve symbolic variables (inputs of the function) are kept symbolic" |
| `signed` | `devirt/sample4.ll:150-152` selects by the carry: the unsigned maximum | `vmp_binaries/samples-source/sample4.c:25-28`, a comparison of ints |

All but `range` and `signed` are consistent with the samples of the repository working: each sample is single threaded and
calls `secret` once. Its START is the first instruction of `secret`, which a call reaches, and its END is fallen into from the
`mov` and `leave` that the virtual machine returns to (`sample2.vmp.trace:28044-28050`, `sample3.vmp.trace:54829-54832`,
`sample5.vmp.trace.2:34585-34588`), which is the layout `CalledOnce` asks for: the premises of `OneCallIsExact`.
The comparison handler at `0x80d905` of sample 5 is reported once. `range` does not harm the result of the samples, `ret` and `leave`
leave `eax` alone, but the count of instructions that README.md:152 prints is of the recording with END. `signed` is about a recovered function as it is in the
repository: it is right exactly when both arguments have the same sign (`SignsDecide`).

## 5. Fairness

The script is a sequential loop over files that are finite, so `AttackVmp!FairSpec` assumes that it goes on,
`WF_vars(Next)`, and nothing else; `Terminates` would fail if a line were read twice or a trace replayed again.
`Recording` assumes weak fairness of `Replay` only: the traced process may run for ever, or be killed, and `Replayed` is about
recordings that have ended. `VMPTrace`, `LookingJmp` and `Devirt` state no fairness: their properties are safety
properties, the refinements `ExactTrace` and `FirstReplay` included.

## 6. Proofs

`tlapm` checks every theorem to the last leaf. The assumptions are `LocAssumption`, `AttackAssumption`, `LookAssumption`,
`TraceAssumption`, `RecordingAssumption` and `DevirtAssumption`, typing of the constants and well-formed programs, and `MbaAssumption`, a closed formula;
TLC evaluates all of them. Nothing is assumed finite or small.

`AttackVmpProofs`:

* `TypeCorrect`: `TypeOK` is inductive.
* `Synchronized`: `SyncedBeforeExec` only speaks of the moment before an `i` line; it is
  strengthened (`SyncInv`) with the bytes of the operands whose `mr` line has been read already, and that
  `SyncReg` cannot disturb them.
* `FirstRunIsCoherent`: strengthened (`Coherent`) with the state before the fuse, where every AST
  is closed, and until the second trace starts.
* `PathIsFaithful`: the inductive invariant `FaithInv` adds that the recorded input is among `peers`
  (`OnPath`), that immediates are zero (`ZeroInv`), that before the fuse `fresh` is the arguments
  only (`AtEntry`), that the instruction at hand reads fresh bytes while the run is pure
  (`ReadsFresh`), and that a fresh byte's concrete value is the real one (`NotStale`). The last is
  why synchronization never discards a symbolic value: `Stale` picks no operand with fresh bytes only.
* `ResultIsFaithful`, `MergeIsExact`: `ResultInv` carries `PathFaithful` at the end of a run over to `past` and `ret`.
* `RefusalIsJustified`: before an `i` line the argument registers hold what the process held, so
  the value that Triton refuses is the real one, and no variable exists in the first replay.

`MergeProofs`, for what does not hold in general (see `handler`):

* `SeparatedPathsMerge`: `MergeCorrect` holds in every behaviour in which some condition on the arguments separates the recorded paths and
  is the given flag when the second replay takes it (`BranchSeparates`), whatever the control flow. `CondInv` says that `V_JMP[0]` is the side
  of the second run among the covered inputs, `PastInv` that the first path was one side or, cut short, everything.
* `OneBranchMerges`: a program that meets `OneBranch` and a command that names its branch satisfy that premise. The invariant
  says at which step of its side's path the run is (`AtStep`), what the known locations hold there, and that every input is still with it up
  to the jump and its own side after it. It counts steps because the instruction alone does not say where a run is that comes
  to it again.
* `OneBranchIsAnswered`: `WorkflowAnswered` under the same condition. `VarsAt` adds which variables the known locations' ASTs hold at the
  step, the same in both replays: what made the first print the branch (`ReportedInv`) makes the second take its condition when it
  passes the marker (`TakenAt`). Until the variables exist ASTs have to be free of them (`ClosedInv`).

`BranchAssumption` checks that the four functions of `two` meet `OneBranch`; `handler`'s does not, its marker is executed twice.

`LookingJmpProofs`:

* `LookFaithful`: each step preserves the invariants above (`LookInv`), by the lemmas about the shared steps.
* `ReportedIsReal`: on the recorded path the AST of a marker's flag is the flag of the process, so a
  model that flips the one flips the other.
* `MissedIsExplained`: an AST depends on no variable that does not occur in it (`AstsClosed`), so
  a flag without both variables depends on one argument.
* `LookingIsFirstReplay`: `FirstReplay`. Concretizing a new context is a stutter on it, no variable exists when
  the fuse burns, and what is printed in excess is dropped by the mapping.

`VMPTraceProofs`:

* `TypeCorrect`: the hard part is that a thread stays in the trace it entered (`FallThrough`).
* `CacheRemembers`: `Remembers` relates each entry of the cache to the history of compilations before it, and
  `start` to the whole history; `Observed` relates `missed` and `stray` to the cache. Neither
  explanation is inductive without them, because the cause lies in a compilation long past.
* `MissedIsExplained`, `StrayIsExplained` follow, for every program, range, number of threads and schedule.
* `OneCallIsExact`: for one thread and a range that is run once (`CalledOnce`), nothing is missed and nothing is
  stray. The invariant `OnceInv` splits the code into what comes before the range, the range, and what comes after:
  a cached trace has all its calls or none by the part it begins in, up to END where it runs into it; `start` is on between the
  compilation of START, which begins a trace, and that of END; and when END is compiled with code of the range that falls into it, the
  thread is in that code and no other code of the range is left to it (`Leads`, `Leaving`).
  `VmOnlyAssumption` checks that the layout of `region` meets the premises; those of `loop` and `shared` do not: the loop has a
  branch among what falls into END, and the second function leads back to the range.

`ExactTraceProofs`, the refinement of `RegionTracer`:

* `TraceInvariant`: `QueueInv` says that what a thread has still to write is the rest of the group of the instruction it is at, up to
  the instruction itself; `LogInv`, that the places of a thread's `i` lines in the log are counted without a gap and that the last one
  is the instruction it is at while that one has not been executed.
* `ExactUnlessMissed`: with any number of threads, and whatever the others write in between, the pintool implements
  the recorder of the region as long as nothing is missed and nothing is stray. Writing a line is a stutter, executing an
  instruction is `Region!Step`: it appends its address to `Retired` exactly when it belongs to the region. `loop` and `shared`
  show how the hypothesis fails, and `MissedIsExplained` and `StrayIsExplained` that it fails in no other way.
* `OneCallIsTraced`: under the premises of `OneCallIsExact` the hypothesis holds, so `ExactTrace` does.

`RecordingProofs`:

* Each step of `Recording` is a step or a stutter of `VMPTrace` (`RecordIsTrace`), so what is proved of the log can be used.
* `RecordingInvariant`: `RecInv` is inductive. Its first half, `FileInv`, speaks of the file as long as the log is exact (`Exact`): the instruction being
  logged is the one after those that were executed (`SerialInv`), a line of the tool names an instruction that was executed or is
  being logged, and is torn only at the end of a killed recording (`LineInv`), lines come in the order of their instructions, the `i` line last
  (`OrderInv`), all that was written of an instruction is in the file or damaged (`GroupInFile`), a recording that was not killed
  ends with the program (`EndInv`), and what is executed without being logged is library code or outside of the region (`GapInv`). The second half,
  `ReaderInv`, speaks of what was read up to the current place: the context has what the lines of the pending instruction said
  (`ContextInv`), each replayed entry is the instruction of its line with the context of that moment (`EntryInv`), every
  line that was read has its entry (`ReadInv`), and without damage the context goes from one instruction to the next by
  itself (`KeepInv`). The reader does not know which instruction a line belongs to, so `ContextInv` is stated for every number the next line may
  have (`Pending`): all lines read so far are of it or of earlier ones, which `OrderInv` keeps true as it reads on.
* `ReplayOfExact`: `ReplayFaithful`, `NothingMissing`, `Resynchronized` and `RegistersKept` follow, for every program, number of foreign texts and kill, as long
  as the log is exact. `OneCallIsReplayed`, `OneCallIsComplete`, `OneCallResynchronizes` and `OneCallKeepsRegisters` are the four under the premises of
  `OneCallIsExact`, where it always is; `OneCallIsRecorded` is `ExactTrace` there.

`BitVectorsProofs` and `DevirtProofs`: `ProtectedIsRecovered`, `SignedOrUnsigned`, `HandlersCompare` and
`OptimizedIsSame` are the four properties of `devirt` for every width and all arguments. The argument goes bit by bit. `CarryStep`
says how a carry moves from one position to the next, induction on positions gives commutativity and the rules for complements, and
`CarryCompares` that the carry out of an addition to a complement is the unsigned comparison; from there each flag, each
mask and each select is a case distinction on sign bits.

Only model-checked: the liveness properties `Terminates` and `Replayed`, out of the prover's reach. Every other property of a passing
run is a theorem, in general or under the conditions named above.

## 7. Not modelled

* `result`: unrolling, synthesis, lifting and printing; Triton's, and they change no state.
* `sample6.c`: there are two traces of it (`vmp_traces/sample6.vmp.trace.1` and `.2`), but no recovered function to compare it with.
* Texts of the log. `mr` data of 1, 2, 4 and 8 bytes is exact; other sizes give an empty field, on which
  `int("", 16)` raises: `SyncMemory` models the failure only.
* 32-bit knobs against 64-bit addresses, and `usage`. The samples are linked at low addresses.
* A recording of several threads in one file is modelled as it is written (`causes`): the threads tear each other's lines, and
  lines that come out whole do not name their thread. No replay of such a file is modelled.
* What the properties leave open, on purpose. `main` (`attack_vmp.py:235`) accepts two traces and `--vbrflag` without `--vbraddr`, against the syntax
  it prints (237), and then fails on an empty `V_JMP` (208) after both replays: `ArgsAccepted` and `MergePaths` model it, `two` enumerates such commands, and
  `WorkflowAnswered` speaks of those that give what the first replay printed. An operand that is stale in one byte is concretized whole (`attack_vmp.py:47`), bytes the function computed
  included: the model does that, and `PathFaithful` asks nothing of such bytes. Flags are not synchronized (`attack_vmp.py:16`): the model does not
  synchronize them, and no program of the runs computes with a flag that unrecorded code wrote. A second trace that was cut short is merged
  in silence: `MergedExact` says what the merge is, the function along the two prefixes, and `MergeCorrect` speaks of whole recordings only.
  A variable narrower than the argument (`attack_vmp.py:118`) is exercised by `wide`, not by `one`.
* `main` of the samples, `build.sh` and the VMProtect SDK: printing, compiler commands, a third-party header and libraries.
* The Pin kit. Nearly all the lines of the repository are its headers, libraries, documentation and build files, third-party code that is
  not part of this program; the models state what the pintool relies on, as external.
