------------------------------ MODULE VMPTrace ------------------------------
(***************************************************************************)
(* VMP_Trace.cpp, the pintool that records a trace, under Pin's just in    *)
(* time compiler.  Pin is external: it compiles the code a thread is about *)
(* to execute into its code cache, one Pin trace at a time, calls the      *)
(* instrumentation routine Trace on it under the VM lock, and runs the     *)
(* compiled copy from then on, analysis calls included.  A Pin trace is    *)
(* entered at its top only, may be left anywhere, and ends at an           *)
(* unconditional transfer.                                                 *)
(*                                                                         *)
(* The global `start` is switched by Trace, that is when the code at       *)
(* -start or -end is compiled and not when it is executed.                 *)
(***************************************************************************)
EXTENDS Naturals, Sequences, FiniteSets

CONSTANTS
  Programs,   \* the traced programs, by name
  Threads,
  Started,    \* per program, the threads it starts
  KnobStart, KnobEnd,
  LibBase,    \* 0x7f0000000000
  MaxLog      \* bound on the length of a log

\* An instruction: the memory operands it reads, whether it ends a Pin trace,
\* and where control may go next, 0 being out of the program.  Addresses are
\* numbered in the order of the layout.
Instruction(n) == [reads : 0..2, ends : BOOLEAN, to : SUBSET (0..n)]

ASSUME TraceAssumption ==
  /\ \A p \in DOMAIN Programs :
       LET n == Len(Programs[p])
       IN  n > 0 /\ Programs[p] \in Seq(Instruction(n)) /\ Programs[p][n].ends
  /\ Started \in [DOMAIN Programs -> SUBSET Threads]
  /\ KnobStart \in Nat \ {0} /\ KnobEnd \in Nat \ {0}
  /\ LibBase \in Nat /\ KnobStart < LibBase /\ KnobEnd < LibBase
  /\ MaxLog \in Nat

-----------------------------------------------------------------------------
VARIABLES
  start,        \* the tool's global
  cache,        \* Pin's code cache: per compiled trace, the addresses with calls
  prog,         \* the traced program
  pc,           \* per thread, the instruction it is about to execute
  head,         \* per thread, the compiled trace it is in; 0 in the dispatcher
  todo,         \* per thread, the lines its next analysis calls will write
  open,         \* per thread, the line it is writing: "none", "whole" so far, or
                \* "torn" by the pieces of another thread's
  log,          \* the lines written, at the place of their last piece
  jitted,       \* history: the compiled traces, in order
  inside,       \* history: per thread, START executed and END not reached since
  torn,         \* history: the places in the log of the lines that were torn
  missed, stray \* history: instructions of the region not logged, and logged
                \* ones outside of it, with the trace they were executed in

pinVars == <<prog, pc, head, cache>>
outVars == <<todo, open, log, torn>>
vars == <<start, pinVars, outVars, jitted, inside, missed, stray>>

Code == Programs[prog]
Addr == DOMAIN Code

\* The instructions Pin puts in the trace that begins at h: up to the first
\* that ends a trace.
TraceAt(h) == {a \in Addr : a >= h /\ \A b \in Addr : h <= b /\ b < a => ~Code[b].ends}

Init ==
  /\ start = FALSE
  /\ prog \in DOMAIN Programs
  /\ cache = <<>>
  /\ pc = [t \in Threads |-> IF t \in Started[prog] THEN 1 ELSE 0]
  /\ head = [t \in Threads |-> 0]
  /\ todo = [t \in Threads |-> <<>>]
  /\ open = [t \in Threads |-> "none"]
  /\ log = <<>> /\ torn = {}
  /\ jitted = <<>>
  /\ inside = [t \in Threads |-> FALSE]
  /\ missed = {} /\ stray = {}

-----------------------------------------------------------------------------
(* Trace, the instrumentation routine.                                     *)

\* Mutations: KnobEnd is tested after the calls are inserted; the loops do not
\* stop at the end of the trace.
VisitedEnd(h) == {a \in TraceAt(h) : a < LibBase /\ ~(h <= KnobEnd /\ KnobEnd < a)}
VisitedAll(h) == {a \in Addr : a < LibBase /\ ~(h <= KnobEnd /\ KnobEnd <= a)}

\* The instructions its two loops reach without having met KnobEnd and without
\* skipping them as library code.
Visited(h) == {a \in TraceAt(h) : a < LibBase /\ ~(h <= KnobEnd /\ KnobEnd <= a)}

\* The value of `start` when the loops are at a.
StartAt(h, a) == start \/ (h <= KnobStart /\ KnobStart <= a)

\* Mutation: cb_inst is inserted without `if (start)`.
InstrumentedAll(h) == Visited(h)

Instrumented(h) == {a \in Visited(h) : StartAt(h, a)}

\* Mutation: `start` is local to the routine, and lost when it returns.
StartLocal(h) == FALSE

StartAfter(h) ==
  IF KnobEnd \in TraceAt(h) THEN FALSE ELSE start \/ KnobStart \in TraceAt(h)

\* A thread reaches code that is not in the cache: Pin compiles it.
Compile(t) ==
  /\ head[t] = 0 /\ pc[t] # 0 /\ pc[t] \notin DOMAIN cache
  /\ start' = StartAfter(pc[t])
  /\ cache' = [h \in DOMAIN cache \cup {pc[t]} |->
                 IF h = pc[t] THEN Instrumented(h) ELSE cache[h]]
  /\ jitted' = Append(jitted, pc[t])
  /\ UNCHANGED <<prog, pc, head, outVars, inside, missed, stray>>

-----------------------------------------------------------------------------
(* The analysis routines: cb_memread for each memory operand that is read, *)
(* then cb_inst, which writes the registers and then the instruction.      *)

Line(t, kind, a) == [thread |-> t, kind |-> kind, addr |-> a]

\* Mutation: cb_inst is called before cb_memread.
LinesSwapped(t, a) ==
  <<Line(t, "r", a), Line(t, "i", a)>> \o [k \in 1..Code[a].reads |-> Line(t, "mr", a)]

Lines(t, a) ==
  [k \in 1..Code[a].reads |-> Line(t, "mr", a)] \o <<Line(t, "r", a), Line(t, "i", a)>>

\* The analysis calls compiled before a in the trace that begins at h.
Calls(t, h, a) == IF a \in cache[h] THEN Lines(t, a) ELSE <<>>

\* The dispatcher enters the compiled copy.
EnterTrace(t) ==
  /\ head[t] = 0 /\ pc[t] \in DOMAIN cache
  /\ head' = [head EXCEPT ![t] = pc[t]]
  /\ todo' = [todo EXCEPT ![t] = Calls(t, pc[t], pc[t])]
  /\ UNCHANGED <<start, cache, prog, pc, open, log, torn, jitted, inside, missed, stray>>

\* The first of the << that write a line, piece by piece, to the one unbuffered
\* stream.  Nothing is locked: the lines that are open together tear each other.
BeginLine(t) ==
  LET writers == {u \in Threads : open[u] # "none"} \cup {t}
  IN  /\ todo[t] # <<>> /\ open[t] = "none"
      /\ open' = [u \in Threads |-> IF u \notin writers THEN "none"
                                    ELSE IF writers = {t} THEN "whole" ELSE "torn"]
      /\ UNCHANGED <<start, pinVars, todo, log, torn, jitted, inside, missed, stray>>

\* The last piece of the line is out, and the stream's flags are as they were.
WriteLine(t) ==
  /\ todo[t] # <<>> /\ open[t] # "none" /\ Len(log) < MaxLog
  /\ log' = Append(log, Head(todo[t]))
  /\ torn' = IF open[t] = "torn" THEN torn \cup {Len(log) + 1} ELSE torn
  /\ todo' = [todo EXCEPT ![t] = Tail(@)]
  /\ open' = [open EXCEPT ![t] = "none"]
  /\ UNCHANGED <<start, pinVars, jitted, inside, missed, stray>>

\* The region, as the instruction executed at a by a thread sees it.
InRegion(in, a) == (in \/ a = KnobStart) /\ a # KnobEnd

\* The instruction itself, after its analysis calls.  Falling through stays in
\* the compiled trace; a taken transfer goes through the dispatcher.
Execute(t) ==
  LET a == pc[t]  h == head[t]
  IN  /\ h # 0 /\ todo[t] = <<>>
      /\ inside' = [inside EXCEPT ![t] = InRegion(@, a)]
      /\ missed' = IF InRegion(inside[t], a) /\ a < LibBase /\ a \notin cache[h]
                     THEN missed \cup {<<h, a>>} ELSE missed
      /\ stray' = IF ~InRegion(inside[t], a) /\ a \in cache[h]
                    THEN stray \cup {<<h, a>>} ELSE stray
      /\ \E next \in Code[a].to :
           /\ pc' = [pc EXCEPT ![t] = next]
           /\ IF next = a + 1 /\ ~Code[a].ends
                THEN /\ todo' = [todo EXCEPT ![t] = Calls(t, h, next)]
                     /\ UNCHANGED head
                ELSE head' = [head EXCEPT ![t] = 0] /\ UNCHANGED todo
      /\ UNCHANGED <<start, cache, prog, open, log, torn, jitted>>

\* Every thread has left the program, or the log is at its bound.
Stopped ==
  /\ \A t \in Threads :
       pc[t] = 0 \/ (todo[t] # <<>> /\ open[t] # "none" /\ Len(log) = MaxLog)
  /\ UNCHANGED vars

Next ==
  \/ \E t \in Threads :
       Compile(t) \/ EnterTrace(t) \/ BeginLine(t) \/ WriteLine(t) \/ Execute(t)
  \/ Stopped

Spec == Init /\ [][Next]_vars

-----------------------------------------------------------------------------
(* Properties.                                                             *)

LineSet == [thread : Threads, kind : {"mr", "r", "i"}, addr : Addr]

TypeOK ==
  /\ start \in BOOLEAN /\ prog \in DOMAIN Programs
  /\ DOMAIN cache \subseteq Addr
  /\ \A h \in DOMAIN cache : cache[h] \subseteq TraceAt(h)
  /\ pc \in [Threads -> Addr \cup {0}]
  /\ head \in [Threads -> DOMAIN cache \cup {0}]
  /\ \A t \in Threads : head[t] # 0 => pc[t] \in TraceAt(head[t])
  /\ todo \in [Threads -> Seq(LineSet)] /\ log \in Seq(LineSet)
  /\ open \in [Threads -> {"none", "whole", "torn"}] /\ torn \subseteq DOMAIN log
  /\ jitted \in Seq(DOMAIN cache)
  /\ inside \in [Threads -> BOOLEAN]
  /\ missed \subseteq Addr \X Addr /\ stray \subseteq Addr \X Addr

\* The trace compiled k-th brings code at a that lies above its top, or is it.
Compiled(k, a) == a \in TraceAt(jitted[k])

\* Why an instruction of the region can be absent from the log.  Its thread ran
\* it in a trace that was compiled either before any code reaching back to
\* KnobStart had been, or when code containing KnobEnd already had been: the
\* state of the tool at compile time, frozen in Pin's cache (lines 78-103).
MissedExplained ==
  \A m \in missed : \E k \in DOMAIN jitted :
    /\ jitted[k] = m[1]
    /\ \/ /\ \A j \in 1..(k - 1) : ~Compiled(j, KnobStart)
          /\ ~(m[1] <= KnobStart /\ KnobStart <= m[2])
       \/ \E j \in 1..k : Compiled(j, KnobEnd)

\* Why an instruction outside of the region can be logged: code reaching back
\* to KnobStart had been compiled when its trace was, or it is in that code.
StrayExplained ==
  \A m \in stray : \E k \in DOMAIN jitted :
    /\ jitted[k] = m[1]
    /\ \E j \in 1..k : Compiled(j, KnobStart)

MainThread == CHOOSE t \in Threads : TRUE

\* "It only needs a `start` and an `end` address which represents the range of the
\* instrumentation": a recording that has run to its end ends with the
\* instruction at KnobEnd, as vmp_traces/sample2.vmp.trace does.
LogEndsAtEnd ==
  pc[MainThread] = 0 => log # <<>> /\ log[Len(log)].addr = KnobEnd

\* Every instruction a thread executes between -start and -end is logged.
RegionLogged == missed = {}

\* "Stop the tracing at this address": nothing outside the region is logged.
NothingOutside == stray = {}

\* Straight-line code runs from a into x, so that a Pin trace with a holds x too.
Falls(code, a, x) == a < x /\ \A b \in a..(x - 1) : ~code[b].ends

\* Program p runs the range once: control goes from the code in `before` to START,
\* from the code in `within`, START included, to END, and never back.  No code
\* falls into START, which begins a Pin trace; what falls into END is straight.
CalledOnce(p, before, within, after) ==
  LET code == Programs[p]
  IN  /\ before \cap within = {} /\ before \cap after = {} /\ within \cap after = {}
      /\ before \cup within \cup after \subseteq DOMAIN code
      /\ 1 \in before \cup {KnobStart} /\ KnobStart \in within /\ KnobEnd \in after
      /\ \A a \in before : code[a].to \subseteq before \cup {KnobStart, 0}
      /\ \A a \in within : code[a].to \subseteq within \cup {KnobEnd, 0}
      /\ \A a \in after  : code[a].to \subseteq after \cup {0}
      /\ \A a \in before \cup within \cup after : ~Falls(code, a, KnobStart)
      /\ \A a \in within : Falls(code, a, KnobEnd) => code[a].to \subseteq {a + 1, 0}

\* The places of a thread's instructions in the log, and the n-th of such places.
OwnPlaces(t) == {k \in DOMAIN log : log[k].thread = t /\ log[k].kind = "i"}

NthPlace(S, n) == CHOOSE k \in S : Cardinality({j \in S : j <= k}) = n

\* The instructions a thread has logged and executed.
Retired(t) ==
  LET own == OwnPlaces(t)
      n   == IF head[t] # 0 /\ todo[t] = <<>> /\ pc[t] \in cache[head[t]]
               THEN Cardinality(own) - 1 ELSE Cardinality(own)
  IN  [k \in 1..n |-> log[NthPlace(own, k)].addr]

Region ==
  INSTANCE RegionTracer WITH
    Begin <- KnobStart, End <- KnobEnd, code <- Code,
    pc <- pc[MainThread], inside <- inside[MainThread], ilog <- Retired(MainThread)

\* On the layout of a protected function, called once, the log of a thread is
\* what an exact tracer of the region writes: caching the instrumentation and
\* switching `start` at compile time lose and add nothing.
ExactTrace == Region!Spec

=============================================================================
