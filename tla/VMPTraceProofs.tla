--------------------------- MODULE VMPTraceProofs ---------------------------
(***************************************************************************)
(* Theorems about the pintool, for every program, every layout, every      *)
(* range and any number of threads.                                        *)
(***************************************************************************)
EXTENDS VMPTrace, SequenceTheorems, TLAPS

LEMMA ProgramType ==
  ASSUME TypeOK
  PROVE  /\ Len(Code) \in Nat /\ Len(Code) > 0 /\ Addr = 1..Len(Code)
         /\ \A a \in Addr : Code[a].reads \in 0..2 /\ Code[a].to \subseteq 0..Len(Code)
<1>1. Len(Code) > 0 /\ Code \in Seq(Instruction(Len(Code)))
  BY TraceAssumption DEF TypeOK, Code
<1>2. Len(Code) \in Nat /\ DOMAIN Code = 1..Len(Code)
  BY <1>1
<1>3. \A a \in 1..Len(Code) : Code[a] \in Instruction(Len(Code))
  BY <1>1
<1> QED BY <1>1, <1>2, <1>3 DEF Addr, Instruction

LEMMA LinesType ==
  ASSUME TypeOK, NEW t \in Threads, NEW a \in Addr PROVE Lines(t, a) \in Seq(LineSet)
<1> DEFINE n == Code[a].reads
           mr == [k \in 1..n |-> Line(t, "mr", a)]
<1>1. n \in Nat
  BY ProgramType
<1>2. Line(t, "mr", a) \in LineSet /\ Line(t, "r", a) \in LineSet /\ Line(t, "i", a) \in LineSet
  BY DEF Line, LineSet
<1>3. mr \in Seq(LineSet)
  BY <1>1, <1>2
<1>4. <<Line(t, "r", a), Line(t, "i", a)>> \in Seq(LineSet)
  BY <1>2
<1> HIDE DEF mr, n
<1>5. mr \o <<Line(t, "r", a), Line(t, "i", a)>> \in Seq(LineSet)
  BY <1>3, <1>4
<1> QED BY <1>5 DEF Lines, mr, n

LEMMA CallsType ==
  ASSUME TypeOK, NEW t \in Threads, NEW h, NEW a \in Addr
  PROVE  Calls(t, h, a) \in Seq(LineSet)
  BY LinesType DEF Calls

\* A Pin trace is a contiguous piece of the layout.
LEMMA TraceContiguous ==
  ASSUME TypeOK, NEW h \in Addr, NEW a \in TraceAt(h), NEW b \in Nat, h <= b, b <= a
  PROVE  b \in TraceAt(h)
  BY ProgramType DEF TraceAt

LEMMA FallThrough ==
  ASSUME TypeOK, NEW h \in Addr, NEW a \in TraceAt(h), ~Code[a].ends,
         NEW b \in 0..Len(Code), b = a + 1
  PROVE  b \in TraceAt(h)
<1>1. b \in Addr /\ a \in Addr /\ a >= h
  BY ProgramType DEF TraceAt
<1>2. ASSUME NEW c \in Addr, h <= c, c < b PROVE ~Code[c].ends
  <2>1. CASE c = a
    BY <2>1
  <2>2. CASE c < a
    BY <1>2, <2>2 DEF TraceAt
  <2> QED BY <1>1, <1>2, <2>1, <2>2, ProgramType
<1>3. b >= h
  BY <1>1, ProgramType
<1> QED BY <1>1, <1>2, <1>3 DEF TraceAt

\* In every reachable state of the tool and of Pin every variable has its type:
\* in particular a thread is always in the middle of the trace it entered, and
\* no call is ever inserted outside of the trace that is being instrumented.
THEOREM TypeCorrect == Spec => []TypeOK
<1>1. Init => TypeOK
  <2> SUFFICES ASSUME Init PROVE TypeOK
    OBVIOUS
  <2>1. 1 \in Addr
    BY TraceAssumption DEF Init, Addr, Code
  <2>2. cache = <<>> /\ DOMAIN cache = {}
    BY DEF Init
  <2>3. /\ todo \in [Threads -> Seq(LineSet)] /\ log \in Seq(LineSet)
        /\ jitted \in Seq(DOMAIN cache)
    BY DEF Init
  <2>4. /\ pc \in [Threads -> Addr \cup {0}] /\ head \in [Threads -> DOMAIN cache \cup {0}]
        /\ \A t \in Threads : head[t] = 0
        /\ inside \in [Threads -> BOOLEAN] /\ missed = {} /\ stray = {}
        /\ start \in BOOLEAN /\ prog \in DOMAIN Programs
        /\ open \in [Threads -> {"none", "whole", "torn"}] /\ torn = {}
    BY <2>1 DEF Init
  <2> QED BY <2>2, <2>3, <2>4 DEF TypeOK
<1>2. TypeOK /\ [Next]_vars => TypeOK'
  <2> SUFFICES ASSUME TypeOK, [Next]_vars PROVE TypeOK'
    OBVIOUS
  <2> USE DEF TypeOK
  <2>1. ASSUME NEW t \in Threads, Compile(t) PROVE TypeOK'
    <3>1. /\ Code' = Code /\ Addr' = Addr /\ LineSet' = LineSet
          /\ \A h : TraceAt(h)' = TraceAt(h)
      BY <2>1 DEF Compile, Code, Addr, LineSet, TraceAt
    <3>2. pc[t] \in Addr /\ DOMAIN cache' = DOMAIN cache \cup {pc[t]}
      BY <2>1 DEF Compile
    <3>3. \A h \in DOMAIN cache' : cache'[h] \subseteq TraceAt(h)
      BY <2>1 DEF Compile, Instrumented, Visited
    <3>4. jitted' \in Seq(DOMAIN cache')
      BY <2>1, <3>2 DEF Compile
    <3>5. start' \in BOOLEAN
      BY <2>1 DEF Compile, StartAfter
    <3> QED BY <2>1, <3>1, <3>2, <3>3, <3>4, <3>5 DEF Compile, outVars
  <2>2. ASSUME NEW t \in Threads, EnterTrace(t) PROVE TypeOK'
    <3>1. /\ Code' = Code /\ Addr' = Addr /\ LineSet' = LineSet
          /\ \A h : TraceAt(h)' = TraceAt(h)
      BY <2>2 DEF EnterTrace, Code, Addr, LineSet, TraceAt
    <3>2. pc[t] \in DOMAIN cache /\ pc[t] \in TraceAt(pc[t])
      BY <2>2, ProgramType DEF EnterTrace, TraceAt
    <3>3. Calls(t, pc[t], pc[t]) \in Seq(LineSet)
      BY <3>2, CallsType
    <3> QED BY <2>2, <3>1, <3>2, <3>3 DEF EnterTrace
  <2>3. ASSUME NEW t \in Threads, WriteLine(t) PROVE TypeOK'
    <3>1. /\ Code' = Code /\ Addr' = Addr /\ LineSet' = LineSet
          /\ \A h : TraceAt(h)' = TraceAt(h)
      BY <2>3 DEF WriteLine, pinVars, Code, Addr, LineSet, TraceAt
    <3>2. Head(todo[t]) \in LineSet /\ Tail(todo[t]) \in Seq(LineSet)
      BY <2>3 DEF WriteLine
    <3>3. log' \in Seq(LineSet) /\ todo' \in [Threads -> Seq(LineSet)]
      BY <2>3, <3>2 DEF WriteLine
    <3>4. /\ open' \in [Threads -> {"none", "whole", "torn"}]
          /\ torn' \subseteq DOMAIN log'
      <4>1. DOMAIN log' = DOMAIN log \cup {Len(log) + 1}
        BY <2>3, <3>2 DEF WriteLine
      <4> QED BY <2>3, <4>1 DEF WriteLine
    <3> QED BY <2>3, <3>1, <3>3, <3>4 DEF WriteLine, pinVars
  <2>4. ASSUME NEW t \in Threads, Execute(t) PROVE TypeOK'
    <3> DEFINE a == pc[t]
               h == head[t]
    <3>1. /\ Code' = Code /\ Addr' = Addr /\ LineSet' = LineSet
          /\ \A x : TraceAt(x)' = TraceAt(x)
      BY <2>4 DEF Execute, Code, Addr, LineSet, TraceAt
    <3>2. h \in DOMAIN cache /\ h \in Addr /\ a \in TraceAt(h) /\ a \in Addr
      BY <2>4 DEF Execute, TraceAt
    <3>3. PICK next \in Code[a].to :
            /\ pc' = [pc EXCEPT ![t] = next]
            /\ IF next = a + 1 /\ ~Code[a].ends
                 THEN /\ todo' = [todo EXCEPT ![t] = Calls(t, h, next)]
                      /\ UNCHANGED head
                 ELSE head' = [head EXCEPT ![t] = 0] /\ UNCHANGED todo
      BY <2>4 DEF Execute
    <3>4. next \in 0..Len(Code) /\ next \in Addr \cup {0}
      BY <3>2, ProgramType
    <3>5. CASE next = a + 1 /\ ~Code[a].ends
      <4>1. next \in TraceAt(h) /\ next \in Addr
        <5>1. next \in TraceAt(h)
          BY <3>2, <3>4, <3>5, FallThrough
        <5> QED BY <5>1 DEF TraceAt
      <4>2. Calls(t, h, next) \in Seq(LineSet)
        BY <4>1, CallsType
      <4>3. /\ pc' \in [Threads -> Addr \cup {0}] /\ head' = head
            /\ todo' \in [Threads -> Seq(LineSet)]
            /\ \A u \in Threads : head'[u] # 0 => pc'[u] \in TraceAt(head'[u])
        BY <3>3, <3>4, <3>5, <4>1, <4>2
      <4> QED BY <2>4, <3>1, <3>2, <4>3 DEF Execute, InRegion
    <3>6. CASE ~(next = a + 1 /\ ~Code[a].ends)
      <4>1. /\ pc' \in [Threads -> Addr \cup {0}] /\ todo' = todo
            /\ head' \in [Threads -> DOMAIN cache \cup {0}]
            /\ \A u \in Threads : head'[u] # 0 => pc'[u] \in TraceAt(head'[u])
        BY <3>3, <3>4, <3>6
      <4> QED BY <2>4, <3>1, <3>2, <4>1 DEF Execute, InRegion
    <3> QED BY <3>5, <3>6
  <2>5. ASSUME NEW t \in Threads, BeginLine(t) PROVE TypeOK'
    <3>1. open' \in [Threads -> {"none", "whole", "torn"}]
      BY <2>5 DEF BeginLine
    <3> QED BY <2>5, <3>1 DEF BeginLine, pinVars, Code, Addr, LineSet, TraceAt
  <2>6. CASE UNCHANGED vars
    BY <2>6 DEF vars, pinVars, outVars, Code, Addr, LineSet, TraceAt
  <2> QED BY <2>1, <2>2, <2>3, <2>4, <2>5, <2>6 DEF Next, Stopped
<1> QED BY <1>1, <1>2, PTL DEF Spec

-----------------------------------------------------------------------------
(* The cache remembers what `start` was when each trace was compiled.  The *)
(* facts are stated about a history js, a cache c and a value s of start.  *)

\* Code containing a is among the first n traces of js.
Seen(js, n, a) == \E j \in 1..n : a \in TraceAt(js[j])

\* a lies between KnobStart and the top h of its trace, which contains KnobStart.
BelowStart(h, a) == h <= KnobStart /\ KnobStart <= a

\* What is instrumented in the k-th trace, and what is not.
TraceRemembers(js, c, k) ==
  \A a \in TraceAt(js[k]) :
    /\ a < LibBase /\ ~Seen(js, k, KnobEnd)
         /\ (Seen(js, k - 1, KnobStart) \/ BelowStart(js[k], a)) => a \in c[js[k]]
    /\ a \in c[js[k]] => Seen(js, k, KnobStart)

Remembers(js, c, s) ==
  /\ DOMAIN c = {js[k] : k \in 1..Len(js)}
  /\ Seen(js, Len(js), KnobStart) /\ ~Seen(js, Len(js), KnobEnd) => s
  /\ s => Seen(js, Len(js), KnobStart)
  /\ \A k \in 1..Len(js) : TraceRemembers(js, c, k)

\* The traces that missed and stray name are in the cache, and the membership
\* of their instructions is what was observed when they were executed.
Observed ==
  /\ \A m \in missed : /\ m[1] \in DOMAIN cache /\ m[2] \in TraceAt(m[1])
                       /\ m[2] < LibBase /\ m[2] \notin cache[m[1]]
  /\ \A m \in stray : /\ m[1] \in DOMAIN cache /\ m[2] \in TraceAt(m[1])
                      /\ m[2] \in cache[m[1]]

JitInv == TypeOK /\ Remembers(jitted, cache, start) /\ Observed

\* The instrumentation of one more trace keeps what the cache remembers.
LEMMA CompileRemembers ==
  ASSUME TypeOK, Remembers(jitted, cache, start), NEW h \in Addr, h \notin DOMAIN cache,
         NEW js, js = Append(jitted, h), NEW s, s = StartAfter(h),
         NEW c, c = [x \in DOMAIN cache \cup {h} |-> IF x = h THEN Instrumented(x) ELSE cache[x]]
  PROVE  Remembers(js, c, s)
<1> DEFINE n == Len(jitted)
<1>1. /\ n \in Nat /\ Len(js) = n + 1 /\ js[n + 1] = h
      /\ \A k \in 1..n : js[k] = jitted[k]
  <2>1. jitted \in Seq(Addr)
    BY DEF TypeOK
  <2> QED BY <2>1
<1> HIDE DEF n
<1>2. \A m \in 0..n : \A a : Seen(js, m, a) <=> Seen(jitted, m, a)
  BY <1>1 DEF Seen
<1>3. \A a : Seen(js, n + 1, a) <=> Seen(jitted, n, a) \/ a \in TraceAt(h)
  <2>1. 1..(n + 1) = 1..n \cup {n + 1}
    BY <1>1
  <2> QED BY <1>1, <2>1 DEF Seen
<1>4. /\ Seen(jitted, n, KnobStart) /\ ~Seen(jitted, n, KnobEnd) => start
      /\ start => Seen(jitted, n, KnobStart)
      /\ DOMAIN cache = {jitted[k] : k \in 1..n}
      /\ \A k \in 1..n : TraceRemembers(jitted, cache, k)
  BY DEF Remembers, n
<1>5. DOMAIN c = {js[k] : k \in 1..Len(js)}
  <2>1. 1..(n + 1) = 1..n \cup {n + 1}
    BY <1>1
  <2> QED BY <1>1, <1>4, <2>1
<1>6. /\ Seen(js, n + 1, KnobStart) /\ ~Seen(js, n + 1, KnobEnd) => s
      /\ s => Seen(js, n + 1, KnobStart)
  BY <1>3, <1>4 DEF StartAfter
<1>7. ASSUME NEW k \in 1..n PROVE TraceRemembers(js, c, k)
  <2>1. js[k] = jitted[k] /\ jitted[k] \in DOMAIN cache /\ jitted[k] # h
    BY <1>1, <1>4
  <2>2. c[jitted[k]] = cache[jitted[k]]
    BY <2>1
  <2>3. k \in 0..n /\ k - 1 \in 0..n
    BY <1>1
  <2>4. TraceRemembers(jitted, cache, k)
    BY <1>4
  <2> QED BY <1>2, <2>1, <2>2, <2>3, <2>4 DEF TraceRemembers
<1>8. TraceRemembers(js, c, n + 1)
  <2>1. c[h] = Instrumented(h)
    OBVIOUS
  <2>2. SUFFICES ASSUME NEW a \in TraceAt(h)
        PROVE  /\ a < LibBase /\ ~Seen(js, n + 1, KnobEnd)
                    /\ (Seen(js, n, KnobStart) \/ BelowStart(h, a)) => a \in Instrumented(h)
               /\ a \in Instrumented(h) => Seen(js, n + 1, KnobStart)
    <3>1. (n + 1) - 1 = n
      BY <1>1
    <3> QED BY <1>1, <2>1, <3>1 DEF TraceRemembers
  <2>3. /\ h <= KnobEnd /\ KnobEnd <= a => KnobEnd \in TraceAt(h)
        /\ h <= KnobStart /\ KnobStart <= a => KnobStart \in TraceAt(h)
    BY TraceContiguous, TraceAssumption
  <2>4. ASSUME a < LibBase, ~Seen(js, n + 1, KnobEnd), Seen(js, n, KnobStart) \/ BelowStart(h, a)
        PROVE  a \in Instrumented(h)
    <3>1. ~Seen(jitted, n, KnobEnd) /\ KnobEnd \notin TraceAt(h)
      BY <1>3, <2>4
    <3>2. a \in Visited(h)
      BY <2>3, <2>4, <3>1 DEF Visited
    <3>3. n \in 0..n
      BY <1>1
    <3>4. StartAt(h, a)
      BY <1>2, <1>4, <2>4, <3>1, <3>3 DEF StartAt, BelowStart
    <3> QED BY <3>2, <3>4 DEF Instrumented
  <2>5. ASSUME a \in Instrumented(h) PROVE Seen(js, n + 1, KnobStart)
    BY <1>3, <1>4, <2>3, <2>5 DEF Instrumented, StartAt
  <2> QED BY <2>4, <2>5
<1>9. \A k \in 1..(n + 1) : k \in 1..n \/ k = n + 1
  BY <1>1
<1> QED BY <1>1, <1>5, <1>6, <1>7, <1>8, <1>9 DEF Remembers

\* While the program stays the same, the facts are about the next values of
\* the history, the cache and start.
LEMMA RemembersPrime ==
  ASSUME prog' = prog, Remembers(jitted', cache', start')
  PROVE  Remembers(jitted, cache, start)'
  BY DEF Remembers, TraceRemembers, Seen, TraceAt, Addr, Code

LEMMA InitJit == Init => Remembers(jitted, cache, start) /\ Observed
  BY DEF Init, Remembers, Seen, Observed

LEMMA CompileJit ==
  ASSUME JitInv, NEW t \in Threads, Compile(t)
  PROVE  Remembers(jitted, cache, start)' /\ Observed'
<1>1. pc[t] \in Addr /\ pc[t] \notin DOMAIN cache
  BY DEF JitInv, TypeOK, Compile
<1>2. prog' = prog /\ \A h : TraceAt(h)' = TraceAt(h)
  BY DEF Compile, TraceAt, Addr, Code
<1>3. Remembers(jitted', cache', start')
  BY <1>1, CompileRemembers DEF JitInv, Compile
<1>4. \A h \in DOMAIN cache : h \in DOMAIN cache' /\ cache'[h] = cache[h]
  BY <1>1 DEF Compile
<1>5. missed' = missed /\ stray' = stray
  BY DEF Compile
<1>6. Observed'
  BY <1>2, <1>4, <1>5 DEF JitInv, Observed
<1> QED BY <1>2, <1>3, <1>6, RemembersPrime

LEMMA ExecuteJit ==
  ASSUME JitInv, NEW t \in Threads, Execute(t)
  PROVE  Remembers(jitted, cache, start)' /\ Observed'
<1>1. /\ prog' = prog /\ cache' = cache /\ jitted' = jitted /\ start' = start
      /\ \A h : TraceAt(h)' = TraceAt(h)
  BY DEF Execute, TraceAt, Addr, Code
<1>2. head[t] \in DOMAIN cache /\ pc[t] \in TraceAt(head[t])
  BY DEF JitInv, TypeOK, Execute
<1>3. \A m \in missed' : m \in missed \/ (m = <<head[t], pc[t]>> /\ pc[t] < LibBase
                                            /\ pc[t] \notin cache[head[t]])
  BY DEF Execute
<1>4. \A m \in stray' : m \in stray \/ (m = <<head[t], pc[t]>> /\ pc[t] \in cache[head[t]])
  BY DEF Execute
<1>5. Observed'
  BY <1>1, <1>2, <1>3, <1>4 DEF JitInv, Observed
<1>6. Remembers(jitted', cache', start')
  BY <1>1 DEF JitInv
<1> QED BY <1>1, <1>5, <1>6, RemembersPrime

\* EnterTrace, BeginLine, WriteLine and the stuttering steps leave the history alone.
LEMMA OtherJit ==
  ASSUME JitInv, UNCHANGED <<prog, cache, jitted, start, missed, stray>>
  PROVE  Remembers(jitted, cache, start)' /\ Observed'
<1>1. \A h : TraceAt(h)' = TraceAt(h)
  BY DEF TraceAt, Addr, Code
<1>2. Observed'
  BY <1>1 DEF JitInv, Observed
<1>3. Remembers(jitted', cache', start')
  BY DEF JitInv
<1> QED BY <1>2, <1>3, RemembersPrime

\* In every reachable state the cache remembers, for each compiled trace, what
\* the tool had seen of START and END when it was compiled (lines 69-107).
THEOREM CacheRemembers == Spec => []JitInv
<1>1. Init /\ TypeOK => JitInv
  BY InitJit DEF JitInv
<1>2. JitInv /\ TypeOK' /\ [Next]_vars => JitInv'
  <2> SUFFICES ASSUME JitInv, TypeOK', [Next]_vars
               PROVE  Remembers(jitted, cache, start)' /\ Observed'
    BY DEF JitInv
  <2>1. ASSUME NEW t \in Threads, Compile(t) PROVE Remembers(jitted, cache, start)' /\ Observed'
    BY <2>1, CompileJit
  <2>2. ASSUME NEW t \in Threads, Execute(t) PROVE Remembers(jitted, cache, start)' /\ Observed'
    BY <2>2, ExecuteJit
  <2>3. ASSUME NEW t \in Threads, EnterTrace(t) \/ BeginLine(t) \/ WriteLine(t)
        PROVE  UNCHANGED <<prog, cache, jitted, start, missed, stray>>
    BY <2>3 DEF EnterTrace, BeginLine, WriteLine, pinVars
  <2>4. CASE UNCHANGED vars
    BY <2>4, OtherJit DEF vars, pinVars
  <2> QED BY <2>1, <2>2, <2>3, <2>4, OtherJit DEF Next, Stopped
<1> QED BY <1>1, <1>2, TypeCorrect, PTL DEF Spec

\* Whatever the program, the range and the schedule, an instruction of the
\* region that is not logged was executed in a trace that was compiled before
\* START had been seen, or after END had: no other cause exists (lines 70-104).
THEOREM MissedIsExplained == Spec => []MissedExplained
<1>1. JitInv => MissedExplained
  <2> SUFFICES ASSUME JitInv, NEW m \in missed
        PROVE \E k \in DOMAIN jitted :
                /\ jitted[k] = m[1]
                /\ \/ /\ \A j \in 1..(k - 1) : ~Compiled(j, KnobStart)
                      /\ ~(m[1] <= KnobStart /\ KnobStart <= m[2])
                   \/ \E j \in 1..k : Compiled(j, KnobEnd)
    BY DEF MissedExplained
  <2>1. DOMAIN jitted = 1..Len(jitted)
    BY DEF JitInv, TypeOK
  <2>2. PICK k \in 1..Len(jitted) : jitted[k] = m[1]
    BY DEF JitInv, Remembers, Observed
  <2>3. m[2] \in TraceAt(jitted[k]) /\ m[2] < LibBase /\ m[2] \notin cache[jitted[k]]
    BY <2>2 DEF JitInv, Observed
  <2>4. Seen(jitted, k, KnobEnd)
          \/ (~Seen(jitted, k - 1, KnobStart) /\ ~BelowStart(jitted[k], m[2]))
    BY <2>3 DEF JitInv, Remembers, TraceRemembers
  <2> QED BY <2>1, <2>2, <2>4 DEF Seen, BelowStart, Compiled
<1> QED BY <1>1, CacheRemembers, PTL

\* Nothing is ever logged by a trace compiled before code reaching back to
\* START was: whatever is logged outside of the region, the tool had been
\* switched on when its trace was compiled (lines 77-103).
THEOREM StrayIsExplained == Spec => []StrayExplained
<1>1. JitInv => StrayExplained
  <2> SUFFICES ASSUME JitInv, NEW m \in stray
        PROVE \E k \in DOMAIN jitted :
                jitted[k] = m[1] /\ \E j \in 1..k : Compiled(j, KnobStart)
    BY DEF StrayExplained
  <2>1. DOMAIN jitted = 1..Len(jitted)
    BY DEF JitInv, TypeOK
  <2>2. PICK k \in 1..Len(jitted) : jitted[k] = m[1]
    BY DEF JitInv, Remembers, Observed
  <2>3. Seen(jitted, k, KnobStart)
    BY <2>2 DEF JitInv, Remembers, TraceRemembers, Observed
  <2> QED BY <2>1, <2>2, <2>3 DEF Seen, Compiled
<1> QED BY <1>1, CacheRemembers, PTL

-----------------------------------------------------------------------------
(* The lines of an instruction.                                            *)

\* Its reads, then its registers, then itself.
LEMMA LinesShape ==
  ASSUME TypeOK, NEW t \in Threads, NEW a \in Addr
  PROVE  /\ Lines(t, a) \in Seq(LineSet) /\ Len(Lines(t, a)) = Code[a].reads + 2
         /\ DOMAIN Lines(t, a) = 1..(Code[a].reads + 2)
         /\ \A k \in 1..Code[a].reads : Lines(t, a)[k] = Line(t, "mr", a)
         /\ Lines(t, a)[Code[a].reads + 1] = Line(t, "r", a)
         /\ Lines(t, a)[Code[a].reads + 2] = Line(t, "i", a)
<1> DEFINE n == Code[a].reads
           mr == [k \in 1..n |-> Line(t, "mr", a)]
           ri == <<Line(t, "r", a), Line(t, "i", a)>>
           q == Lines(t, a)
<1>1. n \in Nat /\ q = mr \o ri
  BY ProgramType DEF Lines
<1>2. mr \in Seq(LineSet) /\ Len(mr) = n /\ \A k \in 1..n : mr[k] = Line(t, "mr", a)
  <2>1. Line(t, "mr", a) \in LineSet
    BY DEF Line, LineSet
  <2> HIDE DEF n
  <2> QED BY <1>1, <2>1
<1>3. ri \in Seq(LineSet) /\ Len(ri) = 2 /\ ri[1] = Line(t, "r", a) /\ ri[2] = Line(t, "i", a)
  BY DEF Line, LineSet
<1> HIDE DEF n, mr, ri, q
<1>4. /\ mr \o ri \in Seq(LineSet) /\ Len(mr \o ri) = Len(mr) + Len(ri)
      /\ \A k \in 1..(Len(mr) + Len(ri)) :
           (mr \o ri)[k] = IF k <= Len(mr) THEN mr[k] ELSE ri[k - Len(mr)]
  BY <1>2, <1>3, ConcatProperties, Zenon
<1>5. /\ q \in Seq(LineSet) /\ Len(q) = n + 2
      /\ \A k \in 1..(n + 2) : q[k] = IF k <= n THEN mr[k] ELSE ri[k - n]
  BY <1>1, <1>2, <1>3, <1>4, Zenon
<1>6. (n + 1) - n = 1 /\ (n + 2) - n = 2 /\ ~ (n + 1 <= n) /\ ~ (n + 2 <= n)
      /\ n + 1 \in 1..(n + 2) /\ n + 2 \in 1..(n + 2)
  BY <1>1
<1>7. q[n + 1] = Line(t, "r", a) /\ q[n + 2] = Line(t, "i", a)
  BY <1>3, <1>5, <1>6
<1>8. \A k \in 1..n : q[k] = Line(t, "mr", a)
  BY <1>1, <1>2, <1>5
<1>9. DOMAIN q = 1..(n + 2)
  BY <1>5
<1> QED BY ONLY <1>5, <1>7, <1>8, <1>9 DEF q, n

-----------------------------------------------------------------------------
(* A range that is run once.                                               *)

\* The code of the range from which straight-line code runs into END.
Leads(W) == {a \in W : KnobEnd \in TraceAt(a)}

\* What CalledOnce says of the program that runs.
OnceCode(B, W, A) ==
  /\ B \cap W = {} /\ B \cap A = {} /\ W \cap A = {}
  /\ B \cup W \cup A \subseteq Addr
  /\ KnobStart \in W /\ KnobEnd \in A
  /\ \A a \in B : Code[a].to \subseteq B \cup {KnobStart, 0}
  /\ \A a \in W : Code[a].to \subseteq W \cup {KnobEnd, 0}
  /\ \A a \in A : Code[a].to \subseteq A \cup {0}
  /\ \A a \in B \cup W \cup A : KnobStart \in TraceAt(a) => a = KnobStart
  /\ \A a \in Leads(W) : Code[a].to \subseteq {a + 1, 0}

\* The traces that set `start`, and those that reset it, which have been compiled.
Entered == KnobStart \in DOMAIN cache
Ended(W) == DOMAIN cache \cap (Leads(W) \cup {KnobEnd}) # {}

\* What the traces that were compiled hold: all the calls that the loops reach if
\* they begin within the range, none otherwise.
CacheByPart(B, W, A) ==
  /\ DOMAIN cache \subseteq B \cup W \cup A
  /\ \A h \in DOMAIN cache \cap (B \cup A) : cache[h] = {}
  /\ \A h \in DOMAIN cache \cap W : cache[h] = Visited(h)
  /\ start <=> Entered /\ ~Ended(W)

\* A thread has not entered the range, is in it, or has left it, and START and END
\* have been compiled accordingly.
ThreadByPart(t, B, W, A) ==
  \/ /\ ~inside[t] /\ pc[t] \in B \cup {KnobStart, 0}
     /\ Entered => pc[t] \notin B
     /\ Ended(W) => pc[t] = KnobStart /\ KnobStart \in Leads(W) \cap DOMAIN cache
  \/ /\ inside[t] /\ pc[t] \in W \cup {KnobEnd, 0}
     /\ Entered
     /\ Ended(W) => pc[t] \notin W \ Leads(W)
  \/ /\ ~inside[t] /\ pc[t] \in A \cup {0}
     /\ Ended(W)

\* Once END has been compiled, a thread on its way to it is in compiled code.
Leaving(t, W) ==
  /\ inside[t] \/ pc[t] = KnobStart
  /\ pc[t] \in Leads(W) \cup {KnobEnd}
  /\ Ended(W)
  => head[t] # 0 \/ pc[t] \in DOMAIN cache

\* A thread is in a trace of the part it is in, or has come to END and beyond in
\* one of the range.
TraceByPart(t, B, W, A) ==
  head[t] # 0 =>
    /\ pc[t] \in B => head[t] \in B
    /\ pc[t] \in W => head[t] \in W /\ ~(head[t] <= KnobEnd /\ KnobEnd <= pc[t])
    /\ pc[t] \in A => \/ head[t] \in A
                      \/ head[t] \in W /\ head[t] <= KnobEnd /\ KnobEnd <= pc[t]
    /\ inside[t] => head[t] \in W \cup {KnobEnd}

OnceInv(t, B, W, A) ==
  /\ CacheByPart(B, W, A) /\ ThreadByPart(t, B, W, A) /\ TraceByPart(t, B, W, A)
  /\ Leaving(t, W)
  /\ \A u \in Threads : u # t => pc[u] = 0
  /\ missed = {} /\ stray = {}

\* Straight-line code that runs into END does so one instruction further on.
LEMMA LeadsOn ==
  ASSUME NEW B, NEW W, NEW A, TypeOK, OnceCode(B, W, A), NEW a \in Leads(W)
  PROVE  /\ a \in Nat /\ a < KnobEnd /\ ~Code[a].ends
         /\ a + 1 = KnobEnd \/ (a + 1 \in W => a + 1 \in Leads(W))
<1>1. /\ Len(Code) \in Nat /\ Addr = 1..Len(Code) /\ a \in 1..Len(Code) /\ KnobEnd \in 1..Len(Code)
      /\ a <= KnobEnd /\ a # KnobEnd /\ a \in W
  BY ProgramType DEF OnceCode, Leads, TraceAt
<1>2. a < KnobEnd /\ ~Code[a].ends
  BY <1>1 DEF Leads, TraceAt
<1>3. ASSUME a + 1 # KnobEnd PROVE KnobEnd \in TraceAt(a + 1)
  <2>1. a + 1 < KnobEnd /\ \A b \in Addr : a + 1 <= b => a <= b
    BY <1>1, <1>2, <1>3
  <2> QED BY <1>1, <2>1 DEF Leads, TraceAt
<1> QED BY <1>1, <1>2, <1>3 DEF Leads

LEMMA OnceCompile ==
  ASSUME NEW t \in Threads, NEW B, NEW W, NEW A, TypeOK, OnceCode(B, W, A),
         OnceInv(t, B, W, A), Compile(t)
  PROVE  OnceInv(t, B, W, A)'
<1> DEFINE h == pc[t]
           D == DOMAIN cache
           TE == Leads(W) \cup {KnobEnd}
<1>1. /\ h \in Addr /\ h # 0 /\ h \notin D /\ head[t] = 0 /\ h \in B \cup W \cup A
      /\ pc' = pc /\ head' = head /\ inside' = inside /\ missed' = missed /\ stray' = stray
  BY DEF Compile, TypeOK, OnceInv, ThreadByPart, OnceCode
<1>2. (\A x : TraceAt(x)' = TraceAt(x) /\ Visited(x)' = Visited(x)) /\ Leads(W)' = Leads(W)
  BY DEF Compile, TraceAt, Addr, Code, Visited, Leads
<1>3. /\ DOMAIN cache' = D \cup {h} /\ cache'[h] = Instrumented(h)
      /\ \A x \in D : cache'[x] = cache[x]
      /\ start' = StartAfter(h)
  BY <1>1 DEF Compile
<1>4. /\ Entered' <=> Entered \/ h = KnobStart
      /\ Ended(W)' <=> Ended(W) \/ h \in TE
  BY <1>2, <1>3 DEF Entered, Ended
<1>5. /\ KnobStart \in TraceAt(h) => h = KnobStart
      /\ \A a \in TraceAt(h) : h <= KnobStart /\ KnobStart <= a => h = KnobStart
  BY <1>1, TraceContiguous, TraceAssumption DEF OnceCode
<1>6. h \in TraceAt(h) /\ h <= h /\ \A a \in TraceAt(h) : h <= a
  BY <1>1, ProgramType DEF TraceAt
<1>7. start <=> Entered /\ ~Ended(W)
  BY DEF OnceInv, CacheByPart
<1>8. \A u \in Threads : u # t => pc'[u] = 0
  BY <1>1 DEF OnceInv
<1>9. missed' = {} /\ stray' = {}
  BY <1>1 DEF OnceInv
<1>10. TraceByPart(t, B, W, A)' /\ Leaving(t, W)'
  BY <1>1, <1>3 DEF TraceByPart, Leaving
<1>11. CASE h \in B
  <2>1. ~inside[t] /\ ~Entered /\ ~Ended(W) /\ h # KnobStart /\ h # KnobEnd /\ h \notin TE
        /\ h \notin W /\ h \notin A
    BY <1>1, <1>11 DEF OnceInv, ThreadByPart, OnceCode, Leads
  <2>2. Instrumented(h) = {}
    BY <1>5, <1>7, <2>1 DEF Instrumented, Visited, StartAt
  <2>3. ~StartAfter(h)
    BY <1>5, <1>7, <2>1 DEF StartAfter
  <2>4. CacheByPart(B, W, A)'
    BY <1>2, <1>3, <1>4, <1>11, <2>1, <2>2, <2>3 DEF OnceInv, CacheByPart
  <2>5. ThreadByPart(t, B, W, A)'
    BY <1>1, <1>4, <2>1, <1>11 DEF ThreadByPart
  <2> QED BY <1>8, <1>9, <1>10, <2>4, <2>5 DEF OnceInv
<1>12. CASE h \in W
  <2>1. /\ h # KnobEnd /\ h \notin B /\ h \notin A
        /\ inside[t] \/ (~inside[t] /\ h = KnobStart)
        /\ inside[t] => Entered
    BY <1>1, <1>12 DEF OnceInv, ThreadByPart, OnceCode
  <2>2. ~Ended(W)
    <3>1. CASE inside[t]
      BY <1>1, <1>12, <2>1, <3>1 DEF OnceInv, ThreadByPart, Leaving
    <3>2. CASE ~inside[t]
      BY <1>1, <1>12, <2>1, <3>2 DEF OnceInv, ThreadByPart
    <3> QED BY <3>1, <3>2
  <2>3. Instrumented(h) = Visited(h)
    <3>1. \A a \in TraceAt(h) : StartAt(h, a)
      BY <1>1, <1>6, <1>7, <2>1, <2>2 DEF StartAt
    <3> QED BY <3>1 DEF Instrumented, Visited
  <2>4. StartAfter(h) <=> h \notin TE
    <3>1. h \in TE <=> KnobEnd \in TraceAt(h)
      BY <1>12, <2>1 DEF Leads
    <3> QED BY <1>6, <1>7, <2>1, <2>2, <3>1 DEF StartAfter
  <2>5. CacheByPart(B, W, A)'
    <3>1. start' <=> Entered' /\ ~Ended(W)'
      BY <1>3, <1>4, <2>1, <2>2, <2>4
    <3> QED BY <1>2, <1>3, <1>12, <2>1, <2>3, <3>1 DEF OnceInv, CacheByPart
  <2>6. ThreadByPart(t, B, W, A)'
    <3>1. CASE inside[t]
      <4>1. Ended(W)' => h \in Leads(W)
        BY <1>4, <2>1, <2>2
      <4> QED BY <1>1, <1>2, <1>4, <1>12, <2>1, <3>1, <4>1 DEF ThreadByPart
    <3>2. CASE ~inside[t]
      <4>1. h = KnobStart /\ (Ended(W)' => KnobStart \in Leads(W))
        BY <1>4, <2>1, <2>2, <3>2
      <4> QED BY <1>1, <1>2, <1>3, <2>1, <3>2, <4>1 DEF ThreadByPart
    <3> QED BY <3>1, <3>2
  <2> QED BY <1>8, <1>9, <1>10, <2>5, <2>6 DEF OnceInv
<1>13. CASE h \in A
  <2>1. /\ h # KnobStart /\ h \notin B /\ h \notin W
        /\ Ended(W) \/ (h = KnobEnd /\ inside[t])
        /\ h = KnobEnd /\ inside[t] => Entered
        /\ h # KnobEnd => ~inside[t] /\ Ended(W)
    BY <1>1, <1>13 DEF OnceInv, ThreadByPart, OnceCode
  <2>2. Instrumented(h) = {}
    <3>1. CASE h = KnobEnd
      BY <1>6, <3>1 DEF Instrumented, Visited
    <3>2. CASE h # KnobEnd
      BY <1>5, <1>7, <2>1, <3>2 DEF Instrumented, Visited, StartAt
    <3> QED BY <3>1, <3>2
  <2>3. ~StartAfter(h)
    <3>1. CASE h = KnobEnd
      BY <1>6, <3>1 DEF StartAfter
    <3>2. CASE h # KnobEnd
      BY <1>5, <1>7, <2>1, <3>2 DEF StartAfter
    <3> QED BY <3>1, <3>2
  <2>4. Ended(W)'
    BY <1>4, <2>1
  <2>5. CacheByPart(B, W, A)'
    <3>1. start' <=> Entered' /\ ~Ended(W)'
      BY <1>3, <2>3, <2>4
    <3> QED BY <1>2, <1>3, <1>13, <2>1, <2>2, <3>1 DEF OnceInv, CacheByPart
  <2>6. ThreadByPart(t, B, W, A)'
    <3>1. CASE inside[t]
      BY <1>1, <1>2, <1>4, <2>1, <3>1 DEF ThreadByPart
    <3>2. CASE ~inside[t]
      BY <1>1, <1>13, <2>4, <3>2 DEF ThreadByPart
    <3> QED BY <3>1, <3>2
  <2> QED BY <1>8, <1>9, <1>10, <2>5, <2>6 DEF OnceInv
<1> QED BY <1>1, <1>11, <1>12, <1>13

LEMMA OnceExecute ==
  ASSUME NEW t \in Threads, NEW B, NEW W, NEW A, TypeOK, OnceCode(B, W, A),
         OnceInv(t, B, W, A), Execute(t)
  PROVE  OnceInv(t, B, W, A)'
<1> DEFINE a == pc[t]
           h == head[t]
<1>1. /\ h # 0 /\ h \in DOMAIN cache /\ h \in Addr /\ a \in TraceAt(h) /\ a \in Addr /\ a # 0
      /\ cache' = cache /\ start' = start /\ inside' = [inside EXCEPT ![t] = InRegion(@, a)]
      /\ h \in Nat /\ a \in Nat /\ h <= a /\ KnobEnd \in Nat
  <2>1. /\ h # 0 /\ h \in DOMAIN cache /\ h \in Addr /\ a \in TraceAt(h) /\ a \in Addr
        /\ cache' = cache /\ start' = start /\ inside' = [inside EXCEPT ![t] = InRegion(@, a)]
    BY DEF Execute, TypeOK, TraceAt
  <2>2. h <= a /\ a # 0 /\ h \in Nat /\ a \in Nat
    BY <2>1, ProgramType DEF TraceAt
  <2> QED BY <2>1, <2>2, TraceAssumption
<1>2. PICK next \in Code[a].to :
        /\ pc' = [pc EXCEPT ![t] = next]
        /\ IF next = a + 1 /\ ~Code[a].ends
             THEN head' = head ELSE head' = [head EXCEPT ![t] = 0]
  BY DEF Execute
<1>3. /\ pc'[t] = next /\ inside'[t] = InRegion(inside[t], a)
      /\ head'[t] = IF next = a + 1 /\ ~Code[a].ends THEN h ELSE 0
      /\ \A u \in Threads : u # t => pc'[u] = pc[u]
  BY <1>1, <1>2 DEF TypeOK
<1>4. KnobStart \in TraceAt(h) => h = KnobStart
  BY <1>1 DEF OnceCode, OnceInv, CacheByPart
<1>5. h <= KnobEnd /\ KnobEnd <= a => KnobEnd \in TraceAt(h)
  BY <1>1, TraceContiguous
<1>6. /\ (\A x : TraceAt(x)' = TraceAt(x) /\ Visited(x)' = Visited(x)) /\ Leads(W)' = Leads(W)
      /\ Entered' = Entered /\ Ended(W)' = Ended(W)
  BY <1>1 DEF Execute, TraceAt, Addr, Code, Visited, Leads, Entered, Ended
<1>7. CacheByPart(B, W, A)'
  BY <1>1, <1>6 DEF OnceInv, CacheByPart
<1>8. \A u \in Threads : u # t => pc'[u] = 0
  BY <1>3 DEF OnceInv
<1>9. ThreadByPart(t, B, W, A) /\ 0 \notin B \cup W \cup A
  BY ProgramType DEF OnceInv, OnceCode
<1>10. SUFFICES /\ ThreadByPart(t, B, W, A)' /\ TraceByPart(t, B, W, A)' /\ Leaving(t, W)'
                /\ InRegion(inside[t], a) <=> a \in W
                /\ a \in cache[h] <=> a \in W /\ a < LibBase
  BY <1>7, <1>8 DEF Execute, OnceInv
<1>11. CASE a \in B
  <2>1. /\ ~inside[t] /\ ~Entered /\ ~Ended(W) /\ h \in B /\ h # KnobStart /\ cache[h] = {}
        /\ a # KnobStart /\ a # KnobEnd /\ a \notin W /\ next \in B \cup {KnobStart, 0}
    BY <1>1, <1>2, <1>11 DEF OnceInv, ThreadByPart, TraceByPart, CacheByPart, OnceCode
  <2>2. ~inside'[t] /\ ~InRegion(inside[t], a)
    BY <1>3, <2>1 DEF InRegion
  <2>3. ThreadByPart(t, B, W, A)' /\ Leaving(t, W)'
    BY <1>3, <1>6, <2>1, <2>2 DEF ThreadByPart, Leaving
  <2>4. head'[t] # 0 => next \in B /\ head'[t] = h
    <3>1. ASSUME head'[t] # 0 PROVE next \in TraceAt(h) /\ next # 0
      <4>1. next = a + 1 /\ ~Code[a].ends
        BY <1>3, <3>1
      <4>2. next \in 0..Len(Code)
        BY <1>1, ProgramType
      <4> QED BY <1>1, <4>1, <4>2, FallThrough
    <3> QED BY <1>3, <1>4, <2>1, <3>1
  <2>5. TraceByPart(t, B, W, A)'
    BY <1>3, <2>1, <2>2, <2>4 DEF TraceByPart, OnceCode
  <2> QED BY <1>11, <2>1, <2>2, <2>3, <2>5
<1>12. CASE a \in W
  <2>1. /\ inside[t] \/ a = KnobStart
        /\ h \in W /\ ~(h <= KnobEnd /\ KnobEnd <= a) /\ cache[h] = Visited(h)
        /\ a # KnobEnd /\ a \notin B /\ a \notin A /\ next \in W \cup {KnobEnd, 0}
    BY <1>1, <1>2, <1>12 DEF OnceInv, ThreadByPart, TraceByPart, CacheByPart, OnceCode
  <2>2. Entered
    BY <1>1, <1>4, <1>12, <2>1 DEF OnceInv, ThreadByPart, OnceCode, Entered
  <2>3. inside'[t] /\ InRegion(inside[t], a)
    BY <1>3, <2>1 DEF InRegion
  <2>4. a \in cache[h] <=> a < LibBase
    BY <1>1, <2>1 DEF Visited
  <2>5. ASSUME Ended(W)
        PROVE  next = 0 \/ (next = a + 1 /\ ~Code[a].ends /\ next \in Leads(W) \cup {KnobEnd})
    <3>1. a \in Leads(W)
      BY <1>1, <1>12, <1>9, <2>1, <2>5 DEF ThreadByPart
    <3>2. next \in {a + 1, 0}
      BY <1>2, <3>1 DEF OnceCode
    <3> QED BY <2>1, <3>1, <3>2, LeadsOn
  <2>6. ThreadByPart(t, B, W, A)'
    <3>1. Ended(W) => next \notin W \ Leads(W)
      BY <1>9, <2>5 DEF OnceCode
    <3> QED BY <1>3, <1>6, <2>1, <2>2, <2>3, <3>1 DEF ThreadByPart
  <2>7. Leaving(t, W)'
    <3>1. Ended(W) /\ next # 0 => head'[t] # 0
      BY <1>1, <1>3, <2>5
    <3>2. 0 \notin Leads(W) \cup {KnobEnd}
      BY <1>9 DEF Leads, OnceCode
    <3> QED BY <1>3, <1>6, <3>1, <3>2 DEF Leaving
  <2>8. TraceByPart(t, B, W, A)'
    <3> SUFFICES ASSUME head'[t] # 0 PROVE TraceByPart(t, B, W, A)'
      BY DEF TraceByPart
    <3>1. next = a + 1 /\ head'[t] = h /\ next # 0
      BY <1>1, <1>3
    <3>2. CASE next = KnobEnd
      <4>1. h <= KnobEnd /\ KnobEnd <= next /\ next \notin W /\ next \notin B
        BY <1>1, <3>1, <3>2 DEF OnceCode
      <4> QED BY <1>3, <2>1, <3>1, <4>1 DEF TraceByPart
    <3>3. CASE next # KnobEnd
      <4>1. next \in W /\ next \notin A /\ next \notin B
        BY <2>1, <3>1, <3>3 DEF OnceCode
      <4>2. ~(h <= KnobEnd /\ KnobEnd <= next)
        BY <1>1, <2>1, <3>1, <3>3
      <4> QED BY <1>3, <2>1, <3>1, <4>1, <4>2 DEF TraceByPart
    <3> QED BY <3>2, <3>3
  <2> QED BY <1>12, <2>3, <2>4, <2>6, <2>7, <2>8
<1>13. CASE a \in A
  <2>1. /\ ~inside[t] \/ a = KnobEnd
        /\ a # KnobStart /\ a \notin W /\ a \notin B /\ next \in A \cup {0}
        /\ h \in A \/ (h \in W /\ h <= KnobEnd /\ KnobEnd <= a)
        /\ inside[t] => h \in W \cup {KnobEnd}
    BY <1>1, <1>2, <1>13 DEF OnceInv, ThreadByPart, TraceByPart, OnceCode
  <2>2. Ended(W)
    <3>1. CASE ~inside[t]
      BY <1>1, <1>9, <2>1, <3>1 DEF ThreadByPart
    <3>2. CASE inside[t]
      <4>1. h \in Leads(W) \cup {KnobEnd}
        BY <1>1, <1>5, <2>1, <3>2 DEF Leads, OnceCode
      <4> QED BY <1>1, <4>1 DEF Ended
    <3> QED BY <3>1, <3>2
  <2>3. ~inside'[t] /\ ~InRegion(inside[t], a)
    BY <1>3, <2>1 DEF InRegion
  <2>4. a \notin cache[h]
    BY <1>1, <2>1 DEF OnceInv, CacheByPart, Visited
  <2>5. ThreadByPart(t, B, W, A)' /\ Leaving(t, W)'
    BY <1>3, <1>6, <2>1, <2>2, <2>3, TraceAssumption DEF ThreadByPart, Leaving, OnceCode
  <2>6. TraceByPart(t, B, W, A)'
    <3> SUFFICES ASSUME head'[t] # 0 PROVE TraceByPart(t, B, W, A)'
      BY DEF TraceByPart
    <3>1. next = a + 1 /\ head'[t] = h /\ next # 0 /\ (KnobEnd <= a => KnobEnd <= next)
      BY <1>1, <1>3
    <3>2. next \in A /\ next \notin B /\ next \notin W
      BY <2>1, <3>1 DEF OnceCode
    <3> QED BY <1>3, <2>1, <2>3, <3>1, <3>2 DEF TraceByPart
  <2> QED BY <2>1, <2>3, <2>4, <2>5, <2>6
<1>14. a \in B \cup W \cup A
  BY <1>1 DEF OnceInv, ThreadByPart, OnceCode
<1> QED BY <1>11, <1>12, <1>13, <1>14

LEMMA OnceEnter ==
  ASSUME NEW t \in Threads, NEW B, NEW W, NEW A, TypeOK, OnceCode(B, W, A),
         OnceInv(t, B, W, A), EnterTrace(t)
  PROVE  TraceByPart(t, B, W, A)' /\ Leaving(t, W)'
<1>1. /\ head'[t] = pc[t] /\ pc[t] # 0 /\ pc' = pc /\ inside' = inside
      /\ pc[t] \in Nat /\ KnobEnd \in Nat
  BY ProgramType, TraceAssumption DEF EnterTrace, TypeOK
<1>2. pc[t] \in W => ~(pc[t] <= KnobEnd /\ KnobEnd <= pc[t])
  BY <1>1 DEF OnceCode
<1>3. inside[t] => pc[t] \in W \cup {KnobEnd}
  BY <1>1 DEF OnceInv, ThreadByPart
<1> QED BY <1>1, <1>2, <1>3 DEF TraceByPart, Leaving

LEMMA OnceStep ==
  ASSUME NEW t \in Threads, NEW B, NEW W, NEW A, TypeOK, OnceCode(B, W, A),
         OnceInv(t, B, W, A), [Next]_vars
  PROVE  OnceInv(t, B, W, A)'
<1>1. ASSUME NEW u \in Threads, u # t, Compile(u) \/ EnterTrace(u) \/ Execute(u) PROVE FALSE
  BY <1>1, ProgramType DEF OnceInv, Compile, EnterTrace, Execute, TypeOK, TraceAt
<1>2. ASSUME UNCHANGED <<start, cache, prog, pc, inside, missed, stray>>,
             TraceByPart(t, B, W, A)' /\ Leaving(t, W)'
      PROVE  OnceInv(t, B, W, A)'
  <2>1. /\ (\A x : TraceAt(x)' = TraceAt(x) /\ Visited(x)' = Visited(x)) /\ Leads(W)' = Leads(W)
        /\ Entered' = Entered /\ Ended(W)' = Ended(W)
    BY <1>2 DEF TraceAt, Addr, Code, Visited, Leads, Entered, Ended
  <2>2. CacheByPart(B, W, A)'
    BY <1>2, <2>1 DEF OnceInv, CacheByPart
  <2>3. ThreadByPart(t, B, W, A)'
    BY <1>2, <2>1 DEF OnceInv, ThreadByPart
  <2> QED BY <1>2, <2>2, <2>3 DEF OnceInv
<1>3. ASSUME UNCHANGED <<start, cache, prog, pc, inside, missed, stray, head>>
      PROVE  OnceInv(t, B, W, A)'
  <2>1. Leads(W)' = Leads(W) /\ Ended(W)' = Ended(W)
    BY <1>3 DEF TraceAt, Addr, Code, Leads, Ended
  <2>2. TraceByPart(t, B, W, A)' /\ Leaving(t, W)'
    BY <1>3, <2>1 DEF OnceInv, TraceByPart, Leaving
  <2> QED BY <1>2, <1>3, <2>2
<1>4. CASE EnterTrace(t)
  <2>1. UNCHANGED <<start, cache, prog, pc, inside, missed, stray>>
    BY <1>4 DEF EnterTrace
  <2> QED BY <1>2, <1>4, <2>1, OnceEnter
<1>5. ASSUME NEW u \in Threads, BeginLine(u) \/ WriteLine(u) PROVE OnceInv(t, B, W, A)'
  BY <1>3, <1>5 DEF BeginLine, WriteLine, pinVars
<1>6. CASE UNCHANGED vars
  BY <1>3, <1>6 DEF vars, pinVars
<1>7. CASE Compile(t) \/ Execute(t)
  BY <1>7, OnceCompile, OnceExecute
<1> QED BY <1>1, <1>4, <1>5, <1>6, <1>7 DEF Next, Stopped

\* CalledOnce, said of the traces of the program that runs.
LEMMA OnceLayout ==
  ASSUME TypeOK, NEW B, NEW W, NEW A, CalledOnce(prog, B, W, A)
  PROVE  OnceCode(B, W, A)
<1>1. /\ Len(Code) \in Nat /\ Addr = 1..Len(Code) /\ B \cup W \cup A \subseteq Addr
      /\ W \cap A = {} /\ KnobEnd \in A /\ KnobStart \in W
  BY ProgramType DEF CalledOnce, Addr, Code
<1>2. ASSUME NEW a \in B \cup W \cup A, NEW x \in Addr, x \in TraceAt(a), a # x
      PROVE  Falls(Code, a, x)
  <2>1. a \in Nat /\ x \in Nat /\ a <= x /\ a < x
    BY <1>1, <1>2 DEF TraceAt
  <2>2. \A b \in a..(x - 1) : b \in Addr /\ a <= b /\ b < x
    BY <1>1, <1>2, <2>1
  <2> QED BY <1>2, <2>1, <2>2 DEF Falls, TraceAt
<1>3. \A a \in B \cup W \cup A : KnobStart \in TraceAt(a) => a = KnobStart
  BY <1>1, <1>2 DEF CalledOnce, Code
<1>4. \A a \in Leads(W) : Code[a].to \subseteq {a + 1, 0}
  BY <1>1, <1>2 DEF CalledOnce, Code, Leads
<1> QED BY <1>1, <1>3, <1>4 DEF CalledOnce, OnceCode, Code

\* When the log can be trusted.  If one thread runs the range once, its parts share
\* no code with the rest of the program, no code falls into START, and what falls
\* into END is straight, then all that is executed in the range is logged and
\* nothing else: switching `start` when code is compiled, END while the range is
\* still being executed, and keeping the calls in the cache, do no harm.
THEOREM OneCallIsExact ==
  ASSUME NEW t \in Threads, NEW before, NEW within, NEW after,
         \A p \in DOMAIN Programs : /\ Started[p] \subseteq {t}
                                   /\ CalledOnce(p, before[p], within[p], after[p])
  PROVE  Spec => [](RegionLogged /\ NothingOutside)
<1> DEFINE B == before[prog]
           W == within[prog]
           A == after[prog]
           Inv == OnceInv(t, B, W, A)
<1>1. TypeOK => OnceCode(B, W, A)
  BY OnceLayout DEF TypeOK
<1>2. Init => Inv
  BY DEF Init, CalledOnce, OnceInv, CacheByPart, ThreadByPart, TraceByPart, Leaving,
         Entered, Ended
<1>3. TypeOK /\ Inv /\ [Next]_vars => Inv'
  <2> SUFFICES ASSUME TypeOK, Inv, [Next]_vars PROVE Inv'
    OBVIOUS
  <2>1. prog' = prog
    BY DEF Next, Compile, EnterTrace, BeginLine, WriteLine, Execute, Stopped, vars, pinVars
  <2>2. OnceCode(B, W, A)
    BY <1>1
  <2>3. B' = B /\ W' = W /\ A' = A
    BY <2>1
  <2> QED BY <2>2, <2>3, OnceStep
<1>4. Inv => RegionLogged /\ NothingOutside
  BY DEF OnceInv, RegionLogged, NothingOutside
<1> QED BY <1>2, <1>3, <1>4, TypeCorrect, PTL DEF Spec

=============================================================================
