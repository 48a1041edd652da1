--------------------------- MODULE ExactTraceProofs ---------------------------
(***************************************************************************)
(* The log of the pintool is what an exact tracer of the region writes, as *)
(* long as nothing is missed and nothing is stray: VMPTrace implements     *)
(* RegionTracer.                                                           *)
(***************************************************************************)
EXTENDS VMPTraceProofs, FiniteSetTheorems

-----------------------------------------------------------------------------
(* What a thread still has to write belongs to the instruction it is at.   *)

\* The kind of the line after which d more lines of the group come.
KindBefore(d) == IF d = 0 THEN "i" ELSE IF d = 1 THEN "r" ELSE "mr"

\* q is the rest of the group that thread t writes for the instruction at a.
GroupRest(t, q, a) ==
  /\ Len(q) <= Code[a].reads + 2
  /\ \A k \in 1..Len(q) : q[k] = Line(t, KindBefore(Len(q) - k), a)

\* Thread t is at an instruction that its compiled trace logs.
Logging(t) == head[t] # 0 /\ pc[t] \in cache[head[t]]

QueueInv == \A t \in Threads : todo[t] # <<>> => Logging(t) /\ GroupRest(t, todo[t], pc[t])

\* No library code is logged.
NoLibrary == \A h \in DOMAIN cache : \A a \in cache[h] : a < LibBase

LEMMA LinesAreRest ==
  ASSUME TypeOK, NEW t \in Threads, NEW a \in Addr
  PROVE  GroupRest(t, Lines(t, a), a) /\ Lines(t, a) # <<>>
<1> DEFINE n == Code[a].reads
           q == Lines(t, a)
<1>1. n \in Nat
  BY ProgramType
<1>2. /\ Len(q) = n + 2 /\ DOMAIN q = 1..(n + 2)
      /\ \A k \in 1..n : q[k] = Line(t, "mr", a)
      /\ q[n + 1] = Line(t, "r", a) /\ q[n + 2] = Line(t, "i", a)
  BY LinesShape
<1> HIDE DEF n, q
<1>3. ASSUME NEW k \in 1..(n + 2) PROVE q[k] = Line(t, KindBefore((n + 2) - k), a)
  <2>1. CASE k \in 1..n
    BY <1>1, <1>2, <2>1 DEF KindBefore
  <2>2. CASE k = n + 1
    <3>1. (n + 2) - k = 1
      BY <1>1, <2>2
    <3> QED BY <1>2, <2>2, <3>1 DEF KindBefore
  <2>3. CASE k = n + 2
    <3>1. (n + 2) - k = 0
      BY <1>1, <2>3
    <3> QED BY <1>2, <2>3, <3>1 DEF KindBefore
  <2> QED BY <1>1, <2>1, <2>2, <2>3
<1>4. GroupRest(t, q, a)
  BY <1>1, <1>2, <1>3 DEF GroupRest, n
<1>5. q # <<>>
  BY <1>1, <1>2
<1> QED BY <1>4, <1>5 DEF q

LEMMA TailIsRest ==
  ASSUME TypeOK, NEW t \in Threads, NEW a \in Addr, NEW q \in Seq(LineSet), q # <<>>,
         GroupRest(t, q, a)
  PROVE  /\ GroupRest(t, Tail(q), a)
         /\ Head(q) = Line(t, KindBefore(Len(q) - 1), a)
         /\ Len(Tail(q)) = Len(q) - 1 /\ Len(q) \in Nat /\ Len(q) >= 1
         /\ Tail(q) = <<>> <=> Len(q) = 1
<1> DEFINE r == Tail(q)
<1>1. /\ Len(q) \in Nat /\ Len(q) >= 1 /\ Len(r) = Len(q) - 1 /\ r \in Seq(LineSet)
      /\ \A k \in 1..Len(r) : r[k] = q[k + 1]
      /\ Head(q) = q[1]
  OBVIOUS
<1>2. r = <<>> <=> Len(q) = 1
  <2> HIDE DEF r
  <2> QED BY <1>1
<1>3. Head(q) = Line(t, KindBefore(Len(q) - 1), a)
  BY <1>1 DEF GroupRest
<1>4. Code[a].reads \in Nat
  BY ProgramType
<1> HIDE DEF r
<1>5. ASSUME NEW k \in 1..Len(r) PROVE r[k] = Line(t, KindBefore(Len(r) - k), a)
  <2>1. k + 1 \in 1..Len(q) /\ Len(q) - (k + 1) = Len(r) - k
    BY <1>1
  <2> QED BY <1>1, <2>1 DEF GroupRest
<1>6. GroupRest(t, r, a)
  BY <1>1, <1>4, <1>5 DEF GroupRest
<1> QED BY <1>1, <1>2, <1>3, <1>6 DEF r

\* All but `open`, which a thread that begins a line changes.
restVars == <<start, pinVars, todo, log, torn, jitted, inside, missed, stray>>

LEMMA RestSteps ==
  ASSUME Stopped \/ UNCHANGED vars \/ \E t \in Threads : BeginLine(t)
  PROVE  UNCHANGED restVars
  BY DEF Stopped, BeginLine, vars, outVars, pinVars, restVars

\* Nothing is queued but for an instruction that the trace logs.
LEMMA QueueStep ==
  ASSUME TypeOK, TypeOK', QueueInv, [Next]_vars
  PROVE  QueueInv'
<1>1. prog' = prog /\ Code' = Code
  BY DEF Next, Compile, EnterTrace, BeginLine, WriteLine, Execute, Stopped, vars,
         pinVars, outVars, Code
<1>2. SUFFICES ASSUME NEW u \in Threads, todo'[u] # <<>>
      PROVE  Logging(u)' /\ GroupRest(u, todo'[u], pc'[u])
  BY <1>1 DEF QueueInv, GroupRest, Line
<1>3. ASSUME NEW t \in Threads, Compile(t) PROVE Logging(u)' /\ GroupRest(u, todo'[u], pc'[u])
  <2>1. /\ todo' = todo /\ pc' = pc /\ head' = head
        /\ \A h \in DOMAIN cache : cache'[h] = cache[h]
    BY <1>3 DEF Compile, outVars
  <2>2. Logging(u) /\ GroupRest(u, todo[u], pc[u]) /\ head[u] \in DOMAIN cache
    BY <1>2, <2>1 DEF QueueInv, Logging, TypeOK
  <2> QED BY <2>1, <2>2 DEF Logging
<1>4. ASSUME NEW t \in Threads, EnterTrace(t)
      PROVE  Logging(u)' /\ GroupRest(u, todo'[u], pc'[u])
  <2>1. /\ pc[t] \in Addr /\ pc[t] # 0 /\ cache' = cache /\ pc' = pc
        /\ \A v \in Threads : head'[v] = IF v = t THEN pc[t] ELSE head[v]
        /\ \A v \in Threads : todo'[v] = IF v = t THEN Calls(t, pc[t], pc[t]) ELSE todo[v]
    BY <1>4, ProgramType DEF EnterTrace, TypeOK
  <2> QED BY <1>2, <2>1, LinesAreRest DEF QueueInv, Logging, Calls
<1>5. ASSUME NEW t \in Threads, WriteLine(t)
      PROVE  Logging(u)' /\ GroupRest(u, todo'[u], pc'[u])
  <2>1. /\ cache' = cache /\ pc' = pc /\ head' = head /\ todo[t] # <<>>
        /\ \A v \in Threads : todo'[v] = IF v = t THEN Tail(todo[t]) ELSE todo[v]
    BY <1>5 DEF WriteLine, pinVars, TypeOK
  <2>2. Logging(t) /\ GroupRest(t, todo[t], pc[t]) /\ todo[t] \in Seq(LineSet)
    BY <2>1 DEF QueueInv, TypeOK
  <2>3. pc[t] \in Addr
    BY <2>2 DEF Logging, TypeOK, TraceAt
  <2>4. GroupRest(t, Tail(todo[t]), pc[t])
    BY <2>1, <2>2, <2>3, TailIsRest
  <2> QED BY <1>2, <2>1, <2>2, <2>4 DEF QueueInv, Logging
<1>6. ASSUME NEW t \in Threads, Execute(t) PROVE Logging(u)' /\ GroupRest(u, todo'[u], pc'[u])
  <2>1. /\ cache' = cache /\ todo[t] = <<>> /\ head[t] # 0
        /\ head[t] \in Addr /\ pc[t] \in TraceAt(head[t])
    BY <1>6 DEF Execute, TypeOK
  <2>2. PICK next \in Code[pc[t]].to :
          /\ pc' = [pc EXCEPT ![t] = next]
          /\ IF next = pc[t] + 1 /\ ~Code[pc[t]].ends
               THEN todo' = [todo EXCEPT ![t] = Calls(t, head[t], next)] /\ head' = head
               ELSE head' = [head EXCEPT ![t] = 0] /\ todo' = todo
    BY <1>6 DEF Execute
  <2>3. CASE u # t
    BY <1>2, <2>1, <2>2, <2>3 DEF QueueInv, Logging, TypeOK
  <2>4. CASE u = t
    <3>1. next = pc[t] + 1 /\ ~Code[pc[t]].ends
      BY <1>2, <2>1, <2>2, <2>4
    <3>2. pc'[t] = next /\ head'[t] = head[t] /\ todo'[t] = Calls(t, head[t], next)
      BY <2>2, <3>1 DEF TypeOK
    <3>3. next \in cache[head[t]] /\ todo'[t] = Lines(t, next)
      BY <1>2, <2>4, <3>2 DEF Calls
    <3>4. next \in Addr
      BY <2>1, <3>3 DEF TypeOK, TraceAt
    <3> QED BY <2>1, <2>4, <3>2, <3>3, <3>4, LinesAreRest DEF Logging
  <2> QED BY <2>3, <2>4
<1>7. CASE UNCHANGED restVars
  BY <1>2, <1>7 DEF restVars, pinVars, QueueInv, Logging
<1> QED BY <1>3, <1>4, <1>5, <1>6, <1>7, RestSteps DEF Next

LEMMA InitQueue == Init => QueueInv /\ NoLibrary
  BY DEF Init, QueueInv, NoLibrary

LEMMA LibraryStep == NoLibrary /\ [Next]_vars => NoLibrary'
<1> SUFFICES ASSUME NoLibrary, [Next]_vars PROVE NoLibrary'
  OBVIOUS
<1>1. ASSUME NEW t \in Threads, Compile(t) PROVE NoLibrary'
  BY <1>1 DEF Compile, outVars, NoLibrary, Instrumented, Visited
<1>2. CASE cache' = cache
  BY <1>2 DEF NoLibrary
<1> QED BY <1>1, <1>2
        DEF Next, EnterTrace, BeginLine, WriteLine, Execute, Stopped, vars, pinVars

-----------------------------------------------------------------------------
(* Places in the log, counted from its beginning.                          *)

\* The n-th place of a set is in it.
Counted(S) == \A n \in 1..Cardinality(S) : NthPlace(S, n) \in S

\* Adding a place after all the others leaves those where they are.
LEMMA AddPlace ==
  ASSUME NEW N \in Nat, NEW S \in SUBSET (1..N), Counted(S), NEW T, T = S \cup {N + 1}
  PROVE  /\ Cardinality(S) \in Nat /\ Cardinality(T) = Cardinality(S) + 1
         /\ \A n \in 1..Cardinality(S) : NthPlace(T, n) = NthPlace(S, n)
         /\ NthPlace(T, Cardinality(S) + 1) = N + 1
         /\ Counted(T)
<1> DEFINE m == N + 1
           c == Cardinality(S)
           R(k) == Cardinality({j \in S : j <= k})
           Q(k) == Cardinality({j \in T : j <= k})
<1>1. IsFiniteSet(S) /\ c \in Nat
  <2>1. IsFiniteSet(1..N)
    BY FS_Interval
  <2>2. IsFiniteSet(S)
    BY <2>1, FS_Subset
  <2> QED BY <2>2, FS_CardinalityType
<1>2. m \notin S /\ m \in Nat /\ Cardinality(T) = c + 1
  BY <1>1, FS_AddElement
<1>3. ASSUME NEW k \in S PROVE Q(k) = R(k) /\ R(k) \in Nat /\ R(k) <= c
  <2>1. {j \in T : j <= k} = {j \in S : j <= k}
    OBVIOUS
  <2>2. {j \in S : j <= k} \in SUBSET S
    OBVIOUS
  <2> QED BY <1>1, <2>1, <2>2, FS_Subset, FS_CardinalityType
<1>4. Q(m) = c + 1
  <2>1. \A j \in T : j <= m
    OBVIOUS
  <2> QED BY <1>2, <2>1
<1>0. T = S \cup {m}
  OBVIOUS
<1> HIDE DEF Q, R, c, m
<1>5. ASSUME NEW n \in 1..c PROVE NthPlace(T, n) = NthPlace(S, n)
  <2>1. \A k : (k \in T /\ Q(k) = n) <=> (k \in S /\ R(k) = n)
    <3>1. Q(m) # n
      BY <1>1, <1>4
    <3>2. \A k : k \in T <=> k \in S \/ k = m
      BY <1>0
    <3> QED BY <1>3, <3>1, <3>2, Zenon
  <2>2. (CHOOSE k : k \in T /\ Q(k) = n) = (CHOOSE k : k \in S /\ R(k) = n)
    BY <2>1
  <2> QED BY <2>2 DEF NthPlace, Q, R
<1>6. NthPlace(T, c + 1) = m
  <2>1. \A k \in T : Q(k) = c + 1 <=> k = m
    BY <1>0, <1>1, <1>2, <1>3, <1>4
  <2>2. (CHOOSE k \in T : Q(k) = c + 1) = m
    BY <1>0, <2>1
  <2> QED BY <2>2 DEF NthPlace, Q
<1>7. Counted(T)
  <2>1. ASSUME NEW n \in 1..(c + 1) PROVE NthPlace(T, n) \in T
    <3>1. CASE n \in 1..c
      BY <1>0, <1>5, <3>1 DEF Counted, c
    <3>2. CASE n = c + 1
      BY <1>0, <1>6, <3>2
    <3> QED BY <1>1, <3>1, <3>2
  <2> QED BY <1>2, <2>1 DEF Counted
<1> QED BY <1>1, <1>2, <1>5, <1>6, <1>7 DEF c, m

-----------------------------------------------------------------------------
(* The instructions in the log.                                            *)

\* The last instruction a thread logged, if any.
LastOwn(t) == NthPlace(OwnPlaces(t), Cardinality(OwnPlaces(t)))

\* The instructions of a thread can be counted in the log, and a thread that has
\* written the group of the instruction it is at has logged that one last.
LogInv ==
  \A t \in Threads :
    /\ Counted(OwnPlaces(t))
    /\ Logging(t) /\ todo[t] = <<>> =>
         Cardinality(OwnPlaces(t)) > 0 /\ log[LastOwn(t)].addr = pc[t]

TraceInv == TypeOK /\ QueueInv /\ NoLibrary /\ LogInv

LEMMA PlacesType ==
  ASSUME TypeOK, NEW t \in Threads
  PROVE  /\ Len(log) \in Nat /\ OwnPlaces(t) \in SUBSET (1..Len(log))
         /\ Cardinality(OwnPlaces(t)) \in Nat
<1>1. Len(log) \in Nat /\ OwnPlaces(t) \in SUBSET (1..Len(log))
  BY DEF TypeOK, OwnPlaces
<1>2. IsFiniteSet(1..Len(log))
  BY <1>1, FS_Interval
<1>3. IsFiniteSet(OwnPlaces(t))
  BY <1>1, <1>2, FS_Subset
<1> QED BY <1>1, <1>3, FS_CardinalityType

\* What one more line does to the places of each thread.
LEMMA WritePlaces ==
  ASSUME TypeOK, QueueInv, NEW t \in Threads, WriteLine(t)
  PROVE  /\ \A k \in 1..Len(log) : log'[k] = log[k]
         /\ \A u \in Threads : u # t => OwnPlaces(u)' = OwnPlaces(u)
         /\ Logging(t)
         /\ todo'[t] # <<>> => OwnPlaces(t)' = OwnPlaces(t)
         /\ todo'[t] = <<>> => /\ OwnPlaces(t)' = OwnPlaces(t) \cup {Len(log) + 1}
                               /\ log'[Len(log) + 1].addr = pc[t]
<1> DEFINE q == todo[t]
           l == Head(q)
           n == Len(log)
<1>1. /\ q \in Seq(LineSet) /\ q # <<>> /\ Logging(t) /\ GroupRest(t, q, pc[t])
      /\ log \in Seq(LineSet) /\ n \in Nat /\ DOMAIN log = 1..n
      /\ log' = Append(log, l) /\ todo'[t] = Tail(q) /\ l \in LineSet
  BY DEF TypeOK, QueueInv, WriteLine
<1>2. pc[t] \in Addr
  BY <1>1 DEF Logging, TypeOK, TraceAt
<1>3. l = Line(t, KindBefore(Len(q) - 1), pc[t]) /\ Len(q) \in Nat /\ (Tail(q) = <<>> <=> Len(q) = 1)
  BY <1>1, <1>2, TailIsRest
<1>4. l.thread = t /\ l.addr = pc[t] /\ (l.kind = "i" <=> todo'[t] = <<>>)
  BY <1>1, <1>3 DEF Line, KindBefore
<1>5. DOMAIN log' = 1..(n + 1) /\ log'[n + 1] = l /\ \A k \in 1..n : log'[k] = log[k]
  BY <1>1
<1>6. 1..(n + 1) = (1..n) \cup {n + 1} /\ n + 1 \notin 1..n
  BY <1>1
<1> HIDE DEF q, l, n
<1>7. \A u : OwnPlaces(u)' =
        {k \in 1..(n + 1) : log'[k].thread = u /\ log'[k].kind = "i"}
  BY <1>5 DEF OwnPlaces
<1>8. \A u : OwnPlaces(u) = {k \in 1..n : log[k].thread = u /\ log[k].kind = "i"}
  BY <1>1 DEF OwnPlaces
<1>9. \A u : OwnPlaces(u)' = IF u = t /\ l.kind = "i" THEN OwnPlaces(u) \cup {n + 1}
                             ELSE OwnPlaces(u)
  BY <1>4, <1>5, <1>6, <1>7, <1>8
<1> QED BY <1>1, <1>4, <1>5, <1>9 DEF n

\* The last line of a group adds a place after all the others.
LEMMA WriteLast ==
  ASSUME TypeOK, QueueInv, LogInv, NEW t \in Threads, WriteLine(t), todo'[t] = <<>>
  PROVE  /\ Cardinality(OwnPlaces(t)') = Cardinality(OwnPlaces(t)) + 1
         /\ \A k \in 1..Cardinality(OwnPlaces(t)) :
              NthPlace(OwnPlaces(t)', k) = NthPlace(OwnPlaces(t), k)
         /\ LastOwn(t)' = Len(log) + 1
         /\ Counted(OwnPlaces(t)')
<1>1. OwnPlaces(t)' = OwnPlaces(t) \cup {Len(log) + 1}
  BY WritePlaces
<1>2. /\ Len(log) \in Nat /\ OwnPlaces(t) \in SUBSET (1..Len(log))
      /\ Counted(OwnPlaces(t))
  BY PlacesType DEF LogInv
<1>3. PICK S : S = OwnPlaces(t)
  OBVIOUS
<1>4. PICK T : T = OwnPlaces(t)'
  OBVIOUS
<1>5. /\ Cardinality(T) = Cardinality(S) + 1
      /\ \A k \in 1..Cardinality(S) : NthPlace(T, k) = NthPlace(S, k)
      /\ NthPlace(T, Cardinality(S) + 1) = Len(log) + 1
      /\ Counted(T)
  <2>1. PICK N : N = Len(log)
    OBVIOUS
  <2>2. N \in Nat /\ S \in SUBSET (1..N) /\ Counted(S) /\ T = S \cup {N + 1}
    BY <1>1, <1>2, <1>3, <1>4, <2>1, Zenon
  <2>3. /\ Cardinality(T) = Cardinality(S) + 1
        /\ \A k \in 1..Cardinality(S) : NthPlace(T, k) = NthPlace(S, k)
        /\ NthPlace(T, Cardinality(S) + 1) = N + 1
        /\ Counted(T)
    BY ONLY <2>2, AddPlace
  <2> QED BY <2>1, <2>3, Zenon
<1>6. LastOwn(t)' = NthPlace(T, Cardinality(T))
  BY <1>4 DEF LastOwn
<1> QED BY ONLY <1>3, <1>4, <1>5, <1>6, Zenon

LEMMA LogStep ==
  ASSUME TypeOK, TypeOK', QueueInv, LogInv, [Next]_vars
  PROVE  LogInv'
<1>1. ASSUME NEW t \in Threads, WriteLine(t), NEW u \in Threads
      PROVE  /\ Counted(OwnPlaces(u)')
             /\ Logging(u)' /\ todo'[u] = <<>> =>
                  Cardinality(OwnPlaces(u)') > 0 /\ log'[LastOwn(u)'].addr = pc'[u]
  <2>1. pc' = pc /\ head' = head /\ cache' = cache /\ \A v \in Threads : v # t => todo'[v] = todo[v]
    BY <1>1 DEF WriteLine, pinVars, TypeOK
  <2>2. /\ Len(log) \in Nat /\ OwnPlaces(u) \in SUBSET (1..Len(log))
        /\ Cardinality(OwnPlaces(u)) \in Nat /\ Counted(OwnPlaces(u))
    BY PlacesType DEF LogInv
  <2>3. CASE u # t \/ todo'[t] # <<>>
    <3>1. OwnPlaces(u)' = OwnPlaces(u) /\ \A k \in 1..Len(log) : log'[k] = log[k]
      BY <1>1, <2>3, WritePlaces
    <3>2. ASSUME Logging(u)', todo'[u] = <<>>
          PROVE  Cardinality(OwnPlaces(u)) > 0 /\ log'[LastOwn(u)].addr = pc[u]
      <4>1. u # t /\ Logging(u) /\ todo[u] = <<>>
        BY <2>1, <2>3, <3>2 DEF Logging
      <4>2. Cardinality(OwnPlaces(u)) > 0 /\ log[LastOwn(u)].addr = pc[u]
        BY <4>1 DEF LogInv
      <4>3. LastOwn(u) \in 1..Len(log)
        BY <2>2, <4>2 DEF Counted, LastOwn
      <4> QED BY <3>1, <4>2, <4>3
    <3>3. LastOwn(u)' = LastOwn(u)
      BY <3>1 DEF LastOwn
    <3> QED BY <2>1, <2>2, <3>1, <3>2, <3>3
  <2>4. CASE u = t /\ todo'[t] = <<>>
    <3>1. log'[Len(log) + 1].addr = pc[u]
      BY <1>1, <2>4, WritePlaces
    <3>2. /\ Cardinality(OwnPlaces(u)') = Cardinality(OwnPlaces(u)) + 1
          /\ LastOwn(u)' = Len(log) + 1 /\ Counted(OwnPlaces(u)')
      BY <1>1, <2>4, WriteLast
    <3> QED BY <2>1, <2>2, <3>1, <3>2
  <2> QED BY <2>3, <2>4
<1>2. ASSUME log' = log, NEW u \in Threads,
             Logging(u)' /\ todo'[u] = <<>> => Logging(u) /\ todo[u] = <<>> /\ pc'[u] = pc[u]
      PROVE  /\ Counted(OwnPlaces(u)')
             /\ Logging(u)' /\ todo'[u] = <<>> =>
                  Cardinality(OwnPlaces(u)') > 0 /\ log'[LastOwn(u)'].addr = pc'[u]
  BY <1>2 DEF LogInv, OwnPlaces, LastOwn
<1>3. ASSUME NEW t \in Threads, Compile(t) \/ EnterTrace(t) \/ Execute(t), NEW u \in Threads,
             Logging(u)', todo'[u] = <<>>
      PROVE  Logging(u) /\ todo[u] = <<>> /\ pc'[u] = pc[u]
  <2>1. CASE Compile(t)
    BY <1>3, <2>1 DEF Compile, outVars, Logging, TypeOK
  <2>2. CASE EnterTrace(t)
    <3>1. /\ pc[t] \in Addr /\ pc[t] # 0 /\ cache' = cache /\ pc' = pc
          /\ \A v \in Threads : head'[v] = IF v = t THEN pc[t] ELSE head[v]
          /\ \A v \in Threads : todo'[v] = IF v = t THEN Calls(t, pc[t], pc[t]) ELSE todo[v]
      BY <2>2, ProgramType DEF EnterTrace, TypeOK
    <3> QED BY <1>3, <3>1, LinesAreRest DEF Logging, Calls
  <2>3. CASE Execute(t)
    <3>1. /\ cache' = cache /\ todo[t] = <<>> /\ head[t] # 0
          /\ head[t] \in Addr /\ pc[t] \in TraceAt(head[t])
      BY <2>3 DEF Execute, TypeOK
    <3>2. PICK next \in Code[pc[t]].to :
            /\ pc' = [pc EXCEPT ![t] = next]
            /\ IF next = pc[t] + 1 /\ ~Code[pc[t]].ends
                 THEN todo' = [todo EXCEPT ![t] = Calls(t, head[t], next)] /\ head' = head
                 ELSE head' = [head EXCEPT ![t] = 0] /\ todo' = todo
      BY <2>3 DEF Execute
    <3>3. CASE u # t
      BY <1>3, <3>1, <3>2, <3>3 DEF Logging, TypeOK
    <3>4. CASE u = t
      <4>1. next = pc[t] + 1 /\ ~Code[pc[t]].ends
        BY <1>3, <3>2, <3>4 DEF Logging, TypeOK
      <4>2. pc'[t] = next /\ head'[t] = head[t] /\ todo'[t] = Calls(t, head[t], next)
        BY <3>2, <4>1 DEF TypeOK
      <4>3. next \in cache[head[t]] /\ Lines(t, next) = <<>>
        BY <1>3, <3>1, <3>4, <4>2 DEF Calls, Logging
      <4>4. next \in Addr
        BY <3>1, <4>3 DEF TypeOK, TraceAt, Logging
      <4> QED BY <4>3, <4>4, LinesAreRest
    <3> QED BY <3>3, <3>4
  <2> QED BY <1>3, <2>1, <2>2, <2>3
<1>4. \A u \in Threads :
        /\ Counted(OwnPlaces(u)')
        /\ Logging(u)' /\ todo'[u] = <<>> =>
             Cardinality(OwnPlaces(u)') > 0 /\ log'[LastOwn(u)'].addr = pc'[u]
  <2>1. CASE \E t \in Threads : WriteLine(t)
    BY <1>1, <2>1
  <2>2. CASE \E t \in Threads : Compile(t) \/ EnterTrace(t) \/ Execute(t)
    <3>1. log' = log
      BY <2>2 DEF Compile, outVars, EnterTrace, Execute
    <3> QED BY <1>2, <1>3, <2>2, <3>1
  <2>3. CASE UNCHANGED restVars
    <3>1. log' = log /\ todo' = todo /\ pc' = pc /\ head' = head /\ cache' = cache
      BY <2>3 DEF restVars, pinVars
    <3>2. \A u \in Threads : Logging(u)' <=> Logging(u)
      BY <3>1 DEF Logging
    <3> QED BY <1>2, <3>1, <3>2
  <2> QED BY <2>1, <2>2, <2>3, RestSteps DEF Next
<1> QED BY <1>4 DEF LogInv

LEMMA InitLog == Init => LogInv
<1> SUFFICES ASSUME Init, NEW t \in Threads PROVE Counted(OwnPlaces(t)) /\ ~Logging(t)
  BY DEF LogInv
<1>1. OwnPlaces(t) = {}
  BY DEF Init, OwnPlaces
<1> QED BY <1>1, FS_EmptySet DEF Counted, Init, Logging

\* What a thread has still to write, whatever is logged, and the order of what is
\* logged: the invariant behind the refinement.
THEOREM TraceInvariant == Spec => []TraceInv
<1>1. Init /\ TypeOK => TraceInv
  BY InitQueue, InitLog DEF TraceInv
<1>2. TraceInv /\ TypeOK' /\ [Next]_vars => TraceInv'
  BY QueueStep, LibraryStep, LogStep DEF TraceInv
<1> QED BY <1>1, <1>2, TypeCorrect, PTL DEF Spec

-----------------------------------------------------------------------------
(* VMPTrace implements RegionTracer.                                       *)

\* How many instructions a thread has logged and executed.
RetiredCount(t) ==
  IF Logging(t) /\ todo[t] = <<>> THEN Cardinality(OwnPlaces(t)) - 1
  ELSE Cardinality(OwnPlaces(t))

\* Retired is a sequence of addresses, whose length and elements are these.
LEMMA RetiredType ==
  ASSUME TypeOK, LogInv, NEW t \in Threads
  PROVE  /\ RetiredCount(t) \in 0..Cardinality(OwnPlaces(t))
         /\ Retired(t) = [k \in 1..RetiredCount(t) |-> log[NthPlace(OwnPlaces(t), k)].addr]
         /\ \A k \in 1..Cardinality(OwnPlaces(t)) : NthPlace(OwnPlaces(t), k) \in 1..Len(log)
         /\ Retired(t) \in Seq(Addr) /\ Len(Retired(t)) = RetiredCount(t)
<1> DEFINE S == OwnPlaces(t)
           c == Cardinality(S)
           n == RetiredCount(t)
           F(k) == log[NthPlace(S, k)].addr
<1>1. Len(log) \in Nat /\ c \in Nat /\ \A k \in 1..c : NthPlace(S, k) \in 1..Len(log)
  BY PlacesType DEF LogInv, Counted
<1>2. n \in 0..c
  BY <1>1 DEF LogInv, RetiredCount
<1>3. Retired(t) = [k \in 1..n |-> F(k)]
  BY DEF Retired, RetiredCount, Logging
<1>4. ASSUME NEW k \in 1..n PROVE F(k) \in Addr
  <2>1. NthPlace(S, k) \in 1..Len(log)
    BY <1>1, <1>2
  <2>2. log[NthPlace(S, k)] \in LineSet
    BY <2>1 DEF TypeOK
  <2> QED BY <2>2 DEF LineSet
<1>5. n \in Nat
  BY <1>1, <1>2
<1> HIDE DEF n, F, S, c
<1>6. [k \in 1..n |-> F(k)] \in Seq(Addr) /\ Len([k \in 1..n |-> F(k)]) = n
  BY <1>4, <1>5
<1> QED BY <1>1, <1>2, <1>3, <1>6 DEF n, F, S, c

\* When a thread's queue and its instruction stay, so does what it has retired.
LEMMA RetiredKept ==
  ASSUME NEW t \in Threads, OwnPlaces(t)' = OwnPlaces(t), log' = log,
         RetiredCount(t)' = RetiredCount(t), TypeOK, LogInv, TypeOK', LogInv'
  PROVE  Retired(t)' = Retired(t)
<1>1. Retired(t) = [k \in 1..RetiredCount(t) |-> log[NthPlace(OwnPlaces(t), k)].addr]
  BY RetiredType
<1>2. Retired(t)' = [k \in 1..RetiredCount(t)' |-> log'[NthPlace(OwnPlaces(t)', k)].addr]
  BY DEF Retired, RetiredCount, Logging
<1> QED BY <1>1, <1>2

LEMMA RetiredWrite ==
  ASSUME TraceInv, TraceInv', NEW t \in Threads, NEW u \in Threads, WriteLine(u)
  PROVE  Retired(t)' = Retired(t)
<1> DEFINE S == OwnPlaces(t)
           c == Cardinality(S)
<1>1. /\ RetiredCount(t) \in 0..c
      /\ Retired(t) = [k \in 1..RetiredCount(t) |-> log[NthPlace(S, k)].addr]
      /\ \A k \in 1..c : NthPlace(S, k) \in 1..Len(log)
  BY RetiredType DEF TraceInv
<1>2. Retired(t)' = [k \in 1..RetiredCount(t)' |-> log'[NthPlace(S', k)].addr]
  BY DEF Retired, RetiredCount, Logging
<1>3. \A k \in 1..Len(log) : log'[k] = log[k]
  BY WritePlaces DEF TraceInv
<1>4. /\ c \in Nat /\ Len(log) \in Nat /\ S \in SUBSET (1..Len(log)) /\ Counted(S)
  BY PlacesType DEF TraceInv, LogInv
<1>5. /\ head' = head /\ pc' = pc /\ cache' = cache /\ todo[u] # <<>>
      /\ \A v \in Threads : v # u => todo'[v] = todo[v]
      /\ Logging(t)' <=> Logging(t)
  BY DEF WriteLine, pinVars, TraceInv, TypeOK, Logging
<1>6. /\ RetiredCount(t)' = RetiredCount(t)
      /\ \A k \in 1..RetiredCount(t) : NthPlace(S', k) = NthPlace(S, k)
  <2>1. CASE t # u
    <3>1. S' = S
      BY <2>1, WritePlaces DEF TraceInv
    <3> QED BY <1>5, <2>1, <3>1 DEF RetiredCount
  <2>2. CASE t = u /\ todo'[u] # <<>>
    <3>1. S' = S
      BY <2>2, WritePlaces DEF TraceInv
    <3> QED BY <1>5, <2>2, <3>1 DEF RetiredCount
  <2>3. CASE t = u /\ todo'[u] = <<>>
    <3>1. Logging(t)
      BY <2>3, WritePlaces DEF TraceInv
    <3>2. Cardinality(S') = c + 1 /\ \A k \in 1..c : NthPlace(S', k) = NthPlace(S, k)
      BY <2>3, WriteLast DEF TraceInv
    <3>3. RetiredCount(t) = c
      BY <1>5, <2>3 DEF RetiredCount
    <3>4. RetiredCount(t)' = Cardinality(S') - 1
      BY <1>5, <2>3, <3>1 DEF RetiredCount
    <3> QED BY <1>4, <3>2, <3>3, <3>4
  <2> QED BY <2>1, <2>2, <2>3
<1>7. \A k \in 1..RetiredCount(t) :
        log'[NthPlace(S', k)].addr = log[NthPlace(S, k)].addr
  BY <1>1, <1>3, <1>4, <1>6
<1> HIDE DEF S
<1> QED BY <1>1, <1>2, <1>6, <1>7

\* A thread comes to an instruction that is logged with all of its lines to write.
LEMMA FreshGroup ==
  ASSUME TypeOK, TypeOK', NEW t \in Threads, Execute(t) \/ EnterTrace(t)
  PROVE  /\ Logging(t)' => Len(todo'[t]) = Code[pc'[t]].reads + 2 /\ Code[pc'[t]].reads \in Nat
         /\ ~ (Logging(t)' /\ todo'[t] = <<>>)
<1>1. ASSUME Logging(t)'
      PROVE  /\ todo'[t] = Lines(t, pc'[t]) /\ pc'[t] \in Addr
  <2>1. pc'[t] \in Addr
    <3>1. pc'[t] \in Addr' /\ prog' = prog
      BY <1>1 DEF Logging, TypeOK, TraceAt, Execute, EnterTrace
    <3> QED BY <3>1 DEF Addr, Code
  <2>2. CASE EnterTrace(t)
    <3>1. /\ pc[t] \in DOMAIN cache /\ cache' = cache /\ pc' = pc
          /\ head'[t] = pc[t] /\ todo'[t] = Calls(t, pc[t], pc[t])
      BY <2>2 DEF EnterTrace, TypeOK
    <3> QED BY <1>1, <2>1, <3>1 DEF Logging, Calls
  <2>3. CASE Execute(t)
    <3>1. PICK next \in Code[pc[t]].to :
            /\ pc' = [pc EXCEPT ![t] = next] /\ cache' = cache
            /\ IF next = pc[t] + 1 /\ ~Code[pc[t]].ends
                 THEN todo' = [todo EXCEPT ![t] = Calls(t, head[t], next)] /\ head' = head
                 ELSE head' = [head EXCEPT ![t] = 0] /\ todo' = todo
      BY <2>3 DEF Execute
    <3>2. next = pc[t] + 1 /\ ~Code[pc[t]].ends
      BY <1>1, <3>1 DEF Logging, TypeOK
    <3>3. pc'[t] = next /\ head'[t] = head[t] /\ todo'[t] = Calls(t, head[t], next)
      BY <3>1, <3>2 DEF TypeOK
    <3> QED BY <1>1, <2>1, <3>1, <3>3 DEF Logging, Calls
  <2> QED BY <2>2, <2>3
<1>2. ASSUME Logging(t)'
      PROVE  Len(todo'[t]) = Code[pc'[t]].reads + 2 /\ Code[pc'[t]].reads \in Nat
  <2>1. PICK a \in Addr : a = pc'[t]
    BY <1>1, <1>2
  <2>2. Len(Lines(t, a)) = Code[a].reads + 2 /\ Code[a].reads \in Nat
    BY LinesShape, ProgramType
  <2> QED BY <1>1, <1>2, <2>1, <2>2
<1>3. ASSUME Logging(t)', todo'[t] = <<>> PROVE FALSE
  <2>1. Len(todo'[t]) = 0
    BY <1>3
  <2> QED BY <1>2, <1>3, <2>1
<1> QED BY <1>2, <1>3

\* A logged instruction is retired when it is executed; one that is not logged
\* leaves the log as it is.
LEMMA RetiredExecute ==
  ASSUME TraceInv, TraceInv', NEW t \in Threads, Execute(t)
  PROVE  Retired(t)' = IF pc[t] \in cache[head[t]] THEN Append(Retired(t), pc[t]) ELSE Retired(t)
<1> DEFINE S == OwnPlaces(t)
           c == Cardinality(S)
           F(k) == log[NthPlace(S, k)].addr
<1>1. /\ log' = log /\ S' = S /\ todo[t] = <<>> /\ cache' = cache /\ head[t] # 0
      /\ pc[t] \in TraceAt(head[t]) /\ head[t] \in Addr
  BY DEF Execute, OwnPlaces, TraceInv, TypeOK
<1>2. ~ (Logging(t)' /\ todo'[t] = <<>>)
  BY FreshGroup DEF TraceInv
<1>3. c \in Nat /\ RetiredCount(t)' = c
  BY <1>1, <1>2, PlacesType DEF RetiredCount, TraceInv
<1>4. Retired(t)' = [k \in 1..c |-> F(k)]
  BY <1>1, <1>3 DEF Retired, RetiredCount, Logging
<1>5. /\ Retired(t) = [k \in 1..RetiredCount(t) |-> F(k)]
      /\ Retired(t) \in Seq(Addr) /\ Len(Retired(t)) = RetiredCount(t)
  BY RetiredType DEF TraceInv
<1>6. CASE pc[t] \notin cache[head[t]]
  BY <1>4, <1>5, <1>6 DEF RetiredCount, Logging
<1>7. CASE pc[t] \in cache[head[t]]
  <2>1. RetiredCount(t) = c - 1 /\ c > 0 /\ F(c) = pc[t]
    BY <1>1, <1>7 DEF RetiredCount, Logging, TraceInv, LogInv, LastOwn
  <2> DEFINE r == Retired(t)
             e == pc[t]
  <2>0. r \in Seq(Addr) /\ e \in Addr
    BY <1>1, <1>5 DEF TraceAt
  <2> HIDE DEF F, c, r, e
  <2>2. /\ Append(r, e) \in Seq(Addr) /\ Len(Append(r, e)) = Len(r) + 1
        /\ \A k \in 1..Len(r) : Append(r, e)[k] = r[k]
        /\ Append(r, e)[Len(r) + 1] = e
    BY <2>0, AppendProperties
  <2>3. Len(r) + 1 = c /\ \A k \in 1..c : k = c \/ k \in 1..Len(r)
    BY <1>3, <1>5, <2>1 DEF r
  <2>4. ASSUME NEW k \in 1..c PROVE F(k) = Append(r, e)[k] /\ F(k) \in Addr
    <3>1. k \in 1..Len(r) => F(k) = r[k] /\ r[k] \in Addr
      <4>1. k \in 1..Len(r) => F(k) = r[k]
        BY <1>5 DEF r
      <4>2. k \in 1..Len(r) => r[k] \in Addr
        BY <2>0
      <4> QED BY <4>1, <4>2
    <3> QED BY <2>0, <2>1, <2>2, <2>3, <3>1 DEF e
  <2>5. Append(r, e) = [k \in 1..c |-> F(k)]
    <3>1. /\ [k \in 1..c |-> F(k)] \in Seq(Addr) /\ Len([k \in 1..c |-> F(k)]) = c
          /\ \A k \in 1..c : [j \in 1..c |-> F(j)][k] = F(k)
      BY <1>3, <2>4
    <3> QED BY <2>2, <2>3, <2>4, <3>1, SeqEqual
  <2> QED BY <1>4, <1>7, <2>5 DEF r, e
<1> QED BY <1>6, <1>7

\* Compilation, and the dispatcher, retire nothing.
LEMMA RetiredOther ==
  ASSUME TraceInv, TraceInv', NEW t \in Threads, NEW u \in Threads,
         Compile(u) \/ EnterTrace(u) \/ (Execute(u) /\ u # t)
  PROVE  Retired(t)' = Retired(t)
<1>1. log' = log /\ OwnPlaces(t)' = OwnPlaces(t)
  BY DEF Compile, outVars, EnterTrace, Execute, OwnPlaces
<1>2. Logging(t)' /\ todo'[t] = <<>> <=> Logging(t) /\ todo[t] = <<>>
  <2>1. CASE Compile(u)
    BY <2>1 DEF Compile, outVars, Logging, TraceInv, TypeOK
  <2>2. CASE EnterTrace(u)
    <3>1. /\ pc[u] \in Addr /\ pc[u] # 0 /\ cache' = cache /\ pc' = pc /\ head[u] = 0
          /\ \A v \in Threads : head'[v] = IF v = u THEN pc[u] ELSE head[v]
          /\ \A v \in Threads : todo'[v] = IF v = u THEN Calls(u, pc[u], pc[u]) ELSE todo[v]
      BY <2>2, ProgramType DEF EnterTrace, TraceInv, TypeOK
    <3> QED BY <3>1, LinesAreRest DEF Logging, Calls, TraceInv
  <2>3. CASE Execute(u) /\ u # t
    BY <2>3 DEF Execute, Logging, TraceInv, TypeOK
  <2> QED BY <2>1, <2>2, <2>3
<1>3. RetiredCount(t)' = RetiredCount(t)
  BY <1>1, <1>2 DEF RetiredCount
<1> QED BY <1>1, <1>3, RetiredKept DEF TraceInv

LEMMA RegionStart ==
  ASSUME \A p \in DOMAIN Programs : MainThread \in Started[p], MainThread \in Threads, Init
  PROVE  Region!Init
<1>1. /\ pc[MainThread] = 1 /\ inside[MainThread] = FALSE
      /\ head[MainThread] = 0 /\ log = <<>>
  BY DEF Init
<1>2. OwnPlaces(MainThread) = {}
  BY <1>1 DEF OwnPlaces
<1>3. Retired(MainThread) = [k \in 1..0 |-> log[NthPlace(OwnPlaces(MainThread), k)].addr]
  BY <1>1, <1>2, FS_EmptySet DEF Retired
<1>4. 1..0 = {}
  OBVIOUS
<1>5. Retired(MainThread) = <<>>
  BY <1>3, <1>4
<1> QED BY <1>1, <1>5 DEF Region!Init

\* What each step of the tool and of the program is in the region tracer, when no
\* instruction is missed and none is stray.
LEMMA RegionStep ==
  ASSUME TraceInv, TraceInv', MainThread \in Threads, [Next]_vars,
         (RegionLogged /\ NothingOutside)'
  PROVE  [Region!Step]_(Region!vars)
<1> DEFINE M == MainThread
<1>1. prog' = prog /\ Code' = Code
  BY DEF Next, Compile, EnterTrace, BeginLine, WriteLine, Execute, Stopped, vars,
         pinVars, outVars, Code
<1>2. ASSUME Retired(M)' = Retired(M), pc'[M] = pc[M], inside'[M] = inside[M]
      PROVE  UNCHANGED Region!vars
  BY <1>1, <1>2 DEF Region!vars
<1>3. ASSUME NEW u \in Threads, WriteLine(u) PROVE UNCHANGED Region!vars
  <2>1. Retired(M)' = Retired(M)
    BY <1>3, RetiredWrite
  <2> QED BY <1>2, <1>3, <2>1 DEF WriteLine, pinVars
<1>4. ASSUME NEW u \in Threads, Compile(u) \/ EnterTrace(u) PROVE UNCHANGED Region!vars
  <2>1. Retired(M)' = Retired(M)
    BY <1>4, RetiredOther
  <2> QED BY <1>2, <1>4, <2>1 DEF Compile, outVars, EnterTrace
<1>5. ASSUME NEW u \in Threads, u # M, Execute(u) PROVE UNCHANGED Region!vars
  <2>1. Retired(M)' = Retired(M)
    BY <1>5, RetiredOther
  <2>2. pc'[M] = pc[M] /\ inside'[M] = inside[M]
    BY <1>5 DEF Execute, TraceInv, TypeOK
  <2> QED BY <1>2, <2>1, <2>2
<1>6. ASSUME Execute(M) PROVE Region!Step
  <2> DEFINE a == pc[M]
  <2>1. a # 0 /\ head[M] \in DOMAIN cache /\ a \in Addr
    BY <1>6, ProgramType DEF Execute, TraceInv, TypeOK, TraceAt
  <2>2. /\ inside'[M] = InRegion(inside[M], a) /\ pc'[M] \in Code[a].to
    BY <1>6 DEF Execute, TraceInv, TypeOK
  <2>3. a \in cache[head[M]] <=> InRegion(inside[M], a) /\ a < LibBase
    <3>1. InRegion(inside[M], a) /\ a < LibBase => a \in cache[head[M]]
      BY <1>6 DEF Execute, RegionLogged
    <3>2. a \in cache[head[M]] => InRegion(inside[M], a)
      BY <1>6 DEF Execute, NothingOutside
    <3>3. a \in cache[head[M]] => a < LibBase
      BY <2>1 DEF TraceInv, NoLibrary
    <3> QED BY <3>1, <3>2, <3>3
  <2>4. Retired(M)' = IF a \in cache[head[M]] THEN Append(Retired(M), a) ELSE Retired(M)
    BY <1>6, RetiredExecute
  <2>5. inside'[M] = ((inside[M] \/ a = KnobStart) /\ a # KnobEnd)
    BY <2>2 DEF InRegion
  <2>6. Retired(M)' = IF inside'[M] /\ a < LibBase THEN Append(Retired(M), a) ELSE Retired(M)
    BY <2>2, <2>3, <2>4
  <2> QED BY <1>1, <2>1, <2>2, <2>5, <2>6 DEF Region!Step
<1>7. CASE UNCHANGED restVars
  <2>1. Retired(M)' = Retired(M)
    BY <1>7 DEF restVars, pinVars, Retired, OwnPlaces
  <2> QED BY <1>2, <1>7, <2>1 DEF restVars, pinVars
<1> QED BY <1>3, <1>4, <1>5, <1>6, <1>7, RestSteps DEF Next

\* Of any program, on any number of threads, the log of the main thread is the one
\* an exact tracer of the region writes, in order and without repetition, as long
\* as no instruction of the region was missed and none outside of it was logged.
THEOREM ExactUnlessMissed ==
  ASSUME MainThread \in Threads, \A p \in DOMAIN Programs : MainThread \in Started[p]
  PROVE  Spec /\ [](RegionLogged /\ NothingOutside) => ExactTrace
<1>1. Init => Region!Init
  BY RegionStart
<1>2. /\ TraceInv /\ TraceInv' /\ [Next]_vars
      /\ (RegionLogged /\ NothingOutside)'
      => [Region!Step]_(Region!vars)
  BY RegionStep
<1> QED BY <1>1, <1>2, TraceInvariant, PTL DEF Spec, ExactTrace, Region!Spec

\* The pintool implements the region tracer on the layout of a protected function
\* that one thread calls once: the premises of OneCallIsExact.
THEOREM OneCallIsTraced ==
  ASSUME NEW before, NEW within, NEW after,
         \A p \in DOMAIN Programs : /\ Started[p] = {MainThread}
                                   /\ CalledOnce(p, before[p], within[p], after[p])
  PROVE  Spec => ExactTrace
<1>1. CASE MainThread \in Threads
  <2>1. Spec => [](RegionLogged /\ NothingOutside)
    BY <1>1, OneCallIsExact
  <2>2. Spec /\ [](RegionLogged /\ NothingOutside) => ExactTrace
    BY <1>1, ExactUnlessMissed
  <2> QED BY <2>1, <2>2, PTL
<1>2. CASE MainThread \notin Threads
  <2>1. Init => FALSE
    BY <1>2, TraceAssumption DEF Init
  <2> QED BY <2>1, PTL DEF Spec
<1> QED BY <1>1, <1>2

=============================================================================
