--------------------------- MODULE RecordingProofs ---------------------------
(***************************************************************************)
(* What a recording says to the replay, for every program whose region is  *)
(* logged exactly, wherever foreign texts damage the file and whenever the *)
(* recording is cut.                                                       *)
(***************************************************************************)
EXTENDS Recording, ExactTraceProofs

Exact == RegionLogged /\ NothingOutside

-----------------------------------------------------------------------------
(* The parts of the invariant.                                             *)

FileLine ==
  [kind : {"text"}, addr : Nat, serial : Nat, form : {"line", "glued"}]
    \cup [kind : {"mr", "r", "i"}, addr : Nat, serial : Nat, form : {"whole", "broken", "torn"}]

Entry == [addr : Nat, serial : Nat, regs : Nat, reads : Nat]

RecTypeOK ==
  /\ file \in Seq(FileLine) /\ ran \in Seq(Addr)
  /\ phase \in {"record", "replay", "end", "raised"}
  /\ at \in 1..(Len(file) + 1) /\ regs \in Nat /\ lost \in Nat
  /\ reads \in SUBSET (1..Len(file)) /\ replayed \in Seq(Entry)
  /\ killed \in BOOLEAN /\ MainThread \in Threads

\* The instruction numbered s has been reached by its analysis calls, or executed.
Begun(s) == s \in 1..Len(ran) \/ (s = Len(ran) + 1 /\ Logging(MainThread))

\* How many of its lines are still to be written.
Left(s) == IF s = Len(ran) + 1 THEN Len(todo[MainThread]) ELSE 0

ReadsOf(s) == Code[Executed[s]].reads

\* The number of `i` lines is the number of the last instruction whose group is complete.
SerialInv ==
  Serial = IF Logging(MainThread) /\ todo[MainThread] = <<>> THEN Len(ran) + 2 ELSE Len(ran) + 1

\* The line at k is one of the tool.
Tool(k) == file[k].kind # "text"

\* A line of the tool names an instruction that was executed, or is being logged;
\* an `i` line that is not torn ends the group of that instruction.
LineAt(k) ==
  /\ Begun(file[k].serial) /\ file[k].addr = Executed[file[k].serial]
  /\ file[k].form = "torn" => k = Len(file) /\ killed /\ phase # "record"
  /\ file[k].form = "broken" => <<file[k].serial, file[k].kind>> \in damaged
  /\ file[k].kind = "i" => Left(file[k].serial) = IF file[k].form = "torn" THEN 1 ELSE 0

LineInv == \A k \in DOMAIN file : Tool(k) => LineAt(k)

\* The lines of the tool come in the order of their instructions, each of which ends
\* with its `i` line.
OrderInv ==
  \A j, k \in DOMAIN file : j < k /\ Tool(j) /\ Tool(k) =>
    /\ file[j].serial <= file[k].serial
    /\ file[j].kind = "i" => file[j].serial < file[k].serial

\* The whole lines of kind kd of the instruction numbered s.
Of(kd, s) == {k \in DOMAIN file : file[k].kind = kd /\ file[k].serial = s
                                  /\ file[k].form = "whole"}

\* All that has been written of an instruction is in the file, or damaged.
GroupAt(s) ==
  /\ <<s, "mr">> \in damaged \/
       Cardinality(Of("mr", s)) = IF Left(s) > 2 THEN ReadsOf(s) + 2 - Left(s) ELSE ReadsOf(s)
  /\ Left(s) < 2 => <<s, "r">> \in damaged \/ Of("r", s) # {}
  /\ Left(s) = 0 => <<s, "i">> \in damaged \/ Of("i", s) # {}

GroupInFile == \A s \in 1..(Len(ran) + 1) : Begun(s) => GroupAt(s)

\* A recording that was not killed ends with the program.
EndInv == phase # "record" /\ ~killed => pc[MainThread] = 0

\* What is executed without being logged is library code or outside of the region.
GapInv == gaps \subseteq excused

FileInv == SerialInv /\ LineInv /\ OrderInv /\ GroupInFile /\ EndInv /\ GapInv

\* What the reader holds after the lines before at.
Before(kd) == {k \in 1..(at - 1) : file[k].kind = kd}

\* The next line of the tool may be one of the instruction numbered s.
Pending(s) ==
  \A k \in 1..(at - 1) : Tool(k) =>
    file[k].serial <= s /\ (file[k].kind = "i" => file[k].serial < s)

\* The context holds the registers and the operands that were read of such an
\* instruction, unless a line of it was damaged.
ContextInv ==
  /\ phase = "record" => at = 1 /\ lost = 0
  /\ reads \subseteq Before("mr")
  /\ at \in DOMAIN file => \A s \in Nat : Pending(s) =>
       /\ <<s, "r">> \in damaged \/ \A k \in Before("r") : file[k].serial = s => regs = s
       /\ <<s, "mr">> \in damaged \/ \A k \in Before("mr") : file[k].serial = s => k \in reads

\* An entry of the replay, the n-th, stands for an `i` line that was read, with the
\* registers and the operands of its own instruction unless a line of it is damaged.
EntryFits(e, n) ==
  /\ \E k \in Before("i") :
       /\ file[k].serial = e.serial
       /\ \/ /\ e.addr = file[k].addr
             /\ e.regs = e.serial \/ <<e.serial, "r">> \in damaged
             /\ e.reads = Code[e.addr].reads \/ <<e.serial, "mr">> \in damaged
          \/ e.addr = 0 /\ file[k].form # "whole"
  /\ damaged = {} => e.serial = n

\* Only the last line of a file that is not damaged can have been cut, and misread.
EntryInv ==
  \A n \in DOMAIN replayed :
    /\ EntryFits(replayed[n], n)
    /\ replayed[n].addr = 0 /\ damaged = {} => n = Len(replayed) /\ at = Len(file) + 1 /\ killed

\* Every whole `i` line that was read is an entry of the replay.
ReadInv ==
  \A k \in Before("i") : file[k].form = "whole" => \E n \in DOMAIN replayed :
    replayed[n].serial = file[k].serial /\ replayed[n].addr = file[k].addr

\* The context goes from one instruction to the next by itself where nothing that is
\* not logged comes between them.
KeepInv ==
  damaged = {} =>
    /\ at \in DOMAIN file /\ replayed # <<>> /\ Len(replayed) + 1 \notin gaps =>
         regs = Len(replayed) + 1
    /\ lost # 0 => lost \in gaps

ReaderInv ==
  ContextInv /\ EntryInv /\ ReadInv /\ KeepInv /\ (phase = "end" => at = Len(file) + 1)

\* A line that is open is one that is to be written.
OpenInv == open[MainThread] # "none" => todo[MainThread] # <<>>

RecInv == RecTypeOK /\ TraceInv /\ OpenInv /\ (Exact => FileInv /\ ReaderInv)

-----------------------------------------------------------------------------
(* The recording is a run of the pintool.                                  *)

LEMMA OneThread == Threads = {MainThread} /\ MainThread \in Threads
  BY RecordingAssumption DEF MainThread

LEMMA RecordIsTrace == [RecNext]_allVars => [Next]_vars
<1> SUFFICES ASSUME [RecNext]_allVars PROVE [Next]_vars
  OBVIOUS
<1>1. CASE Record
  <2>1. ASSUME NEW t \in Threads, RecordLine(t) \/ RunTarget(t) \/ RunPin(t) PROVE Next
    BY <2>1 DEF RecordLine, RunTarget, RunPin, Next
  <2>2. ASSUME NEW t \in Threads, Kill(t) PROVE UNCHANGED vars
    BY <2>2 DEF Kill
  <2>3. CASE Foreign \/ Exit
    BY <2>3 DEF Foreign, Exit
  <2> QED BY <1>1, <2>1, <2>2, <2>3 DEF Record
<1>2. CASE Replay
  BY <1>2 DEF Replay, ReadMemory, ReadRegisters, ReadInstruction, ReadOther, ReadRaises, ReadEnd,
              Read
<1>3. CASE UNCHANGED allVars
  BY <1>3 DEF allVars
<1> QED BY <1>1, <1>2, <1>3 DEF RecNext, RecDone

\* While it is recorded, and replayed, the pintool and the program behave as they
\* do alone: all that is proved of VMPTrace holds in Recording.
LEMMA RecordingIsTrace == RecSpec => Spec
<1>1. RecInit => Init
  BY DEF RecInit
<1> QED BY <1>1, RecordIsTrace, PTL DEF RecSpec, Spec

\* What was missed or stray stays so.
LEMMA ExactBefore ==
  ASSUME [Next]_vars, Exact' PROVE Exact
<1>1. missed \subseteq missed' /\ stray \subseteq stray'
  BY DEF Next, Compile, EnterTrace, BeginLine, WriteLine, Execute, Stopped, vars
<1> QED BY <1>1 DEF Exact, RegionLogged, NothingOutside

LEMMA OpenStep ==
  ASSUME TraceInv, OpenInv, [Next]_vars PROVE OpenInv'
<1> DEFINE M == MainThread
<1>1. M \in Threads /\ Threads = {M} /\ open \in [Threads -> {"none", "whole", "torn"}]
  BY OneThread DEF TraceInv, TypeOK
<1>2. CASE Compile(M)
  BY <1>2 DEF Compile, outVars, OpenInv
<1>3. CASE EnterTrace(M)
  <2>1. todo[M] = <<>> /\ open' = open
    BY <1>1, <1>3 DEF EnterTrace, TraceInv, QueueInv, Logging
  <2> QED BY <2>1 DEF OpenInv
<1>4. CASE BeginLine(M)
  BY <1>4 DEF BeginLine, OpenInv
<1>5. CASE WriteLine(M)
  <2>1. open'[M] = "none"
    BY <1>1, <1>5 DEF WriteLine
  <2> QED BY <2>1 DEF OpenInv
<1>6. CASE Execute(M)
  BY <1>6 DEF Execute, OpenInv
<1>7. CASE UNCHANGED vars
  BY <1>7 DEF vars, outVars, OpenInv
<1> QED BY <1>1, <1>2, <1>3, <1>4, <1>5, <1>6, <1>7 DEF Next, Stopped

-----------------------------------------------------------------------------
(* Types.                                                                  *)

LEMMA AddrType == ASSUME TypeOK PROVE Addr \subseteq Nat /\ 0 \notin Addr
  BY ProgramType

\* The next line, in whatever form it comes out.
LEMMA WrittenType ==
  ASSUME TypeOK, NEW t \in Threads, todo[t] # <<>>,
         NEW form \in {"whole", "glued", "broken", "torn"}
  PROVE  Written(t, form) \in FileLine /\ Serial \in Nat /\ Serial > 0
<1>1. /\ Head(todo[t]) \in LineSet
  BY DEF TypeOK
<1>2. Head(todo[t]).addr \in Nat /\ Head(todo[t]).kind \in {"mr", "r", "i"}
  BY <1>1, AddrType DEF LineSet
<1>3. IsFiniteSet({k \in DOMAIN log : log[k].kind = "i"})
  <2>1. Len(log) \in Nat /\ DOMAIN log = 1..Len(log)
    BY DEF TypeOK
  <2>2. IsFiniteSet(DOMAIN log)
    BY <2>1, FS_Interval
  <2> QED BY <2>2, FS_Subset
<1>4. Serial \in Nat /\ Serial > 0
  <2>1. Cardinality({k \in DOMAIN log : log[k].kind = "i"}) \in Nat
    BY <1>3, FS_CardinalityType
  <2> QED BY <2>1 DEF Serial
<1> QED BY <1>2, <1>4 DEF Written, FileLine

LEMMA InitRecType == RecInit => RecTypeOK
<1> SUFFICES ASSUME RecInit PROVE RecTypeOK
  OBVIOUS
<1>1. file = <<>> /\ replayed = <<>> /\ ran = <<>> /\ Len(file) = 0
  BY DEF RecInit
<1>2. file \in Seq(FileLine) /\ replayed \in Seq(Entry) /\ ran \in Seq(Addr)
  BY <1>1
<1>3. /\ at \in 1..(Len(file) + 1) /\ regs \in Nat /\ lost \in Nat
      /\ reads \in SUBSET (1..Len(file))
  BY <1>1 DEF RecInit
<1>4. phase = "record" /\ killed = FALSE
  BY DEF RecInit
<1> QED BY <1>2, <1>3, <1>4, OneThread DEF RecTypeOK

LEMMA AppendFile ==
  ASSUME RecTypeOK, NEW l \in FileLine, file' = Append(file, l)
  PROVE  /\ Len(file) \in Nat /\ DOMAIN file = 1..Len(file)
         /\ file' \in Seq(FileLine) /\ Len(file') = Len(file) + 1
         /\ DOMAIN file' = 1..(Len(file) + 1)
         /\ \A k \in 1..Len(file) : file'[k] = file[k]
         /\ file'[Len(file) + 1] = l
  BY DEF RecTypeOK

LEMMA RecordTypes ==
  ASSUME RecTypeOK, TypeOK, TypeOK', OpenInv, Record
  PROVE  RecTypeOK'
<1>1. Len(file) \in Nat
  BY DEF RecTypeOK
<1>2. ASSUME NEW l \in FileLine, file' = Append(file, l), ran' = ran, prog' = prog,
             UNCHANGED readerVars, phase' \in {"record", "replay"}, killed' \in BOOLEAN
      PROVE  RecTypeOK'
  <2>1. file' \in Seq(FileLine) /\ Len(file') = Len(file) + 1
    BY <1>2, AppendFile
  <2>2. Addr' = Addr
    BY <1>2 DEF Addr, Code
  <2> QED BY <1>1, <1>2, <2>1, <2>2 DEF RecTypeOK, readerVars
<1>3. ASSUME file' = file, ran' \in Seq(Addr), prog' = prog,
             UNCHANGED readerVars, phase' \in {"record", "replay"}, killed' \in BOOLEAN
      PROVE  RecTypeOK'
  <2>1. Addr' = Addr
    BY <1>3 DEF Addr, Code
  <2> QED BY <1>3, <2>1 DEF RecTypeOK, readerVars
<1>4. ASSUME NEW t \in Threads, RecordLine(t) PROVE RecTypeOK'
  <2>1. PICK form \in Damages : file' = Append(file, Written(t, form))
    BY <1>4 DEF RecordLine
  <2>2. Written(t, form) \in FileLine
    BY <1>4, <2>1, WrittenType, RecordingAssumption DEF RecordLine, WriteLine, Damages
  <2> QED BY <1>2, <1>4, <2>1, <2>2 DEF RecordLine, Record, WriteLine, pinVars, runVars, RecTypeOK
<1>5. ASSUME NEW t \in Threads, RunTarget(t) PROVE RecTypeOK'
  <2>1. pc[t] \in Addr
    BY <1>5 DEF RunTarget, Execute, TypeOK, TraceAt
  <2>2. ran' \in Seq(Addr)
    BY <1>5, <2>1 DEF RunTarget, RecTypeOK
  <2> QED BY <1>3, <1>5, <2>2 DEF RunTarget, Execute, fileVars, Record, RecTypeOK
<1>6. ASSUME NEW t \in Threads, RunPin(t) PROVE RecTypeOK'
  BY <1>3, <1>6 DEF RunPin, Compile, EnterTrace, BeginLine, pinVars, fileVars, runVars, Record,
                    RecTypeOK
<1>7. CASE Foreign
  <2>1. TextLine \in FileLine
    BY DEF TextLine, FileLine
  <2> QED BY <1>2, <1>7, <2>1 DEF Foreign, vars, pinVars, runVars, Record, RecTypeOK
<1>8. CASE Exit
  BY <1>3, <1>8 DEF Exit, vars, pinVars, fileVars, runVars, RecTypeOK
<1>9. ASSUME NEW t \in Threads, Kill(t) PROVE RecTypeOK'
  <2>1. CASE open[t] = "none"
    BY <1>3, <1>9, <2>1 DEF Kill, vars, pinVars, runVars, RecTypeOK
  <2>2. CASE open[t] # "none"
    <3>1. file' = Append(file, Written(t, "torn")) /\ todo[t] # <<>>
      BY <1>9, <2>2, OneThread DEF Kill, OpenInv
    <3>2. Written(t, "torn") \in FileLine
      BY <3>1, WrittenType
    <3> QED BY <1>2, <1>9, <3>1, <3>2 DEF Kill, vars, pinVars, runVars
  <2> QED BY <2>1, <2>2
<1> QED BY <1>4, <1>5, <1>6, <1>7, <1>8, <1>9 DEF Record

LEMMA ReplayTypes ==
  ASSUME RecTypeOK, Replay
  PROVE  RecTypeOK'
<1>1. /\ Len(file) \in Nat /\ DOMAIN file = 1..Len(file)
      /\ \A k \in 1..Len(file) : file[k] \in FileLine
  BY DEF RecTypeOK
<1>2. file' = file /\ Addr' = Addr /\ ran' = ran /\ killed' = killed
  BY DEF Replay, ReadMemory, ReadRegisters, ReadInstruction, ReadOther, ReadRaises, ReadEnd,
         Read, vars, pinVars, fileVars, runVars, Addr, Code
<1>3. ASSUME NEW kd, Read(kd)
      PROVE /\ at \in 1..Len(file) /\ at' = at + 1 /\ at' \in 1..(Len(file) + 1)
            /\ phase' = phase
            /\ file[at].addr \in Nat /\ file[at].serial \in Nat
  <2>1. at \in 1..Len(file) /\ at' = at + 1 /\ phase' = phase
    BY <1>1, <1>3 DEF Read, NextLine
  <2>2. file[at] \in FileLine
    BY <1>1, <2>1
  <2>3. file[at].addr \in Nat /\ file[at].serial \in Nat
    BY <2>2 DEF FileLine
  <2> QED BY <1>1, <2>1, <2>3
<1>4. CASE ReadMemory
  <2>1. at \in 1..Len(file) /\ at' \in 1..(Len(file) + 1) /\ phase' = phase
    BY <1>3, <1>4 DEF ReadMemory
  <2>2. reads' \in SUBSET (1..Len(file))
    BY <1>4, <2>1 DEF ReadMemory, RecTypeOK
  <2> QED BY <1>2, <1>4, <2>1, <2>2 DEF ReadMemory, RecTypeOK
<1>5. CASE ReadRegisters
  <2>1. at' \in 1..(Len(file) + 1) /\ phase' = phase /\ file[at].serial \in Nat
    BY <1>3, <1>5 DEF ReadRegisters
  <2>2. regs' \in Nat /\ lost' \in Nat /\ reads' = reads /\ replayed' = replayed
    BY <1>5, <2>1 DEF ReadRegisters, RecTypeOK
  <2> QED BY <1>2, <2>1, <2>2 DEF RecTypeOK
<1>6. CASE ReadInstruction
  <2> DEFINE c == Cardinality({j \in reads : file[j].serial = file[at].serial})
             e(right) == [addr |-> IF right THEN file[at].addr ELSE 0, serial |-> file[at].serial,
                          regs |-> regs, reads |-> c]
  <2>1. /\ at' \in 1..(Len(file) + 1) /\ phase' = phase
        /\ file[at].addr \in Nat /\ file[at].serial \in Nat
    BY <1>3, <1>6 DEF ReadInstruction
  <2>2. c \in Nat
    <3>1. IsFiniteSet(1..Len(file)) /\ reads \in SUBSET (1..Len(file))
      BY <1>1, FS_Interval DEF RecTypeOK
    <3>2. IsFiniteSet({j \in reads : file[j].serial = file[at].serial})
      BY <3>1, FS_Subset
    <3> QED BY <3>2, FS_CardinalityType
  <2>3. PICK right \in BOOLEAN : replayed' = Append(replayed, e(right))
    BY <1>6 DEF ReadInstruction, Readings
  <2> HIDE DEF c
  <2>4. e(right) \in Entry
    BY <2>1, <2>2 DEF Entry, RecTypeOK
  <2> HIDE DEF e
  <2>5. replayed' \in Seq(Entry)
    BY <2>3, <2>4 DEF RecTypeOK
  <2>6. regs' \in Nat
    <3>1. Len(replayed') \in Nat /\ regs' = Processed(replayed')
      BY <1>6, <2>5 DEF ReadInstruction
    <3> QED BY <3>1 DEF Processed
  <2>7. reads' = {} /\ lost' = lost
    BY <1>6 DEF ReadInstruction
  <2> QED BY <1>1, <1>2, <2>1, <2>5, <2>6, <2>7 DEF RecTypeOK
<1>7. CASE ReadOther
  <2>1. at' \in 1..(Len(file) + 1) /\ phase' = phase
    BY <1>3, <1>7 DEF ReadOther
  <2> QED BY <1>2, <1>7, <2>1 DEF ReadOther, RecTypeOK
<1>8. CASE ReadRaises \/ ReadEnd
  BY <1>2, <1>8 DEF ReadRaises, ReadEnd, RecTypeOK, readerVars
<1> QED BY <1>4, <1>5, <1>6, <1>7, <1>8 DEF Replay

-----------------------------------------------------------------------------
(* The numbers of the instructions.                                        *)

\* A sequence and one more element.
LEMMA OneMore ==
  ASSUME NEW r \in Seq(Nat), NEW x \in Nat, NEW e, e = r \o [k \in 1..1 |-> x]
  PROVE  /\ Len(r) \in Nat /\ DOMAIN e = 1..(Len(r) + 1)
         /\ \A s \in 1..Len(r) : e[s] = r[s]
         /\ e[Len(r) + 1] = x
         /\ \A s \in 1..(Len(r) + 1) : e[s] \in Nat
<1> DEFINE one == [k \in 1..1 |-> x]
           n == Len(r)
<1>1. one \in Seq(Nat) /\ Len(one) = 1 /\ one[1] = x /\ n \in Nat
  OBVIOUS
<1>2. e = r \o one
  OBVIOUS
<1> HIDE DEF one
<1>3. /\ r \o one \in Seq(Nat) /\ Len(r \o one) = n + Len(one)
      /\ \A s \in 1..(n + Len(one)) : (r \o one)[s] = IF s <= n THEN r[s] ELSE one[s - n]
  BY <1>1, ConcatProperties, Zenon
<1>4. /\ e \in Seq(Nat) /\ Len(e) = n + 1
      /\ \A s \in 1..(n + 1) : e[s] = IF s <= n THEN r[s] ELSE one[s - n]
  BY <1>1, <1>2, <1>3, Zenon
<1>5. (n + 1) - n = 1 /\ ~ (n + 1 <= n) /\ n + 1 \in 1..(n + 1)
  BY <1>1
<1> HIDE DEF n
<1>6. e[n + 1] = x
  BY <1>1, <1>4, <1>5
<1>7. \A s \in 1..n : e[s] = r[s]
  BY <1>1, <1>4
<1>8. DOMAIN e = 1..(n + 1) /\ \A s \in 1..(n + 1) : e[s] \in Nat
  BY <1>1, <1>4
<1> QED BY <1>1, <1>6, <1>7, <1>8 DEF n

LEMMA ExecutedIs ==
  ASSUME TypeOK, RecTypeOK
  PROVE  /\ Len(ran) \in Nat /\ DOMAIN Executed = 1..(Len(ran) + 1)
         /\ \A s \in 1..Len(ran) : Executed[s] = ran[s]
         /\ Executed[Len(ran) + 1] = pc[MainThread]
         /\ \A s \in 1..(Len(ran) + 1) : Executed[s] \in Nat
<1>1. ran \in Seq(Nat)
  BY AddrType DEF RecTypeOK
<1>2. pc[MainThread] \in Nat
  BY AddrType DEF RecTypeOK, TypeOK
<1> QED BY <1>1, <1>2, OneMore DEF Executed

\* The thread being the only one, all `i` lines are its own.
LEMMA SerialIs ==
  ASSUME TypeOK
  PROVE  /\ Serial = Cardinality(OwnPlaces(MainThread)) + 1
         /\ Cardinality(OwnPlaces(MainThread)) \in Nat
<1>1. ASSUME NEW k \in DOMAIN log PROVE log[k].thread = MainThread
  <2>1. log[k] \in LineSet
    BY DEF TypeOK
  <2> QED BY <2>1, OneThread DEF LineSet
<1>2. OwnPlaces(MainThread) = {k \in DOMAIN log : log[k].kind = "i"}
  BY <1>1 DEF OwnPlaces
<1> QED BY <1>2, OneThread, PlacesType DEF Serial

LEMMA BegunBound ==
  ASSUME TypeOK, RecTypeOK, NEW s, Begun(s)
  PROVE  s \in 1..(Len(ran) + 1) /\ s \in Nat
  BY ExecutedIs DEF Begun

\* An instruction begins, or a thread passes through code that is not logged: the
\* groups that have been written are all complete.
LEMMA TargetStep ==
  ASSUME TypeOK, RecTypeOK, TypeOK', RecTypeOK', LineInv, OrderInv, GroupInFile,
         UNCHANGED <<file, damaged, phase, killed, prog>>,
         NEW n \in Nat, Len(ran') = n,
         \A s : Begun(s) => s \in 1..n /\ Left(s) = 0,
         \A s \in 1..n : Begun(s) /\ Executed'[s] = Executed[s],
         Executed'[n + 1] = pc'[MainThread],
         Logging(MainThread)' => Len(todo'[MainThread]) = Code[pc'[MainThread]].reads + 2
  PROVE  LineInv' /\ OrderInv' /\ GroupInFile'
<1>1. ASSUME NEW s \in 1..n
      PROVE  Begun(s)' /\ Left(s)' = 0 /\ Left(s) = 0 /\ ReadsOf(s)' = ReadsOf(s) /\ Begun(s)
  BY DEF Begun, Left, ReadsOf, Code
<1>2. \A kd, s : Of(kd, s)' = Of(kd, s)
  BY DEF Of
<1>3. LineInv'
  <2> SUFFICES ASSUME NEW k \in DOMAIN file, Tool(k) PROVE LineAt(k)'
    BY DEF LineInv, Tool
  <2>1. LineAt(k)
    BY DEF LineInv
  <2>2. file[k].serial \in 1..n
    BY <2>1 DEF LineAt
  <2>3. PICK s \in 1..n : s = file[k].serial
    BY <2>2
  <2>4. Begun(s)' /\ Left(s)' = 0 /\ Executed'[s] = Executed[s]
    BY <1>1
  <2> QED BY <2>1, <2>3, <2>4 DEF LineAt
<1>4. OrderInv'
  BY DEF OrderInv, Tool
<1>5. ASSUME NEW s \in 1..(n + 1), Begun(s)' PROVE GroupAt(s)'
  <2>1. CASE s \in 1..n
    <3>1. /\ Left(s)' = Left(s) /\ ReadsOf(s)' = ReadsOf(s) /\ damaged' = damaged
          /\ Of("mr", s)' = Of("mr", s) /\ Of("r", s)' = Of("r", s) /\ Of("i", s)' = Of("i", s)
      BY <1>1, <1>2, <2>1
    <3>2. GroupAt(s)
      BY <1>1, <2>1, BegunBound DEF GroupInFile
    <3> QED BY <3>1, <3>2 DEF GroupAt
  <2>2. CASE s = n + 1
    <3>1. Of("mr", s) = {}
      <4>1. ASSUME NEW k \in Of("mr", s) PROVE FALSE
        <5>1. k \in DOMAIN file /\ Tool(k) /\ file[k].serial = s
          BY <4>1 DEF Of, Tool
        <5>2. Begun(s)
          BY <5>1 DEF LineInv, LineAt
        <5> QED BY <2>2, <5>2
      <4> QED BY <4>1
    <3>2. Logging(MainThread)' /\ Left(s)' = Len(todo'[MainThread])
      BY <1>5, <2>2 DEF Begun, Left
    <3>3. ReadsOf(s)' = Code[pc'[MainThread]].reads
      BY <2>2 DEF ReadsOf, Code
    <3>4. Code[pc'[MainThread]].reads \in Nat
      <4>1. pc'[MainThread] \in Addr
        <5>1. pc'[MainThread] \in Addr'
          BY <3>2 DEF Logging, TypeOK, TraceAt, RecTypeOK
        <5> QED BY <5>1 DEF Addr, Code
      <4> QED BY <4>1, ProgramType
    <3>5. Cardinality(Of("mr", s)') = 0
      BY <1>2, <3>1, FS_EmptySet
    <3>6. Left(s)' = ReadsOf(s)' + 2 /\ ReadsOf(s)' \in Nat
      BY <3>2, <3>3, <3>4
    <3> QED BY <3>5, <3>6 DEF GroupAt
  <2>3. s \in 1..n \/ s = n + 1
    OBVIOUS
  <2> QED BY <2>1, <2>2, <2>3
<1> QED BY <1>3, <1>4, <1>5 DEF GroupInFile

\* The numbers, after a step of the target or of Pin.
LEMMA ExecutedNext ==
  ASSUME TypeOK, TypeOK', RecTypeOK', prog' = prog
  PROVE  /\ Len(ran') \in Nat
         /\ \A s \in 1..Len(ran') : Executed'[s] = ran'[s]
         /\ Executed'[Len(ran') + 1] = pc'[MainThread]
<1>1. ran' \in Seq(Addr) /\ pc'[MainThread] \in Addr \cup {0}
  BY DEF RecTypeOK, TypeOK, Addr, Code
<1>2. ran' \in Seq(Nat)
  BY <1>1, AddrType
<1>3. pc'[MainThread] \in Nat
  BY <1>1, AddrType
<1> QED BY <1>2, <1>3, OneMore DEF Executed

\* Executing an instruction completes its group, if it is logged.
LEMMA RunTargetFile ==
  ASSUME TraceInv, RecTypeOK, TypeOK', RecTypeOK', FileInv, Exact',
         phase = "record", RunTarget(MainThread)
  PROVE  FileInv'
<1> DEFINE M == MainThread
           a == pc[MainThread]
           n == Len(ran')
<1>1. /\ UNCHANGED <<file, damaged, phase, killed, prog, log, open>>
      /\ todo[M] = <<>> /\ head[M] # 0
      /\ Execute(M) /\ M \in Threads
      /\ ran' = IF InRegion(inside[M], a) /\ a < LibBase THEN Append(ran, a) ELSE ran
  BY DEF RunTarget, Execute, fileVars, RecTypeOK
<1>2. head[M] \in DOMAIN cache /\ a \in Addr
  BY <1>1 DEF TraceInv, TypeOK, TraceAt
<1>3. Logging(M) <=> InRegion(inside[M], a) /\ a < LibBase
  <2>1. InRegion(inside[M], a) /\ a < LibBase => a \in cache[head[M]]
    BY <1>1 DEF Execute, Exact, RegionLogged
  <2>2. a \in cache[head[M]] => InRegion(inside[M], a)
    BY <1>1 DEF Execute, Exact, NothingOutside
  <2>3. a \in cache[head[M]] => a < LibBase
    BY <1>2 DEF TraceInv, NoLibrary
  <2> QED BY <1>1, <2>1, <2>2, <2>3 DEF Logging
<1>4. /\ n = IF Logging(M) THEN Len(ran) + 1 ELSE Len(ran)
      /\ Len(ran) \in Nat
      /\ \A s \in 1..Len(ran) : ran'[s] = ran[s]
      /\ Logging(M) => ran'[n] = a
  BY <1>1, <1>2, <1>3 DEF RecTypeOK
<1>5. \A s \in 1..n : Begun(s) /\ Executed'[s] = Executed[s]
  <2>1. /\ \A s \in 1..n : Executed'[s] = ran'[s]
        /\ \A s \in 1..Len(ran) : Executed[s] = ran[s]
        /\ Executed[Len(ran) + 1] = a
    BY <1>1, ExecutedNext, ExecutedIs DEF TraceInv
  <2> HIDE DEF n, a
  <2> QED BY <1>4, <2>1 DEF Begun
<1>6. \A s : Begun(s) => s \in 1..n /\ Left(s) = 0
  BY <1>1, <1>4 DEF Begun, Left
<1>7. Executed'[n + 1] = pc'[M]
  BY <1>1, ExecutedNext DEF TraceInv
<1>8. /\ Logging(M)' => Len(todo'[M]) = Code[pc'[M]].reads + 2
      /\ ~ (Logging(M)' /\ todo'[M] = <<>>)
  BY <1>1, FreshGroup DEF TraceInv
<1>9. LineInv' /\ OrderInv' /\ GroupInFile'
  <2>1. n \in Nat
    BY <1>4
  <2> QED BY <1>1, <1>5, <1>6, <1>7, <1>8, <2>1, TargetStep DEF TraceInv, FileInv
<1>10. SerialInv'
  <2>1. Serial' = Serial
    BY <1>1 DEF Serial
  <2>2. Serial = n + 1
    BY <1>1, <1>4 DEF FileInv, SerialInv
  <2> QED BY <1>8, <2>1, <2>2 DEF SerialInv
<1>11. EndInv'
  BY <1>1 DEF EndInv
<1>12. GapInv'
  <2>1. a \in cache[head[M]] <=> InRegion(inside[M], a) /\ a < LibBase
    BY <1>1, <1>3 DEF Logging
  <2> QED BY <2>1 DEF RunTarget, GapInv, FileInv
<1> QED BY <1>9, <1>10, <1>11, <1>12 DEF FileInv

\* What the file says of the instructions stays when nothing is written.
LEMMA SameFile ==
  ASSUME FileInv, UNCHANGED <<pinVars, todo, log, file, damaged, runVars>>,
         phase = "record" \/ (killed' = killed /\ phase' # "record"),
         EndInv'
  PROVE  FileInv'
<1>1. /\ UNCHANGED <<file, damaged, ran, log, todo, pc, head, cache, prog>>
  BY DEF pinVars, runVars
<1>2. SerialInv'
  BY <1>1 DEF FileInv, SerialInv, Serial, Logging
<1>3. LineInv'
  <2> SUFFICES ASSUME NEW k \in DOMAIN file, Tool(k) PROVE LineAt(k)'
    BY <1>1 DEF LineInv, Tool
  <2>1. LineAt(k)
    BY DEF FileInv, LineInv
  <2>2. Begun(file[k].serial)' /\ Executed' = Executed /\ Left(file[k].serial)' = Left(file[k].serial)
    BY <1>1, <2>1 DEF LineAt, Begun, Executed, Left, Logging
  <2>3. file[k].form = "torn" => k = Len(file') /\ killed' /\ phase' # "record"
    BY <1>1, <2>1 DEF LineAt
  <2> QED BY <1>1, <2>1, <2>2, <2>3 DEF LineAt
<1>4. OrderInv'
  BY <1>1 DEF FileInv, OrderInv, Tool
<1>5. GroupInFile'
  <2>1. ASSUME NEW s
        PROVE  /\ Begun(s)' <=> Begun(s)
               /\ Left(s)' = Left(s) /\ ReadsOf(s)' = ReadsOf(s)
               /\ \A kd : Of(kd, s)' = Of(kd, s)
    BY <1>1 DEF Of, Begun, Left, ReadsOf, Logging, Code, Executed
  <2>2. ASSUME NEW s, GroupAt(s) PROVE GroupAt(s)'
    BY <1>1, <2>1, <2>2 DEF GroupAt
  <2> QED BY <1>1, <2>1, <2>2 DEF FileInv, GroupInFile
<1>6. GapInv'
  BY DEF FileInv, GapInv, runVars
<1> QED BY <1>2, <1>3, <1>4, <1>5, <1>6 DEF FileInv

\* So does entering compiled code; compiling leaves everything as it is, and so does
\* the first piece of a line.
LEMMA RunPinFile ==
  ASSUME TraceInv, RecTypeOK, TypeOK', RecTypeOK', FileInv,
         phase = "record", RunPin(MainThread)
  PROVE  FileInv'
<1> DEFINE M == MainThread
           n == Len(ran)
<1>1. /\ UNCHANGED <<file, damaged, phase, killed, prog, log, ran, pc, runVars>>
      /\ M \in Threads /\ n \in Nat
  BY DEF RunPin, Compile, EnterTrace, BeginLine, pinVars, outVars, fileVars, runVars, RecTypeOK
<1>2. EndInv'
  BY <1>1 DEF EndInv
<1>3. CASE BeginLine(M)
  <2>1. UNCHANGED <<pinVars, todo, log>> /\ todo[M] # <<>>
    BY <1>3 DEF BeginLine
  <2> QED BY <1>1, <1>2, <2>1, SameFile
<1>4. CASE Compile(M) \/ EnterTrace(M)
  <2>1. head[M] = 0 /\ (Compile(M) => todo' = todo)
    BY <1>4 DEF Compile, EnterTrace, outVars
  <2>2. ~Logging(M) /\ todo[M] = <<>>
    BY <1>1, <2>1 DEF Logging, TraceInv, QueueInv
  <2>3. \A s \in 1..n : Begun(s) /\ Executed'[s] = Executed[s]
    BY <1>1 DEF Begun, Executed
  <2>4. \A s : Begun(s) => s \in 1..n /\ Left(s) = 0
    BY <1>1, <2>2 DEF Begun, Left
  <2>5. Executed'[n + 1] = pc'[M]
    BY <1>1, ExecutedNext DEF TraceInv
  <2>6. /\ Logging(M)' => Len(todo'[M]) = Code[pc'[M]].reads + 2
        /\ ~ (Logging(M)' /\ todo'[M] = <<>>)
    <3>1. CASE Compile(M)
      BY <1>1, <2>1, <3>1 DEF Compile, Logging
    <3>2. CASE EnterTrace(M)
      BY <1>1, <3>2, FreshGroup DEF TraceInv
    <3> QED BY <1>4, <3>1, <3>2
  <2>7. LineInv' /\ OrderInv' /\ GroupInFile'
    BY <1>1, <2>3, <2>4, <2>5, <2>6, TargetStep DEF TraceInv, FileInv
  <2>8. SerialInv'
    <3>1. Serial' = Serial
      BY <1>1 DEF Serial
    <3> QED BY <1>1, <2>2, <2>6, <3>1 DEF SerialInv, FileInv
  <2>9. GapInv'
    BY <1>1 DEF FileInv, GapInv, runVars
  <2> QED BY <1>2, <2>7, <2>8, <2>9 DEF FileInv
<1> QED BY <1>3, <1>4 DEF RunPin

LEMMA SerialNext == TypeOK' => Serial' = Cardinality(OwnPlaces(MainThread)') + 1
<1> SUFFICES ASSUME TypeOK' PROVE Serial' = Cardinality(OwnPlaces(MainThread)') + 1
  OBVIOUS
<1>1. ASSUME NEW k \in DOMAIN log' PROVE log'[k].thread = MainThread
  <2>1. log'[k] \in LineSet'
    BY DEF TypeOK
  <2>2. log'[k].thread \in Threads
    BY <2>1 DEF LineSet
  <2> QED BY <2>2, OneThread
<1>2. OwnPlaces(MainThread)' = {k \in DOMAIN log' : log'[k].kind = "i"}
  BY <1>1 DEF OwnPlaces
<1> QED BY <1>2 DEF Serial

\* What the next line is.
LEMMA NextWritten ==
  ASSUME TraceInv, RecTypeOK, SerialInv, todo[MainThread] # <<>>, NEW form
  PROVE  /\ Logging(MainThread) /\ pc[MainThread] \in Addr /\ Serial = Len(ran) + 1
         /\ Executed[Len(ran) + 1] = pc[MainThread]
         /\ Begun(Len(ran) + 1) /\ Left(Len(ran) + 1) = Len(todo[MainThread])
         /\ Len(todo[MainThread]) \in Nat /\ Len(todo[MainThread]) > 0
         /\ Len(todo[MainThread]) <= ReadsOf(Len(ran) + 1) + 2
         /\ ReadsOf(Len(ran) + 1) \in Nat
         /\ Len(Tail(todo[MainThread])) = Len(todo[MainThread]) - 1
         /\ Tail(todo[MainThread]) = <<>> <=> Len(todo[MainThread]) = 1
         /\ Written(MainThread, form) =
              [kind   |-> IF form = "glued" THEN "text"
                          ELSE KindBefore(Len(todo[MainThread]) - 1),
               addr   |-> pc[MainThread],
               serial |-> Len(ran) + 1,
               form   |-> form]
         /\ Head(todo[MainThread]).kind = KindBefore(Len(todo[MainThread]) - 1)
<1> DEFINE M == MainThread
           q == todo[MainThread]
<1>1. M \in Threads /\ q \in Seq(LineSet) /\ Logging(M) /\ GroupRest(M, q, pc[M])
  BY DEF RecTypeOK, TraceInv, TypeOK, QueueInv
<1>2. pc[M] \in Addr
  BY <1>1 DEF Logging, TraceInv, TypeOK, TraceAt
<1>3. Code[pc[M]].reads \in Nat
  BY <1>2, ProgramType DEF TraceInv
<1>4. /\ Head(q) = Line(M, KindBefore(Len(q) - 1), pc[M])
      /\ Len(Tail(q)) = Len(q) - 1 /\ Len(q) \in Nat /\ Len(q) >= 1
      /\ Tail(q) = <<>> <=> Len(q) = 1
      /\ Len(q) <= Code[pc[M]].reads + 2
  BY <1>1, <1>2, TailIsRest DEF TraceInv, GroupRest
<1>5. Executed[Len(ran) + 1] = pc[M] /\ Len(ran) \in Nat
  BY ExecutedIs DEF TraceInv
<1>6. Serial = Len(ran) + 1
  BY <1>1 DEF SerialInv
<1>7. Begun(Len(ran) + 1) /\ Left(Len(ran) + 1) = Len(q) /\ ReadsOf(Len(ran) + 1) = Code[pc[M]].reads
  BY <1>1, <1>5 DEF Begun, Left, ReadsOf
<1>8. Head(q).kind = KindBefore(Len(q) - 1) /\ Head(q).addr = pc[M]
  BY <1>4 DEF Line
<1> HIDE DEF q
<1>9. Len(q) > 0 /\ ReadsOf(Len(ran) + 1) \in Nat /\ Len(q) <= ReadsOf(Len(ran) + 1) + 2
  BY <1>3, <1>4, <1>7
<1> QED BY <1>1, <1>2, <1>4, <1>5, <1>6, <1>7, <1>8, <1>9 DEF Written, q

\* One line more of the group that is being written.
LEMMA RecordLineFile ==
  ASSUME TraceInv, TypeOK', RecTypeOK, RecTypeOK', FileInv, LogInv,
         phase = "record", RecordLine(MainThread)
  PROVE  FileInv'
<1> DEFINE M == MainThread
           L == Len(todo[MainThread])
           s0 == Len(ran) + 1
           m == Len(file) + 1
           kd0 == KindBefore(L - 1)
<1>1. /\ UNCHANGED <<prog, pc, head, cache, phase, killed, ran, gaps, excused>>
      /\ todo[M] # <<>> /\ M \in Threads /\ todo'[M] = Tail(todo[M]) /\ WriteLine(M)
  BY DEF RecordLine, WriteLine, pinVars, runVars, RecTypeOK, TraceInv, TypeOK
<1>2. /\ Logging(M) /\ Serial = s0 /\ Executed[s0] = pc[M] /\ Begun(s0) /\ Left(s0) = L
      /\ L \in Nat /\ L > 0 /\ L <= ReadsOf(s0) + 2 /\ ReadsOf(s0) \in Nat
      /\ Len(todo'[M]) = L - 1 /\ (todo'[M] = <<>> <=> L = 1)
      /\ Head(todo[M]).kind = kd0
  BY <1>1, NextWritten DEF FileInv
<1>3. PICK form \in Damages :
        /\ file' = Append(file, Written(M, form))
        /\ damaged' = IF form = "whole" THEN damaged
                      ELSE damaged \cup {<<Serial, Head(todo[M]).kind>>}
  BY DEF RecordLine
<1>4. form \in {"glued", "broken", "whole"}
  BY RecordingAssumption DEF Damages
<1> DEFINE w == Written(M, form)
<1>5. /\ w.kind = (IF form = "glued" THEN "text" ELSE kd0) /\ w.addr = pc[M]
      /\ w.serial = s0 /\ w.form = form
  BY <1>1, NextWritten DEF FileInv
<1>6. w \in FileLine
  BY <1>1, <1>4, WrittenType DEF TraceInv
<1>7. /\ Len(file) \in Nat /\ DOMAIN file = 1..Len(file)
      /\ DOMAIN file' = 1..m /\ Len(file') = m
      /\ \A k \in 1..Len(file) : file'[k] = file[k]
      /\ file'[m] = w
  BY <1>3, <1>6, AppendFile
<1>8. Len(ran) \in Nat /\ s0 \in Nat
  BY DEF RecTypeOK
<1>9. /\ Executed' = Executed /\ \A s : Begun(s)' <=> Begun(s)
      /\ \A s : Left(s)' = IF s = s0 THEN L - 1 ELSE 0
      /\ \A s : Left(s) = IF s = s0 THEN L ELSE 0
      /\ \A s : ReadsOf(s)' = ReadsOf(s)
  BY <1>1, <1>2 DEF Executed, Begun, Logging, Left, ReadsOf, Code
<1> HIDE DEF w, kd0, L, s0, m
<1>10. kd0 \in {"mr", "r", "i"} /\ (kd0 = "i" <=> L = 1) /\ (kd0 = "r" <=> L = 2)
  BY <1>2 DEF KindBefore, kd0
<1>11. \A k \in 1..Len(file) : Tool(k) =>
         /\ Begun(file[k].serial) /\ file[k].addr = Executed[file[k].serial]
         /\ file[k].form # "torn"
         /\ file[k].form = "broken" => <<file[k].serial, file[k].kind>> \in damaged
         /\ file[k].kind = "i" => file[k].serial # s0
         /\ file[k].serial \in 1..s0
  <2> SUFFICES ASSUME NEW k \in 1..Len(file), Tool(k)
               PROVE  /\ Begun(file[k].serial) /\ file[k].addr = Executed[file[k].serial]
                      /\ file[k].form # "torn"
                      /\ file[k].form = "broken" => <<file[k].serial, file[k].kind>> \in damaged
                      /\ file[k].kind = "i" => file[k].serial # s0
                      /\ file[k].serial \in 1..s0
    OBVIOUS
  <2>1. LineAt(k)
    BY <1>7 DEF FileInv, LineInv
  <2>2. Begun(file[k].serial) /\ file[k].serial \in 1..s0
    BY <2>1, BegunBound DEF LineAt, TraceInv, s0
  <2> QED BY <1>2, <2>1, <2>2 DEF LineAt
<1>12. LineInv'
  <2> SUFFICES ASSUME NEW k \in 1..m, Tool(k)' PROVE LineAt(k)'
    BY <1>7 DEF LineInv
  <2>1. CASE k \in 1..Len(file)
    <3>1. file'[k] = file[k] /\ Tool(k)
      BY <1>7, <2>1 DEF Tool
    <3>2. /\ Begun(file[k].serial) /\ file[k].addr = Executed[file[k].serial]
          /\ file[k].form # "torn"
          /\ file[k].form = "broken" => <<file[k].serial, file[k].kind>> \in damaged'
          /\ file[k].kind = "i" => file[k].serial # s0
      BY <1>3, <1>11, <2>1, <3>1
    <3>3. Begun(file[k].serial)' /\ (file[k].kind = "i" => Left(file[k].serial)' = 0)
      BY <1>7, <1>9, <2>1, <3>1, <3>2
    <3> QED BY <1>9, <3>1, <3>2, <3>3 DEF LineAt
  <2>2. CASE k = m
    <3>1. file'[k] = w /\ form # "glued" /\ w.kind = kd0
      BY <1>5, <1>7, <2>2 DEF Tool
    <3>2. PICK s : s = s0
      OBVIOUS
    <3>3. Begun(s)' /\ pc[M] = Executed'[s] /\ (kd0 = "i" => Left(s)' = 0)
      BY <1>2, <1>9, <1>10, <3>2
    <3>4. file'[k].serial = s /\ file'[k].addr = pc[M] /\ file'[k].form # "torn"
          /\ file'[k].kind = kd0
      BY <1>4, <1>5, <3>1, <3>2
    <3>5. file'[k].form = "broken" => <<s, kd0>> \in damaged'
      BY <1>2, <1>3, <1>5, <3>1, <3>2
    <3> QED BY <3>3, <3>4, <3>5 DEF LineAt
  <2> QED BY <1>7, <2>1, <2>2 DEF m
<1>13. OrderInv'
  <2> SUFFICES ASSUME NEW j \in 1..m, NEW k \in 1..m, j < k, Tool(j)', Tool(k)'
               PROVE  /\ file'[j].serial <= file'[k].serial
                      /\ file'[j].kind = "i" => file'[j].serial < file'[k].serial
    BY <1>7 DEF OrderInv
  <2>1. j \in 1..Len(file) /\ file'[j] = file[j] /\ Tool(j)
    BY <1>7 DEF m, Tool
  <2>2. CASE k \in 1..Len(file)
    <3>1. file'[k] = file[k] /\ Tool(k)
      BY <1>7, <2>2 DEF Tool
    <3> QED BY <1>7, <2>1, <2>2, <3>1 DEF FileInv, OrderInv
  <2>3. CASE k = m
    <3>1. file'[k].serial = s0
      BY <1>5, <1>7, <2>3
    <3>2. file[j].serial \in 1..s0 /\ (file[j].kind = "i" => file[j].serial # s0)
      BY <1>11, <2>1
    <3> QED BY <1>8, <2>1, <3>1, <3>2
  <2> QED BY <1>7, <2>2, <2>3 DEF m
<1>14. \A kd \in {"mr", "r", "i"} : \A s :
         Of(kd, s)' = IF kd = kd0 /\ s = s0 /\ form = "whole" THEN Of(kd, s) \cup {m}
                      ELSE Of(kd, s)
  <2> SUFFICES ASSUME NEW kd \in {"mr", "r", "i"}, NEW s
               PROVE  Of(kd, s)' = IF kd = kd0 /\ s = s0 /\ form = "whole" THEN Of(kd, s) \cup {m}
                                   ELSE Of(kd, s)
    OBVIOUS
  <2>1. 1..m = (1..Len(file)) \cup {m}
    BY <1>7 DEF m
  <2>2. Of(kd, s)' = {k \in 1..m : /\ file'[k].kind = kd /\ file'[k].serial = s
                                   /\ file'[k].form = "whole"}
    BY <1>7 DEF Of
  <2>3. Of(kd, s) = {k \in 1..Len(file) : /\ file[k].kind = kd /\ file[k].serial = s
                                          /\ file[k].form = "whole"}
    BY <1>7 DEF Of
  <2>4. (w.kind = kd /\ w.serial = s /\ w.form = "whole") <=> (kd = kd0 /\ s = s0 /\ form = "whole")
    BY <1>4, <1>5
  <2> QED BY <1>7, <2>1, <2>2, <2>3, <2>4
<1>15. /\ damaged \subseteq damaged'
       /\ form # "whole" => <<s0, kd0>> \in damaged'
  BY <1>2, <1>3
<1>16. ASSUME NEW s \in 1..s0, Begun(s) PROVE GroupAt(s)'
  <2>0. GroupAt(s)
    BY <1>16 DEF FileInv, GroupInFile, s0
  <2>1. CASE s # s0
    <3>1. Left(s)' = Left(s) /\ ReadsOf(s)' = ReadsOf(s)
      BY <1>9, <2>1
    <3>2. Of("mr", s)' = Of("mr", s) /\ Of("r", s)' = Of("r", s) /\ Of("i", s)' = Of("i", s)
      BY <1>14, <2>1
    <3> QED BY <1>15, <2>0, <3>1, <3>2 DEF GroupAt
  <2>2. CASE s = s0
    <3>1. /\ Left(s) = L /\ Left(s)' = L - 1 /\ ReadsOf(s)' = ReadsOf(s)
      BY <1>9, <2>2
    <3>2. <<s, "mr">> \in damaged' \/
            Cardinality(Of("mr", s)') = IF L - 1 > 2 THEN ReadsOf(s) + 2 - (L - 1) ELSE ReadsOf(s)
      <4>1. CASE L > 2
        <5>1. kd0 = "mr"
          BY <1>10, <1>2, <4>1
        <5>2. CASE form # "whole"
          BY <1>15, <2>2, <5>1, <5>2
        <5>3. CASE form = "whole"
          <6>1. Of("mr", s)' = Of("mr", s) \cup {m}
            BY <1>14, <2>2, <5>1, <5>3
          <6>2. IsFiniteSet(Of("mr", s)) /\ m \notin Of("mr", s)
            <7>1. Of("mr", s) \in SUBSET (1..Len(file))
              BY <1>7 DEF Of
            <7>2. IsFiniteSet(1..Len(file))
              BY <1>7, FS_Interval
            <7> QED BY <1>7, <7>1, <7>2, FS_Subset DEF m
          <6>3. Cardinality(Of("mr", s)') = Cardinality(Of("mr", s)) + 1
            BY <6>1, <6>2, FS_AddElement
          <6>4. <<s, "mr">> \in damaged \/ Cardinality(Of("mr", s)) = ReadsOf(s) + 2 - L
            BY <2>0, <3>1, <4>1 DEF GroupAt
          <6> QED BY <1>2, <1>15, <2>2, <4>1, <6>3, <6>4
        <5> QED BY <5>2, <5>3
      <4>2. CASE ~ (L > 2)
        <5>1. kd0 # "mr"
          BY <1>2, <1>10, <4>2
        <5>2. Of("mr", s)' = Of("mr", s)
          BY <1>14, <5>1
        <5>3. <<s, "mr">> \in damaged \/ Cardinality(Of("mr", s)) = ReadsOf(s)
          BY <2>0, <3>1, <4>2 DEF GroupAt
        <5> QED BY <1>2, <1>15, <4>2, <5>2, <5>3
      <4> QED BY <4>1, <4>2
    <3>3. L - 1 < 2 => <<s, "r">> \in damaged' \/ Of("r", s)' # {}
      <4>1. CASE L = 2
        BY <1>10, <1>14, <1>15, <2>2, <4>1
      <4>2. CASE L = 1
        <5>1. <<s, "r">> \in damaged \/ Of("r", s) # {}
          BY <2>0, <3>1, <4>2 DEF GroupAt
        <5> QED BY <1>14, <1>15, <5>1
      <4> QED BY <1>2, <4>1, <4>2
    <3>4. L - 1 = 0 => <<s, "i">> \in damaged' \/ Of("i", s)' # {}
      <4> SUFFICES ASSUME L = 1 PROVE <<s, "i">> \in damaged' \/ Of("i", s)' # {}
        BY <1>2
      <4> QED BY <1>10, <1>14, <1>15, <2>2
    <3> QED BY <3>1, <3>2, <3>3, <3>4 DEF GroupAt
  <2> QED BY <2>1, <2>2
<1>17. GroupInFile'
  BY <1>1, <1>9, <1>16 DEF GroupInFile, s0
<1>18. SerialInv'
  <2>1. Logging(M)' /\ Serial' = Cardinality(OwnPlaces(M)') + 1
        /\ Serial = Cardinality(OwnPlaces(M)) + 1
    BY <1>1, <1>2, SerialNext, SerialIs DEF Logging, TraceInv
  <2>2. CASE todo'[M] = <<>>
    <3>1. Cardinality(OwnPlaces(M)') = Cardinality(OwnPlaces(M)) + 1
      BY <1>1, <2>2, WriteLast DEF TraceInv
    <3>2. Serial' = Len(ran) + 2
      BY <1>2, <1>8, <2>1, <3>1, SerialIs DEF s0, TraceInv
    <3> QED BY <1>1, <2>1, <2>2, <3>2 DEF SerialInv
  <2>3. CASE todo'[M] # <<>>
    <3>1. OwnPlaces(M)' = OwnPlaces(M)
      BY <1>1, <2>3, WritePlaces DEF TraceInv
    <3> QED BY <1>1, <1>2, <2>1, <2>3, <3>1 DEF SerialInv, s0
  <2> QED BY <2>2, <2>3
<1>19. EndInv' /\ GapInv'
  BY <1>1 DEF EndInv, GapInv, FileInv
<1> QED BY <1>12, <1>13, <1>17, <1>18, <1>19 DEF FileInv

\* Nor do a text of its own line and a line that is cut say anything of them.
LEMMA OtherLine ==
  ASSUME TypeOK, RecTypeOK, RecTypeOK', FileInv, UNCHANGED <<vars, damaged, runVars>>,
         phase = "record", NEW l \in FileLine, file' = Append(file, l),
         l.kind = "text" \/ (/\ l.form = "torn" /\ killed' /\ phase' # "record"
                             /\ l.serial = Len(ran) + 1 /\ Begun(Len(ran) + 1)
                             /\ Left(Len(ran) + 1) > 0 /\ l.addr = Executed[Len(ran) + 1]
                             /\ l.kind = "i" => Left(Len(ran) + 1) = 1),
         EndInv'
  PROVE  FileInv'
<1> DEFINE m == Len(file) + 1
           s0 == Len(ran) + 1
<1>1. /\ UNCHANGED <<damaged, ran, log, todo, pc, head, cache, prog>>
  BY DEF vars, pinVars, outVars, runVars
<1>2. /\ Len(file) \in Nat /\ DOMAIN file = 1..Len(file)
      /\ DOMAIN file' = 1..m /\ Len(file') = m
      /\ \A k \in 1..Len(file) : file'[k] = file[k]
      /\ file'[m] = l
  BY AppendFile
<1>3. Len(ran) \in Nat /\ s0 \in Nat
  BY DEF RecTypeOK
<1>4. /\ Executed' = Executed /\ \A s : Begun(s)' <=> Begun(s)
      /\ \A s : Left(s)' = Left(s) /\ ReadsOf(s)' = ReadsOf(s)
  BY <1>1 DEF Executed, Begun, Logging, Left, ReadsOf, Code
<1>5. l.kind = "text" \/ (/\ l.form = "torn" /\ killed' /\ phase' # "record"
                          /\ l.serial = s0 /\ Begun(s0) /\ Left(s0) > 0 /\ l.addr = Executed[s0]
                          /\ l.kind = "i" => Left(s0) = 1)
  OBVIOUS
<1> HIDE DEF m, s0
<1>6. \A k \in 1..Len(file) : Tool(k) =>
         /\ LineAt(k) /\ file[k].form # "torn" /\ file[k].serial \in 1..s0
         /\ Left(s0) > 0 /\ file[k].kind = "i" => file[k].serial # s0
  <2> SUFFICES ASSUME NEW k \in 1..Len(file), Tool(k)
               PROVE  /\ LineAt(k) /\ file[k].form # "torn" /\ file[k].serial \in 1..s0
                      /\ Left(s0) > 0 /\ file[k].kind = "i" => file[k].serial # s0
    OBVIOUS
  <2>1. LineAt(k)
    BY <1>2 DEF FileInv, LineInv
  <2>2. file[k].form # "torn" /\ file[k].serial \in 1..s0
    BY <2>1, BegunBound DEF LineAt, s0
  <2> QED BY <2>1, <2>2 DEF LineAt
<1>7. SerialInv'
  BY <1>1 DEF FileInv, SerialInv, Serial, Logging
<1>8. LineInv'
  <2> SUFFICES ASSUME NEW k \in 1..m, Tool(k)' PROVE LineAt(k)'
    BY <1>2 DEF LineInv
  <2>1. CASE k \in 1..Len(file)
    <3>1. file'[k] = file[k] /\ Tool(k)
      BY <1>2, <2>1 DEF Tool
    <3>2. LineAt(k) /\ file[k].form # "torn"
      BY <1>6, <2>1, <3>1
    <3>3. Begun(file[k].serial)' /\ Left(file[k].serial)' = Left(file[k].serial)
      BY <1>2, <1>4, <2>1, <3>1, <3>2 DEF LineAt
    <3> QED BY <1>1, <1>4, <3>1, <3>2, <3>3 DEF LineAt
  <2>2. CASE k = m
    <3>1. PICK s : s = s0
      OBVIOUS
    <3>2. /\ file'[k].form = "torn" /\ file'[k].serial = s /\ file'[k].addr = Executed'[s]
          /\ killed' /\ phase' # "record" /\ Begun(s)' /\ k = Len(file')
          /\ file'[k].kind = "i" => Left(s)' = 1
      BY <1>2, <1>4, <1>5, <2>2, <3>1 DEF Tool
    <3> QED BY <3>2 DEF LineAt
  <2> QED BY <1>2, <2>1, <2>2 DEF m
<1>9. OrderInv'
  <2> SUFFICES ASSUME NEW j \in 1..m, NEW k \in 1..m, j < k, Tool(j)', Tool(k)'
               PROVE  /\ file'[j].serial <= file'[k].serial
                      /\ file'[j].kind = "i" => file'[j].serial < file'[k].serial
    BY <1>2 DEF OrderInv
  <2>1. j \in 1..Len(file) /\ file'[j] = file[j] /\ Tool(j)
    BY <1>2 DEF m, Tool
  <2>2. CASE k \in 1..Len(file)
    <3>1. file'[k] = file[k] /\ Tool(k)
      BY <1>2, <2>2 DEF Tool
    <3> QED BY <1>2, <2>1, <2>2, <3>1 DEF FileInv, OrderInv
  <2>3. CASE k = m
    <3>1. file'[k].serial = s0 /\ Left(s0) > 0
      BY <1>2, <1>5, <2>3 DEF Tool
    <3>2. file[j].serial \in 1..s0 /\ (file[j].kind = "i" => file[j].serial # s0)
      BY <1>6, <2>1, <3>1
    <3> QED BY <1>3, <2>1, <3>1, <3>2
  <2> QED BY <1>2, <2>2, <2>3 DEF m
<1>10. \A kd \in {"mr", "r", "i"} : \A s : Of(kd, s)' = Of(kd, s)
  <2>1. 1..m = (1..Len(file)) \cup {m}
    BY <1>2 DEF m
  <2>2. l.kind = "text" \/ l.form = "torn"
    BY <1>5
  <2> QED BY <1>2, <2>1, <2>2 DEF Of
<1>11. GroupInFile'
  <2> SUFFICES ASSUME NEW s \in 1..(Len(ran) + 1), Begun(s) PROVE GroupAt(s)'
    BY <1>1, <1>4 DEF GroupInFile
  <2>1. GroupAt(s)
    BY DEF FileInv, GroupInFile
  <2>2. Of("mr", s)' = Of("mr", s) /\ Of("r", s)' = Of("r", s) /\ Of("i", s)' = Of("i", s)
    BY <1>10
  <2> QED BY <1>1, <1>4, <2>1, <2>2 DEF GroupAt
<1>12. GapInv'
  BY DEF FileInv, GapInv, runVars
<1> QED BY <1>7, <1>8, <1>9, <1>11, <1>12 DEF FileInv

LEMMA RecordFile ==
  ASSUME TraceInv, TypeOK', RecTypeOK, RecTypeOK', OpenInv, FileInv, Exact', Record
  PROVE  FileInv'
<1>1. phase = "record" /\ MainThread \in Threads /\ Threads = {MainThread}
  BY OneThread DEF Record
<1>2. CASE RecordLine(MainThread)
  BY <1>1, <1>2, RecordLineFile DEF TraceInv
<1>3. CASE RunTarget(MainThread)
  BY <1>1, <1>3, RunTargetFile
<1>4. CASE RunPin(MainThread)
  BY <1>1, <1>4, RunPinFile
<1>5. CASE Kill(MainThread)
  <2>1. EndInv'
    BY <1>5 DEF Kill, EndInv
  <2>2. UNCHANGED <<vars, damaged, runVars>> /\ killed' /\ phase' # "record"
    BY <1>5 DEF Kill
  <2>3. CASE open[MainThread] = "none"
    BY <1>1, <1>5, <2>1, <2>2, <2>3, SameFile DEF Kill, vars, outVars
  <2>4. CASE open[MainThread] # "none"
    <3> DEFINE l == Written(MainThread, "torn")
    <3>1. todo[MainThread] # <<>> /\ file' = Append(file, l)
      BY <1>5, <2>4 DEF Kill, OpenInv
    <3>2. l \in FileLine
      BY <1>1, <3>1, WrittenType DEF TraceInv
    <3>3. /\ l.form = "torn" /\ l.serial = Len(ran) + 1 /\ l.addr = Executed[Len(ran) + 1]
          /\ Begun(Len(ran) + 1) /\ Left(Len(ran) + 1) > 0
          /\ l.kind = "i" => Left(Len(ran) + 1) = 1
      <4>1. /\ Written(MainThread, "torn") =
                 [kind   |-> IF "torn" = "glued" THEN "text"
                             ELSE KindBefore(Len(todo[MainThread]) - 1),
                  addr   |-> pc[MainThread],
                  serial |-> Len(ran) + 1,
                  form   |-> "torn"]
            /\ Executed[Len(ran) + 1] = pc[MainThread]
            /\ Begun(Len(ran) + 1) /\ Left(Len(ran) + 1) = Len(todo[MainThread])
            /\ Len(todo[MainThread]) > 0 /\ Len(todo[MainThread]) \in Nat
        BY <3>1, NextWritten DEF FileInv
      <4>2. l.form = "torn" /\ l.serial = Len(ran) + 1 /\ l.addr = pc[MainThread]
            /\ l.kind = KindBefore(Len(todo[MainThread]) - 1)
        BY <4>1
      <4>3. KindBefore(Len(todo[MainThread]) - 1) = "i" => Len(todo[MainThread]) = 1
        BY <4>1 DEF KindBefore
      <4> HIDE DEF l
      <4> QED BY <4>1, <4>2, <4>3
    <3> HIDE DEF l
    <3> QED BY <1>1, <2>1, <2>2, <3>1, <3>2, <3>3, OtherLine DEF TraceInv
  <2> QED BY <2>3, <2>4
<1>6. CASE Foreign
  <2>1. TextLine \in FileLine /\ TextLine.kind = "text"
    BY DEF TextLine, FileLine
  <2>2. /\ EndInv' /\ UNCHANGED <<vars, damaged, runVars>> /\ file' = Append(file, TextLine)
    BY <1>1, <1>6 DEF Foreign, EndInv
  <2> QED BY <1>1, <2>1, <2>2, OtherLine DEF TraceInv
<1>7. CASE Exit
  <2>1. EndInv'
    BY <1>1, <1>7 DEF Exit, EndInv, vars, pinVars
  <2> QED BY <1>1, <1>7, <2>1, SameFile DEF Exit, fileVars, vars, outVars
<1> QED BY <1>1, <1>2, <1>3, <1>4, <1>5, <1>6, <1>7 DEF Record

-----------------------------------------------------------------------------
(* The replay.                                                             *)

\* Nothing has been read while it is recorded.
LEMMA RecordReader ==
  ASSUME RecTypeOK, RecTypeOK', ReaderInv, Record
  PROVE  ReaderInv'
<1>1. /\ phase = "record" /\ UNCHANGED readerVars /\ phase' \in {"record", "replay"}
  BY DEF Record, RecordLine, RunTarget, RunPin, Kill, Foreign, Exit
<1>2. /\ at = 1 /\ at' = 1 /\ lost = 0 /\ lost' = 0 /\ reads' = reads /\ replayed' = replayed
  BY <1>1 DEF ReaderInv, ContextInv, readerVars
<1>3. 1..0 = {} /\ 1 - 1 = 0
  OBVIOUS
<1>4. \A kd : Before(kd) = {} /\ Before(kd)' = {}
  BY <1>2, <1>3 DEF Before
<1>5. DOMAIN replayed = {} /\ reads = {}
  BY <1>4 DEF ReaderInv, ContextInv, EntryInv, EntryFits
<1>6. replayed = <<>>
  BY <1>5 DEF RecTypeOK
<1> QED BY <1>1, <1>2, <1>4, <1>5, <1>6 DEF ReaderInv, ContextInv, EntryInv, ReadInv, KeepInv

\* The reader keeps what it has until it reads another line.
LEMMA SameReader ==
  ASSUME ReaderInv, UNCHANGED <<prog, file, damaged, killed, gaps, readerVars>>,
         phase' = "record" => phase = "record", phase' = "end" => at = Len(file) + 1
  PROVE  ReaderInv'
<1>1. UNCHANGED <<at, regs, reads, replayed, lost>>
  BY DEF readerVars
<1>2. /\ \A kd : Before(kd)' = Before(kd)
      /\ \A s : Pending(s)' <=> Pending(s)
  BY <1>1 DEF Before, Pending, Tool
<1>3. \A e, n : EntryFits(e, n)' <=> EntryFits(e, n)
  BY <1>1, <1>2 DEF EntryFits, Code
<1>4. ContextInv'
  BY <1>1, <1>2 DEF ReaderInv, ContextInv
<1>5. EntryInv' /\ ReadInv' /\ KeepInv'
  BY <1>1, <1>2, <1>3 DEF ReaderInv, EntryInv, ReadInv, KeepInv
<1> QED BY <1>1, <1>4, <1>5 DEF ReaderInv

\* One line is read.
LEMMA ReadAt ==
  ASSUME RecTypeOK, NEW kd, Read(kd)
  PROVE  /\ Len(file) \in Nat /\ at \in 1..Len(file) /\ DOMAIN file = 1..Len(file)
         /\ at' = at + 1 /\ file[at].kind = kd /\ file[at].serial \in Nat
         /\ phase = "replay"
         /\ UNCHANGED <<vars, prog, file, damaged, killed, ran, gaps, phase>>
         /\ \A k2 : Before(k2)' = IF k2 = kd THEN Before(k2) \cup {at} ELSE Before(k2)
         /\ \A k2 : Before(k2) \in SUBSET (1..(at - 1))
         /\ \A k2 : \A k \in Before(k2) : k \in 1..Len(file) /\ k < at /\ file[k].kind = k2
         /\ \A s : Pending(s)' => /\ Pending(s)
                                  /\ Tool(at) => file[at].serial <= s
                                  /\ kd = "i" => file[at].serial < s
<1>1. /\ Len(file) \in Nat /\ at \in 1..Len(file) /\ DOMAIN file = 1..Len(file)
      /\ at' = at + 1 /\ file[at].kind = kd /\ phase = "replay"
  BY DEF RecTypeOK, Read, NextLine
<1>2. UNCHANGED <<vars, prog, file, damaged, killed, ran, gaps, phase>>
  BY DEF Read, vars, pinVars, fileVars, runVars
<1>3. 1..(at' - 1) = (1..(at - 1)) \cup {at}
  BY <1>1
<1>4. \A k2 : Before(k2)' = IF k2 = kd THEN Before(k2) \cup {at} ELSE Before(k2)
  BY <1>1, <1>2, <1>3 DEF Before
<1>5. \A k2 : Before(k2) \in SUBSET (1..(at - 1))
  BY DEF Before
<1>6. \A k2 : \A k \in Before(k2) : k \in 1..Len(file) /\ k < at /\ file[k].kind = k2
  BY <1>1 DEF Before
<1>7. file[at].serial \in Nat
  <2>1. file[at] \in FileLine
    BY <1>1 DEF RecTypeOK
  <2> QED BY <2>1 DEF FileLine
<1>8. ASSUME NEW s, Pending(s)'
      PROVE  /\ Pending(s)
             /\ Tool(at) => file[at].serial <= s
             /\ kd = "i" => file[at].serial < s
  <2>1. \A k \in (1..(at - 1)) \cup {at} : Tool(k) =>
          file[k].serial <= s /\ (file[k].kind = "i" => file[k].serial < s)
    BY <1>2, <1>3, <1>8 DEF Pending, Tool
  <2>2. kd = "i" => Tool(at)
    BY <1>1 DEF Tool
  <2> QED BY <1>1, <2>1, <2>2 DEF Pending
<1> QED BY <1>1, <1>2, <1>4, <1>5, <1>6, <1>7, <1>8

\* A line of the tool is read: the lines that were read are of the instructions before,
\* or of the same one, and the whole ones of those before were all read.
LEMMA NextTool ==
  ASSUME RecTypeOK, FileInv, NEW kd \in {"mr", "r", "i"}, Read(kd), NEW s, s = file[at].serial
  PROVE  /\ Pending(s) /\ LineAt(at)
         /\ \A k2 : \A k \in Before(k2) : k2 \in {"mr", "r", "i"} => file[k].form # "torn" /\ LineAt(k)
         /\ \A k2 \in {"mr", "r", "i"} : \A n \in Nat : \A k \in Of(k2, n) :
              n < s \/ (n = s /\ kd = "i" /\ k # at) => k \in Before(k2)
<1>1. /\ Len(file) \in Nat /\ at \in 1..Len(file) /\ DOMAIN file = 1..Len(file)
      /\ file[at].kind = kd /\ s \in Nat
      /\ \A k2 : \A k \in Before(k2) : k \in 1..Len(file) /\ k < at /\ file[k].kind = k2
  BY ReadAt
<1>2. LineAt(at) /\ Tool(at)
  BY <1>1 DEF FileInv, LineInv, Tool
<1>3. Pending(s)
  <2> SUFFICES ASSUME NEW k \in 1..(at - 1), Tool(k)
               PROVE  file[k].serial <= s /\ (file[k].kind = "i" => file[k].serial < s)
    BY DEF Pending
  <2>1. k \in DOMAIN file /\ k < at
    BY <1>1
  <2> QED BY <1>1, <1>2, <2>1 DEF FileInv, OrderInv
<1>4. ASSUME NEW k2, NEW k \in Before(k2), k2 \in {"mr", "r", "i"}
      PROVE  file[k].form # "torn" /\ LineAt(k)
  <2>1. k \in 1..Len(file) /\ k < at /\ Tool(k)
    BY <1>1, <1>4 DEF Tool
  <2>2. LineAt(k)
    BY <1>1, <2>1 DEF FileInv, LineInv
  <2>3. k # Len(file)
    <3>1. at <= Len(file) /\ at \in Nat /\ Len(file) \in Nat /\ k < at
      BY <1>1, <2>1
    <3> QED BY ONLY <3>1
  <2> QED BY <2>2, <2>3 DEF LineAt
<1>5. ASSUME NEW k2 \in {"mr", "r", "i"}, NEW n \in Nat, NEW k \in Of(k2, n),
             n < s \/ (n = s /\ kd = "i" /\ k # at)
      PROVE  k \in Before(k2)
  <2>1. k \in 1..Len(file) /\ file[k].kind = k2 /\ file[k].serial = n /\ Tool(k)
    BY <1>1, <1>5 DEF Of, Tool
  <2>2. k # at
    BY <1>1, <1>5, <2>1
  <2>3. ~ (at < k)
    <3>1. at < k => s <= n /\ (kd = "i" => s < n)
      BY <1>1, <1>2, <2>1 DEF FileInv, OrderInv
    <3> QED BY <1>1, <1>5, <3>1
  <2>4. k \in 1..(at - 1)
    BY <1>1, <2>1, <2>2, <2>3
  <2> QED BY <2>1, <2>4 DEF Before
<1> QED BY <1>2, <1>3, <1>4, <1>5

\* What was read of the lines of a file that is not damaged is the number of entries.
LEMMA NextSerial ==
  ASSUME RecTypeOK, FileInv, ReaderInv, NEW kd \in {"mr", "r", "i"}, Read(kd), damaged = {}
  PROVE  file[at].serial = Len(replayed) + 1
<1> DEFINE N == Len(replayed)
           s == file[at].serial
<1>1. /\ N \in Nat /\ DOMAIN replayed = 1..N /\ Len(ran) \in Nat /\ s \in Nat
      /\ at \in 1..Len(file)
  BY ReadAt DEF RecTypeOK
<1>2. /\ Pending(s) /\ LineAt(at)
      /\ \A k2 \in {"mr", "r", "i"} : \A n \in Nat : \A k \in Of(k2, n) :
           n < s \/ (n = s /\ kd = "i" /\ k # at) => k \in Before(k2)
  BY NextTool
<1>3. s \in 1..(Len(ran) + 1)
  BY <1>1, <1>2 DEF LineAt, Begun
<1> HIDE DEF s, N
<1>4. \A n \in 1..N : replayed[n].serial = n
  BY <1>1 DEF ReaderInv, EntryInv, EntryFits
<1>5. \A k \in Before("i") : file[k].serial < s
  BY <1>2 DEF Pending, Before, Tool
<1>6. ASSUME s <= N PROVE FALSE
  <2>1. s \in 1..N
    BY <1>1, <1>3, <1>6
  <2>2. PICK k \in Before("i") : file[k].serial = replayed[s].serial
    BY <1>1, <2>1 DEF ReaderInv, EntryInv, EntryFits
  <2>3. file[k].serial = s /\ file[k].serial < s
    BY <1>4, <1>5, <2>1, <2>2
  <2> QED BY <1>1, <2>3
<1>7. ASSUME N + 1 < s PROVE FALSE
  <2>1. N + 1 \in Nat /\ N + 1 \in 1..Len(ran) /\ N + 1 \in 1..(Len(ran) + 1)
    BY <1>1, <1>3, <1>7
  <2>2. Begun(N + 1) /\ Left(N + 1) = 0
    BY <1>1, <2>1 DEF Begun, Left
  <2>3. PICK k : k \in Of("i", N + 1)
    BY <2>1, <2>2 DEF FileInv, GroupInFile, GroupAt
  <2>4. k \in Before("i") /\ file[k].serial = N + 1 /\ file[k].form = "whole"
    BY <1>2, <1>7, <2>1, <2>3 DEF Of
  <2>5. PICK n \in 1..N : replayed[n].serial = N + 1
    BY <1>1, <2>4 DEF ReaderInv, ReadInv
  <2> QED BY <1>1, <1>4, <2>5
<1> QED BY <1>1, <1>3, <1>6, <1>7 DEF s, N

\* Of a file that is not damaged, what was read right to here has been right.
LEMMA ReadRight ==
  ASSUME RecTypeOK, ReaderInv, at \in DOMAIN file, damaged = {}
  PROVE  \A n \in DOMAIN replayed : InStep(replayed[n], n)
<1> SUFFICES ASSUME NEW n \in DOMAIN replayed PROVE InStep(replayed[n], n)
  OBVIOUS
<1>1. at # Len(file) + 1
  BY DEF RecTypeOK
<1>2. EntryFits(replayed[n], n) /\ replayed[n].addr # 0
  BY <1>1 DEF ReaderInv, EntryInv
<1> QED BY <1>2 DEF EntryFits, InStep

\* The entries there are keep what they stand for.
LEMMA EntriesKept ==
  ASSUME RecTypeOK, ReaderInv, NEW kd, Read(kd)
  PROVE  \A n \in DOMAIN replayed :
           /\ damaged = {} => replayed[n].addr # 0
           /\ \A e : e = replayed[n] => EntryFits(e, n)'
<1> SUFFICES ASSUME NEW n \in DOMAIN replayed
             PROVE  /\ damaged = {} => replayed[n].addr # 0
                    /\ \A e : e = replayed[n] => EntryFits(e, n)'
  OBVIOUS
<1>1. /\ EntryFits(replayed[n], n)
      /\ replayed[n].addr = 0 /\ damaged = {} => at = Len(file) + 1
  BY DEF ReaderInv, EntryInv
<1>2. /\ Len(file) \in Nat /\ at \in 1..Len(file) /\ Code' = Code
      /\ UNCHANGED <<file, damaged>>
      /\ Before("i") \subseteq Before("i")'
  BY ReadAt DEF Code
<1>3. damaged = {} => replayed[n].addr # 0
  BY <1>1, <1>2
<1>4. ASSUME NEW e, e = replayed[n] PROVE EntryFits(e, n)'
  BY <1>1, <1>2, <1>4 DEF EntryFits
<1> QED BY <1>3, <1>4

\* Reading a line that is not an instruction keeps the entries, and what was read of them.
LEMMA NoEntry ==
  ASSUME RecTypeOK, ReaderInv, NEW kd, Read(kd), kd # "i", replayed' = replayed
  PROVE  EntryInv' /\ ReadInv'
<1>1. /\ damaged' = damaged
      /\ \A n \in DOMAIN replayed :
           (damaged = {} => replayed[n].addr # 0) /\ EntryFits(replayed[n], n)'
  BY EntriesKept, ReadAt
<1>2. \A n \in DOMAIN replayed' :
        (damaged' = {} => replayed'[n].addr # 0) /\ EntryFits(replayed[n], n)'
  BY <1>1
<1>3. EntryInv'
  BY <1>2 DEF EntryInv
<1>4. Before("i")' = Before("i") /\ file' = file
  BY ReadAt
<1>5. ReadInv'
  BY <1>4 DEF ReaderInv, ReadInv
<1> QED BY <1>3, <1>5

\* A line that is misread was broken by a text, or is the last one.
LEMMA Misread ==
  ASSUME RecTypeOK, FileInv, NEW kd \in {"mr", "r", "i"}, Read(kd), FALSE \in Readings
  PROVE  \/ <<file[at].serial, kd>> \in damaged
         \/ /\ file[at].form = "torn" /\ at' \notin DOMAIN file
            /\ at' = Len(file) + 1 /\ killed
<1>1. /\ at \in 1..Len(file) /\ at' = at + 1 /\ DOMAIN file = 1..Len(file) /\ Len(file) \in Nat
      /\ file[at].kind = kd
  BY ReadAt
<1>2. file[at].form \in {"broken", "torn"}
  <2>1. file[at].form \notin {"whole", "line"}
    BY DEF Readings
  <2>2. file[at] \in FileLine
    BY <1>1 DEF RecTypeOK
  <2> QED BY <1>1, <2>1, <2>2 DEF FileLine
<1>3. LineAt(at)
  BY NextTool
<1>4. CASE file[at].form = "broken"
  BY <1>1, <1>3, <1>4 DEF LineAt
<1>5. CASE file[at].form = "torn"
  <2>1. at = Len(file) /\ killed
    BY <1>3, <1>5 DEF LineAt
  <2>2. at' = Len(file) + 1 /\ at' \notin DOMAIN file
    BY <1>1, <2>1
  <2> QED BY <1>5, <2>1, <2>2
<1> QED BY <1>2, <1>4, <1>5

\* The operands of the lines since the last instruction.
LEMMA ReadMemoryReader ==
  ASSUME RecTypeOK, FileInv, ReaderInv, ReadMemory
  PROVE  ReaderInv'
<1> DEFINE n == file[at].serial
<1>1. /\ Read("mr") /\ regs' = regs /\ replayed' = replayed /\ lost' = lost
  BY DEF ReadMemory
<1>2. PICK right \in Readings :
        IF right THEN reads' = reads \cup {at} ELSE reads' \in SUBSET reads
  BY DEF ReadMemory
<1>3. /\ at \in 1..Len(file) /\ phase' = "replay" /\ UNCHANGED <<file, damaged, gaps>>
      /\ DOMAIN file = 1..Len(file) /\ at' = at + 1 /\ Len(file) \in Nat /\ n \in Nat
      /\ Before("mr")' = Before("mr") \cup {at} /\ Before("r")' = Before("r")
      /\ \A k \in Before("mr") : k < at /\ file[k].kind = "mr"
      /\ \A s : Pending(s)' => Pending(s) /\ (Tool(at) => n <= s)
      /\ Tool(at)
  BY <1>1, ReadAt DEF Tool
<1>4. Pending(n)
  BY <1>1, NextTool
<1>5. \A k \in Before("mr") : file[k].serial <= n
  BY <1>3, <1>4 DEF Pending, Before, Tool
<1>6. right \/ <<n, "mr">> \in damaged \/ at' \notin DOMAIN file
  <2>1. right \in BOOLEAN
    BY <1>2 DEF Readings
  <2> QED BY <1>1, <1>2, <2>1, Misread
<1>7. reads \subseteq Before("mr")
  BY DEF ReaderInv, ContextInv
<1> HIDE DEF n
<1>8. reads' \subseteq Before("mr")'
  BY <1>2, <1>3, <1>7
<1>9. ASSUME at' \in DOMAIN file, NEW s \in Nat, Pending(s)'
      PROVE  /\ <<s, "r">> \in damaged \/ \A k \in Before("r") : file[k].serial = s => regs = s
             /\ <<s, "mr">> \in damaged \/
                  \A k \in Before("mr") \cup {at} : file[k].serial = s => k \in reads'
  <2>1. Pending(s) /\ n <= s /\ at \in DOMAIN file
    BY <1>3, <1>9
  <2>2. /\ <<s, "r">> \in damaged \/ \A k \in Before("r") : file[k].serial = s => regs = s
        /\ <<s, "mr">> \in damaged \/ \A k \in Before("mr") : file[k].serial = s => k \in reads
    BY <2>1 DEF ReaderInv, ContextInv
  <2>3. CASE right
    BY <1>2, <2>2, <2>3
  <2>4. CASE ~right
    <3>1. <<n, "mr">> \in damaged
      BY <1>6, <1>9, <2>4
    <3>2. s # n => \A k \in Before("mr") \cup {at} : file[k].serial # s
      BY <1>3, <1>5, <2>1 DEF n
    <3> QED BY <2>2, <3>1, <3>2
  <2> QED BY <2>3, <2>4
<1>10. ContextInv'
  BY <1>1, <1>3, <1>8, <1>9 DEF ReaderInv, ContextInv
<1>11. KeepInv'
  BY <1>1, <1>3 DEF ReaderInv, KeepInv
<1> QED BY <1>1, <1>3, <1>10, <1>11, NoEntry DEF ReaderInv

\* The registers of an instruction come after those of the ones before it.
LEMMA ReadRegistersReader ==
  ASSUME RecTypeOK, FileInv, ReaderInv, ReadRegisters
  PROVE  ReaderInv'
<1> DEFINE n == file[at].serial
           N == Len(replayed)
<1>1. Read("r") /\ reads' = reads /\ replayed' = replayed
  BY DEF ReadRegisters
<1>2. PICK right \in Readings :
        /\ regs' = IF right THEN n ELSE 0
        /\ lost' \in IF right /\ regs # n /\ replayed # <<>> /\ lost = 0 THEN {0, n} ELSE {lost}
  BY DEF ReadRegisters
<1>3. /\ at \in 1..Len(file) /\ phase' = "replay" /\ UNCHANGED <<file, damaged, gaps>>
      /\ DOMAIN file = 1..Len(file) /\ n \in Nat
      /\ Before("r")' = Before("r") \cup {at} /\ Before("mr")' = Before("mr")
      /\ \A k \in Before("r") : k < at /\ file[k].kind = "r"
      /\ \A s : Pending(s)' => Pending(s) /\ (Tool(at) => n <= s)
      /\ Tool(at)
  BY <1>1, ReadAt DEF Tool
<1>4. Pending(n)
  BY <1>1, NextTool
<1>5. \A k \in Before("r") : file[k].serial <= n
  BY <1>3, <1>4 DEF Pending, Before, Tool
<1>6. right \/ <<n, "r">> \in damaged \/ at' \notin DOMAIN file
  <2>1. right \in BOOLEAN
    BY <1>2 DEF Readings
  <2> QED BY <1>1, <1>2, <2>1, Misread
<1>7. damaged = {} => n = N + 1
  BY <1>1, NextSerial
<1> HIDE DEF n, N
<1>8. reads' \subseteq Before("mr")'
  BY <1>1, <1>3 DEF ReaderInv, ContextInv
<1>9. ASSUME at' \in DOMAIN file, NEW s \in Nat, Pending(s)'
      PROVE  /\ <<s, "r">> \in damaged \/
                  \A k \in Before("r") \cup {at} : file[k].serial = s => regs' = s
             /\ <<s, "mr">> \in damaged \/ \A k \in Before("mr") : file[k].serial = s => k \in reads
  <2>1. Pending(s) /\ n <= s /\ at \in DOMAIN file
    BY <1>3, <1>9
  <2>2. <<s, "mr">> \in damaged \/ \A k \in Before("mr") : file[k].serial = s => k \in reads
    BY <2>1 DEF ReaderInv, ContextInv
  <2>3. s # n => \A k \in Before("r") \cup {at} : file[k].serial # s
    BY <1>3, <1>5, <2>1 DEF n
  <2>4. CASE right
    BY <1>2, <2>2, <2>3, <2>4
  <2>5. CASE ~right
    <3>1. <<n, "r">> \in damaged
      BY <1>6, <1>9, <2>5
    <3> QED BY <2>2, <2>3, <3>1
  <2> QED BY <2>4, <2>5
<1>10. ContextInv'
  BY <1>1, <1>3, <1>8, <1>9 DEF ReaderInv, ContextInv
<1>11. ASSUME damaged = {}, at' \in DOMAIN file PROVE regs' = N + 1
  BY <1>2, <1>6, <1>7, <1>11
<1>12. ASSUME damaged = {}, lost' # 0 PROVE lost' \in gaps
  <2>1. CASE right /\ regs # n /\ replayed # <<>> /\ lost = 0
    <3>1. at \in DOMAIN file /\ N + 1 = n
      BY <1>3, <1>7, <1>12
    <3>2. n \in gaps
      BY <1>12, <2>1, <3>1 DEF ReaderInv, KeepInv, N
    <3> QED BY <1>2, <1>12, <2>1, <3>2
  <2>2. CASE ~ (right /\ regs # n /\ replayed # <<>> /\ lost = 0)
    <3>1. lost' = lost
      BY <1>2, <2>2
    <3> QED BY <1>12, <3>1 DEF ReaderInv, KeepInv
  <2> QED BY <2>1, <2>2
<1>13. KeepInv'
  BY <1>1, <1>3, <1>11, <1>12 DEF KeepInv, N
<1> QED BY <1>1, <1>3, <1>10, <1>13, NoEntry DEF ReaderInv

LEMMA ReadOtherReader ==
  ASSUME RecTypeOK, ReaderInv, ReadOther
  PROVE  ReaderInv'
<1>1. Read("text") /\ UNCHANGED <<regs, reads, replayed, lost>>
  BY DEF ReadOther
<1>2. /\ phase' = "replay" /\ UNCHANGED <<file, damaged, gaps>> /\ at \in DOMAIN file
      /\ Before("mr")' = Before("mr") /\ Before("r")' = Before("r")
      /\ \A s : Pending(s)' => Pending(s)
  BY <1>1, ReadAt
<1>3. ContextInv'
  BY <1>1, <1>2 DEF ReaderInv, ContextInv
<1>4. KeepInv'
  BY <1>1, <1>2 DEF ReaderInv, KeepInv
<1> QED BY <1>1, <1>2, <1>3, <1>4, NoEntry DEF ReaderInv

\* What an `i` line is replayed with, if no line of its instruction is damaged.
LEMMA OwnContext ==
  ASSUME TypeOK, RecTypeOK, FileInv, ReaderInv, Read("i"), NEW s, s = file[at].serial
  PROVE  /\ file[at].addr # 0
         /\ regs = s \/ <<s, "r">> \in damaged
         /\ Cardinality({j \in reads : file[j].serial = s}) = Code[file[at].addr].reads
              \/ <<s, "mr">> \in damaged
<1>1. /\ at \in 1..Len(file) /\ DOMAIN file = 1..Len(file) /\ Len(file) \in Nat
      /\ file[at].kind = "i" /\ s \in Nat
      /\ \A k2 : \A k \in Before(k2) : k \in 1..Len(file) /\ k < at /\ file[k].kind = k2
  BY ReadAt
<1>2. /\ Pending(s) /\ LineAt(at)
      /\ \A k \in Before("mr") : file[k].form # "torn" /\ LineAt(k)
      /\ \A k2 \in {"mr", "r"} : \A k \in Of(k2, s) : k \in Before(k2)
  <2>1. \A k2 \in {"mr", "r"} : \A k \in Of(k2, s) : k # at
    BY <1>1 DEF Of
  <2> QED BY <1>1, <2>1, NextTool
<1>3. /\ s \in 1..(Len(ran) + 1) /\ Begun(s) /\ file[at].addr = Executed[s] /\ Left(s) \in {0, 1}
  BY <1>1, <1>2, BegunBound DEF LineAt
<1>4. GroupAt(s)
  BY <1>3 DEF FileInv, GroupInFile
<1>5. file[at].addr # 0
  <2>1. CASE s \in 1..Len(ran)
    <3>1. Executed[s] = ran[s] /\ ran[s] \in Addr
      BY <2>1, ExecutedIs DEF RecTypeOK
    <3> QED BY <1>3, <3>1, AddrType
  <2>2. CASE s = Len(ran) + 1 /\ Logging(MainThread)
    <3>1. Executed[s] = pc[MainThread]
      BY <2>2, ExecutedIs
    <3>2. pc[MainThread] \in Addr
      BY <2>2 DEF Logging, TypeOK, TraceAt, RecTypeOK
    <3> QED BY <1>3, <3>1, <3>2, AddrType
  <2> QED BY <1>3, <2>1, <2>2 DEF Begun
<1>6. /\ <<s, "r">> \in damaged \/ \A k \in Before("r") : file[k].serial = s => regs = s
      /\ <<s, "mr">> \in damaged \/ \A k \in Before("mr") : file[k].serial = s => k \in reads
      /\ reads \subseteq Before("mr")
  BY <1>1, <1>2 DEF ReaderInv, ContextInv
<1>7. regs = s \/ <<s, "r">> \in damaged
  <2>1. <<s, "r">> \in damaged \/ Of("r", s) # {}
    BY <1>3, <1>4 DEF GroupAt
  <2>2. \A k \in Of("r", s) : k \in Before("r") /\ file[k].serial = s
    BY <1>2 DEF Of
  <2> QED BY <1>6, <2>1, <2>2
<1>8. ASSUME <<s, "mr">> \notin damaged
      PROVE  Cardinality({j \in reads : file[j].serial = s}) = Code[file[at].addr].reads
  <2>1. Cardinality(Of("mr", s)) = ReadsOf(s)
    BY <1>3, <1>4, <1>8 DEF GroupAt
  <2>2. ASSUME NEW j \in reads, file[j].serial = s PROVE j \in Of("mr", s)
    <3>1. j \in 1..Len(file) /\ file[j].kind = "mr" /\ file[j].form # "torn" /\ LineAt(j)
      BY <1>1, <1>2, <1>6, <2>2
    <3>2. file[j].form # "broken"
      BY <1>8, <2>2, <3>1 DEF LineAt
    <3>3. file[j].form = "whole"
      <4>1. file[j] \in FileLine
        BY <1>1, <3>1 DEF RecTypeOK
      <4> QED BY <3>1, <3>2, <4>1 DEF FileLine
    <3> QED BY <1>1, <2>2, <3>1, <3>3 DEF Of
  <2>3. \A j \in Of("mr", s) : j \in reads /\ file[j].serial = s
    BY <1>2, <1>6, <1>8 DEF Of
  <2>4. {j \in reads : file[j].serial = s} = Of("mr", s)
    BY <2>2, <2>3
  <2> QED BY <1>3, <2>1, <2>4 DEF ReadsOf
<1> QED BY <1>5, <1>7, <1>8

\* An instruction is replayed with the registers and the operands it had, and after
\* all of those before it.
LEMMA ReadInstructionReader ==
  ASSUME TypeOK, RecTypeOK, RecTypeOK', FileInv, ReaderInv, ReadInstruction
  PROVE  ReaderInv'
<1> DEFINE s == file[at].serial
           N == Len(replayed)
           c == Cardinality({j \in reads : file[j].serial = s})
           e(right) == [addr |-> IF right THEN file[at].addr ELSE 0, serial |-> s,
                        regs |-> regs, reads |-> c]
<1>1. Read("i") /\ reads' = {} /\ lost' = lost /\ regs' = Processed(replayed')
  BY DEF ReadInstruction
<1>2. PICK right \in Readings : replayed' = Append(replayed, e(right))
  BY DEF ReadInstruction
<1>3. /\ Len(file) \in Nat /\ at \in 1..Len(file) /\ DOMAIN file = 1..Len(file)
      /\ at' = at + 1 /\ file[at].kind = "i" /\ phase' = "replay" /\ s \in Nat
      /\ UNCHANGED <<file, damaged, killed, prog, gaps>>
      /\ Before("i")' = Before("i") \cup {at}
      /\ Before("r")' = Before("r") /\ Before("mr")' = Before("mr")
      /\ \A n : Pending(n)' => Pending(n) /\ s < n
  BY <1>1, ReadAt
<1>4. /\ file[at].addr # 0
      /\ regs = s \/ <<s, "r">> \in damaged
      /\ c = Code[file[at].addr].reads \/ <<s, "mr">> \in damaged
  BY <1>1, OwnContext
<1>5. damaged = {} => s = N + 1
  BY <1>1, NextSerial
<1>6. Pending(s)
  BY <1>1, NextTool
<1>7. /\ right \in BOOLEAN
      /\ right \/ <<s, "i">> \in damaged \/
           (file[at].form = "torn" /\ at' = Len(file) + 1 /\ at' \notin DOMAIN file /\ killed)
      /\ right \/ file[at].form # "whole"
  <2>1. right \in BOOLEAN /\ (right \/ file[at].form # "whole")
    BY <1>2 DEF Readings
  <2> QED BY <1>1, <1>2, <2>1, Misread
<1> DEFINE x == e(right)
<1>8. /\ x.addr = (IF right THEN file[at].addr ELSE 0) /\ x.serial = s /\ x.regs = regs
      /\ x.reads = c
  OBVIOUS
<1>9. replayed' = Append(replayed, x)
  BY <1>2
<1> HIDE DEF x, e
<1>10. /\ N \in Nat /\ DOMAIN replayed = 1..N /\ DOMAIN replayed' = 1..(N + 1)
       /\ Len(replayed') = N + 1 /\ replayed'[N + 1] = x
       /\ \A n \in 1..N : replayed'[n] = replayed[n]
  BY <1>9 DEF RecTypeOK
<1> HIDE DEF s, N, c
<1>11. \A y, n : y = x /\ n = N + 1 => EntryFits(y, n)'
  <2> SUFFICES ASSUME NEW y, NEW n, y = x, n = N + 1 PROVE EntryFits(y, n)'
    OBVIOUS
  <2>1. Code' = Code /\ at \in Before("i")' /\ UNCHANGED <<file, damaged>>
    BY <1>3 DEF Code
  <2>2. file[at].serial = y.serial
    BY <1>8 DEF s
  <2>3. damaged = {} => y.serial = n
    BY <1>5, <1>8
  <2>4. CASE right
    <3>1. /\ y.addr = file[at].addr
          /\ y.regs = y.serial \/ <<y.serial, "r">> \in damaged
          /\ y.reads = Code[y.addr].reads \/ <<y.serial, "mr">> \in damaged
      BY <1>4, <1>8, <2>4
    <3> QED BY <2>1, <2>2, <2>3, <3>1 DEF EntryFits
  <2>5. CASE ~right
    <3>1. y.addr = 0 /\ file[at].form # "whole"
      BY <1>7, <1>8, <2>5
    <3> QED BY <2>1, <2>2, <2>3, <3>1 DEF EntryFits
  <2> QED BY <2>4, <2>5
<1>12. EntryInv'
  <2> SUFFICES ASSUME NEW n \in 1..(N + 1)
               PROVE  /\ \A y : y = replayed'[n] => EntryFits(y, n)'
                      /\ replayed'[n].addr = 0 /\ damaged' = {} =>
                           n = Len(replayed') /\ at' = Len(file') + 1 /\ killed'
    BY <1>10 DEF EntryInv
  <2>1. CASE n \in 1..N
    <3>1. replayed'[n] = replayed[n] /\ n \in DOMAIN replayed
      BY <1>10, <2>1
    <3>2. /\ damaged = {} => replayed[n].addr # 0
          /\ \A y : y = replayed[n] => EntryFits(y, n)'
      BY <1>1, <3>1, EntriesKept
    <3> QED BY <1>3, <3>1, <3>2
  <2>2. CASE n = N + 1
    <3>1. damaged = {} /\ x.addr = 0 => at' = Len(file) + 1 /\ killed
      BY <1>4, <1>7, <1>8
    <3> QED BY <1>3, <1>10, <1>11, <2>2, <3>1
  <2> QED BY <1>10, <2>1, <2>2
<1>13. ReadInv'
  <2> SUFFICES ASSUME NEW k \in Before("i") \cup {at}, file[k].form = "whole"
               PROVE  \E n \in 1..(N + 1) : /\ replayed'[n].serial = file[k].serial
                                            /\ replayed'[n].addr = file[k].addr
    BY <1>3, <1>10 DEF ReadInv
  <2>1. CASE k \in Before("i")
    <3>1. PICK n \in 1..N : replayed[n].serial = file[k].serial /\ replayed[n].addr = file[k].addr
      BY <1>10, <2>1 DEF ReaderInv, ReadInv
    <3> QED BY <1>10, <3>1
  <2>2. CASE k = at
    <3>1. replayed'[N + 1].serial = file[k].serial /\ replayed'[N + 1].addr = file[k].addr
      BY <1>7, <1>8, <1>10, <2>2 DEF s
    <3> QED BY <1>10, <3>1
  <2> QED BY <2>1, <2>2
<1>14. ContextInv'
  <2>1. \A n : Pending(n)' => \A kd \in {"mr", "r"} : \A k \in Before(kd) : file[k].serial # n
    <3> SUFFICES ASSUME NEW n, Pending(n)', NEW kd \in {"mr", "r"}, NEW k \in Before(kd)
                 PROVE  file[k].serial # n
      OBVIOUS
    <3>1. k \in 1..(at - 1) /\ Tool(k) /\ k \in 1..Len(file)
      BY <1>3 DEF Before, Tool
    <3>2. file[k].serial <= s /\ s < n
      BY <1>3, <1>6, <3>1 DEF Pending
    <3>3. file[k].serial \in Nat
      <4>1. file[k] \in FileLine
        BY <1>3, <3>1 DEF RecTypeOK
      <4> QED BY <4>1 DEF FileLine
    <3> SUFFICES ASSUME file[k].serial = n PROVE FALSE
      OBVIOUS
    <3> QED BY <1>3, <3>2, <3>3
  <2> QED BY <1>1, <1>3, <2>1 DEF ContextInv
<1>15. ASSUME damaged = {}, at' \in DOMAIN file, N + 2 \notin gaps PROVE regs' = N + 2
  <2>1. right
    BY <1>7, <1>15
  <2>2. at \in DOMAIN file /\ s = N + 1
    BY <1>3, <1>5, <1>15
  <2>3. \A n \in 1..N : InStep(replayed[n], n)
    BY <1>10, <1>15, <2>2, ReadRight
  <2>4. InStep(x, N + 1)
    BY <1>4, <1>8, <1>15, <2>1, <2>2 DEF InStep
  <2>5. \A n \in 1..(N + 1) : InStep(replayed'[n], n)
    <3> SUFFICES ASSUME NEW n \in 1..(N + 1) PROVE InStep(replayed'[n], n)
      OBVIOUS
    <3>1. n \in 1..N \/ n = N + 1
      BY <1>10
    <3> QED BY <1>10, <2>3, <2>4, <3>1
  <2>6. (N + 1) + 1 = N + 2
    BY <1>10
  <2> QED BY <1>1, <1>10, <1>15, <2>5, <2>6 DEF Processed
<1>16. KeepInv'
  <2>1. Len(replayed') + 1 = N + 2
    BY <1>10
  <2>2. damaged = {} /\ lost # 0 => lost \in gaps
    BY DEF ReaderInv, KeepInv
  <2> QED BY <1>1, <1>3, <1>15, <2>1, <2>2 DEF KeepInv
<1> QED BY <1>3, <1>12, <1>13, <1>14, <1>16 DEF ReaderInv

-----------------------------------------------------------------------------
(* The invariant.                                                          *)

LEMMA InitFile == RecInit => OpenInv /\ FileInv /\ ReaderInv
<1> SUFFICES ASSUME RecInit PROVE OpenInv /\ FileInv /\ ReaderInv
  OBVIOUS
<1>1. /\ file = <<>> /\ ran = <<>> /\ log = <<>> /\ replayed = <<>> /\ phase = "record"
      /\ at = 1 /\ lost = 0 /\ reads = {} /\ gaps = {} /\ head[MainThread] = 0
      /\ open[MainThread] = "none"
  BY OneThread DEF RecInit, Init
<1>2. ~Logging(MainThread) /\ 1..0 = {} /\ 1 - 1 = 0 /\ Len(ran) = 0
  BY <1>1 DEF Logging
<1>3. Serial = 1
  <2>1. {k \in DOMAIN log : log[k].kind = "i"} = {}
    BY <1>1
  <2> QED BY <2>1, FS_EmptySet DEF Serial
<1>4. SerialInv
  BY <1>2, <1>3 DEF SerialInv
<1>5. \A s \in 1..(Len(ran) + 1) : ~Begun(s)
  BY <1>2 DEF Begun
<1>6. FileInv
  BY <1>1, <1>4, <1>5 DEF FileInv, LineInv, OrderInv, GroupInFile, EndInv, GapInv
<1>7. \A kd : Before(kd) = {}
  BY <1>1, <1>2 DEF Before
<1>8. ReaderInv
  BY <1>1, <1>7 DEF ReaderInv, ContextInv, EntryInv, ReadInv, KeepInv
<1> QED BY <1>1, <1>6, <1>8 DEF OpenInv

LEMMA ReplayInv ==
  ASSUME TypeOK, RecTypeOK, RecTypeOK', FileInv, ReaderInv, Replay
  PROVE  FileInv' /\ ReaderInv'
<1>1. /\ phase = "replay" /\ phase' # "record"
      /\ UNCHANGED <<vars, file, damaged, runVars, gaps, killed>> /\ pc' = pc /\ prog' = prog
      /\ UNCHANGED <<pinVars, todo, log>>
  BY DEF Replay, ReadMemory, ReadRegisters, ReadInstruction, ReadOther, ReadRaises, ReadEnd,
         Read, fileVars, runVars, vars, pinVars, outVars
<1>2. FileInv'
  <2>1. EndInv'
    BY <1>1 DEF FileInv, EndInv
  <2> QED BY <1>1, <2>1, SameFile
<1>3. CASE ReadMemory
  BY <1>2, <1>3, ReadMemoryReader
<1>4. CASE ReadRegisters
  BY <1>2, <1>4, ReadRegistersReader
<1>5. CASE ReadInstruction
  BY <1>2, <1>5, ReadInstructionReader
<1>6. CASE ReadOther
  BY <1>2, <1>6, ReadOtherReader
<1>7. CASE ReadRaises \/ ReadEnd
  <2>1. UNCHANGED readerVars /\ (phase' = "end" => at = Len(file) + 1)
    BY <1>7 DEF ReadRaises, ReadEnd, RecTypeOK
  <2> QED BY <1>1, <1>2, <2>1, SameReader
<1> QED BY <1>2, <1>3, <1>4, <1>5, <1>6, <1>7 DEF Replay

LEMMA RecStep ==
  ASSUME RecInv, TraceInv', [RecNext]_allVars
  PROVE  RecInv'
<1>1. TypeOK /\ TypeOK' /\ RecTypeOK /\ TraceInv /\ OpenInv
  BY DEF RecInv, TraceInv
<1>2. (Exact' => Exact) /\ OpenInv'
  BY <1>1, RecordIsTrace, ExactBefore, OpenStep
<1>3. CASE Record
  <2>1. RecTypeOK'
    BY <1>1, <1>3, RecordTypes
  <2>2. ASSUME Exact' PROVE FileInv' /\ ReaderInv'
    BY <1>1, <1>2, <1>3, <2>1, <2>2, RecordFile, RecordReader DEF RecInv
  <2> QED BY <1>2, <2>1, <2>2 DEF RecInv
<1>4. CASE Replay
  <2>1. RecTypeOK'
    BY <1>1, <1>4, ReplayTypes
  <2>2. ASSUME Exact' PROVE FileInv' /\ ReaderInv'
    BY <1>1, <1>2, <1>4, <2>1, <2>2, ReplayInv DEF RecInv
  <2> QED BY <1>2, <2>1, <2>2 DEF RecInv
<1>5. CASE UNCHANGED allVars
  <2>1. /\ UNCHANGED <<vars, file, damaged, runVars, gaps, ran, killed, phase, readerVars>>
        /\ UNCHANGED <<at, regs, reads, replayed, lost>> /\ pc' = pc /\ prog' = prog
        /\ UNCHANGED <<pinVars, todo, log>>
    BY <1>5 DEF allVars, fileVars, readerVars, runVars, vars, pinVars, outVars
  <2>2. RecTypeOK'
    BY <1>1, <2>1 DEF RecTypeOK, Addr, Code
  <2>3. ASSUME Exact' PROVE FileInv' /\ ReaderInv'
    <3>1. FileInv /\ ReaderInv
      BY <1>2, <2>3 DEF RecInv
    <3>2. EndInv'
      BY <2>1, <3>1 DEF FileInv, EndInv
    <3>3. FileInv'
      BY <2>1, <3>1, <3>2, SameFile
    <3>4. ReaderInv'
      BY <2>1, <3>1, SameReader DEF ReaderInv
    <3> QED BY <3>3, <3>4
  <2> QED BY <1>2, <2>2, <2>3 DEF RecInv
<1> QED BY <1>3, <1>4, <1>5 DEF RecNext, RecDone

\* What the file and the context of the reader hold, in every state of a recording
\* and of its replay, of every program of one thread.
THEOREM RecordingInvariant == RecSpec => []RecInv
<1>1. RecInit /\ TraceInv => RecInv
  BY InitRecType, InitFile DEF RecInv
<1>2. RecInv /\ TraceInv' /\ [RecNext]_allVars => RecInv'
  BY RecStep
<1> QED BY <1>1, <1>2, RecordingIsTrace, TraceInvariant, PTL DEF RecSpec

-----------------------------------------------------------------------------
(* What the replay makes of the recording.                                 *)

\* The instruction that an entry stands for.
LEMMA EntryStands ==
  ASSUME RecInv, Exact, NEW n \in DOMAIN replayed
  PROVE  /\ Begun(replayed[n].serial)
         /\ EntryFits(replayed[n], n)
         /\ replayed[n].addr # 0 =>
              /\ replayed[n].addr = Executed[replayed[n].serial]
              /\ replayed[n].regs = replayed[n].serial \/ <<replayed[n].serial, "r">> \in damaged
              /\ replayed[n].reads = Code[replayed[n].addr].reads
                   \/ <<replayed[n].serial, "mr">> \in damaged
         /\ replayed[n].addr = 0 /\ damaged = {} => n = Len(replayed) /\ killed
<1>1. /\ EntryFits(replayed[n], n)
      /\ replayed[n].addr = 0 /\ damaged = {} => n = Len(replayed) /\ killed
  BY DEF RecInv, ReaderInv, EntryInv
<1>2. PICK k \in Before("i") :
        /\ file[k].serial = replayed[n].serial
        /\ replayed[n].addr # 0 =>
             /\ replayed[n].addr = file[k].addr
             /\ replayed[n].regs = replayed[n].serial \/ <<replayed[n].serial, "r">> \in damaged
             /\ replayed[n].reads = Code[replayed[n].addr].reads
                  \/ <<replayed[n].serial, "mr">> \in damaged
  BY <1>1 DEF EntryFits
<1>3. k \in DOMAIN file /\ Tool(k)
  BY <1>2 DEF Before, Tool, RecInv, RecTypeOK
<1>4. LineAt(k)
  BY <1>3 DEF RecInv, FileInv, LineInv
<1> QED BY <1>1, <1>2, <1>4 DEF LineAt

\* An instruction that was executed has an entry, in a replay that has ended.
LEMMA ExecutedHasEntry ==
  ASSUME RecInv, Exact, phase = "end", NEW n \in 1..Len(ran)
  PROVE  <<n, "i">> \in damaged \/
           \E k \in DOMAIN replayed : replayed[k].serial = n /\ replayed[k].addr = ran[n]
<1>1. Len(ran) \in Nat /\ Len(file) \in Nat /\ DOMAIN file = 1..Len(file) /\ TypeOK /\ RecTypeOK
  BY DEF RecInv, RecTypeOK, TraceInv
<1>2. Begun(n) /\ Left(n) = 0 /\ n \in 1..(Len(ran) + 1)
  BY <1>1 DEF Begun, Left
<1>3. <<n, "i">> \in damaged \/ Of("i", n) # {}
  BY <1>2 DEF RecInv, FileInv, GroupInFile, GroupAt
<1>4. ASSUME NEW k \in Of("i", n)
      PROVE  \E j \in DOMAIN replayed : replayed[j].serial = n /\ replayed[j].addr = ran[n]
  <2>1. k \in DOMAIN file /\ file[k].serial = n /\ file[k].kind = "i" /\ file[k].form = "whole"
    BY <1>4 DEF Of
  <2>2. at = Len(file) + 1
    BY DEF RecInv, ReaderInv
  <2>3. k \in Before("i")
    BY <1>1, <2>1, <2>2 DEF Before
  <2>4. file[k].addr = Executed[n]
    BY <2>1 DEF RecInv, FileInv, LineInv, LineAt, Tool
  <2>5. Executed[n] = ran[n]
    BY <1>1, ExecutedIs
  <2> QED BY <2>1, <2>3, <2>4, <2>5 DEF RecInv, ReaderInv, ReadInv
<1> QED BY <1>3, <1>4

LEMMA Faithful == RecInv /\ Exact => ReplayFaithful
<1> SUFFICES ASSUME RecInv, Exact, damaged = {}, NEW k \in DOMAIN replayed
             PROVE  \/ replayed[k].addr = 0 /\ k = Len(replayed) /\ killed
                    \/ /\ k \in DOMAIN Executed /\ replayed[k].addr = Executed[k]
                       /\ InStep(replayed[k], k)
  BY DEF ReplayFaithful
<1>1. replayed[k].serial = k /\ Begun(k)
  BY EntryStands DEF EntryFits
<1>2. k \in DOMAIN Executed
  BY <1>1, ExecutedIs, BegunBound DEF RecInv, TraceInv
<1>3. CASE replayed[k].addr = 0
  BY <1>3, EntryStands
<1>4. CASE replayed[k].addr # 0
  BY <1>1, <1>2, <1>4, EntryStands DEF InStep
<1> QED BY <1>3, <1>4

LEMMA Complete == RecInv /\ Exact => NothingMissing
<1> SUFFICES ASSUME RecInv, Exact, phase = "end", ~killed, damaged = {}
             PROVE  [k \in DOMAIN replayed |-> replayed[k].addr] = ran
  BY DEF NothingMissing
<1> DEFINE N == Len(replayed)
           n == Len(ran)
<1>1. /\ TypeOK /\ RecTypeOK /\ MainThread \in Threads
      /\ N \in Nat /\ n \in Nat /\ DOMAIN replayed = 1..N /\ DOMAIN ran = 1..n
      /\ ran = [k \in 1..n |-> ran[k]]
  BY DEF RecInv, TraceInv, RecTypeOK
<1>2. ~Logging(MainThread)
  <2>1. pc[MainThread] = 0
    BY DEF RecInv, FileInv, EndInv
  <2>2. head[MainThread] = 0
    BY <1>1, <2>1, AddrType DEF TypeOK, TraceAt
  <2> QED BY <2>2 DEF Logging
<1> HIDE DEF N, n
<1>3. ASSUME NEW k \in 1..N
      PROVE  replayed[k].serial = k /\ k \in 1..n /\ replayed[k].addr = ran[k]
  <2>1. replayed[k].serial = k /\ Begun(k) /\ replayed[k].addr = Executed[k]
    <3>1. replayed[k].addr # 0
      BY <1>1, EntryStands
    <3> QED BY <1>1, <3>1, EntryStands DEF EntryFits
  <2>2. k \in 1..n
    BY <1>2, <2>1 DEF Begun, n
  <2>3. Executed[k] = ran[k]
    BY <1>1, <2>2, ExecutedIs DEF n
  <2> QED BY <2>1, <2>2, <2>3
<1>4. ASSUME NEW k \in 1..n PROVE k \in 1..N
  <2>1. PICK j \in 1..N : replayed[j].serial = k
    BY <1>1, ExecutedHasEntry DEF n
  <2> QED BY <1>3, <2>1
<1>5. N = n
  <2>1. N > n => N \in 1..N /\ N \notin 1..n
    BY <1>1
  <2>2. n > N => n \in 1..n /\ n \notin 1..N
    BY <1>1
  <2>3. ~(N > n) /\ ~(n > N)
    BY <1>3, <1>4, <2>1, <2>2
  <2> QED BY <1>1, <2>3
<1>6. [k \in DOMAIN replayed |-> replayed[k].addr] = [k \in 1..n |-> ran[k]]
  BY <1>1, <1>3, <1>5
<1> QED BY <1>1, <1>6

LEMMA MadeGood == RecInv /\ Exact => Resynchronized
<1> SUFFICES ASSUME RecInv, Exact PROVE Resynchronized
  OBVIOUS
<1>1. ASSUME NEW k \in DOMAIN replayed, replayed[k].addr # 0
      PROVE  /\ replayed[k].regs # replayed[k].serial => <<replayed[k].serial, "r">> \in damaged
             /\ replayed[k].reads # Code[replayed[k].addr].reads =>
                  <<replayed[k].serial, "mr">> \in damaged
  BY <1>1, EntryStands
<1>2. DOMAIN ran = 1..Len(ran)
  BY DEF RecInv, RecTypeOK
<1>3. ASSUME phase = "end", NEW n \in DOMAIN ran
      PROVE  <<n, "i">> \in damaged \/ \E k \in DOMAIN replayed :
                                     replayed[k].serial = n /\ replayed[k].addr = ran[n]
  BY <1>2, <1>3, ExecutedHasEntry
<1> QED BY <1>1, <1>3 DEF Resynchronized

LEMMA Kept == RecInv /\ Exact => RegistersKept
  BY DEF RecInv, ReaderInv, KeepInv, FileInv, GapInv, RegistersKept, AlwaysKept

\* Of every program of one thread, for any number of foreign texts of any kind and
\* wherever the recording is cut: as long as the log is the exact one of the region,
\* what is replayed is what was executed, with its own registers and operands;
\* nothing is missing at the end; an instruction with whole lines gets its own
\* registers and operands whatever was damaged before it; and without damage no
\* register loses its expression, except where code that is not logged was executed.
THEOREM ReplayOfExact ==
  RecSpec => [](Exact => ReplayFaithful /\ NothingMissing /\ Resynchronized /\ RegistersKept)
<1>1. RecInv => (Exact => ReplayFaithful /\ NothingMissing /\ Resynchronized /\ RegistersKept)
  BY Faithful, Complete, MadeGood, Kept
<1> QED BY <1>1, RecordingInvariant, PTL

\* On the layout of a protected function that is called once, the log is exact.
LEMMA RecordingIsExact ==
  ASSUME NEW before, NEW within, NEW after,
         \A p \in DOMAIN Programs : /\ Started[p] = {MainThread}
                                   /\ CalledOnce(p, before[p], within[p], after[p])
  PROVE  RecSpec => []Exact
<1>1. Spec => [](RegionLogged /\ NothingOutside)
  BY OneThread, OneCallIsExact
<1>2. RegionLogged /\ NothingOutside => Exact
  BY DEF Exact
<1> QED BY <1>1, <1>2, RecordingIsTrace, PTL

\* The replay of a function that is called once replays what was executed.
THEOREM OneCallIsReplayed ==
  ASSUME NEW before, NEW within, NEW after,
         \A p \in DOMAIN Programs : /\ Started[p] = {MainThread}
                                   /\ CalledOnce(p, before[p], within[p], after[p])
  PROVE  RecSpec => []ReplayFaithful
  BY RecordingIsExact, ReplayOfExact, PTL

\* A recording of such a function that was not killed is replayed in full.
THEOREM OneCallIsComplete ==
  ASSUME NEW before, NEW within, NEW after,
         \A p \in DOMAIN Programs : /\ Started[p] = {MainThread}
                                   /\ CalledOnce(p, before[p], within[p], after[p])
  PROVE  RecSpec => []NothingMissing
  BY RecordingIsExact, ReplayOfExact, PTL

\* Whatever texts damage of it, an instruction with whole lines is replayed with the
\* registers and the operands it had.
THEOREM OneCallResynchronizes ==
  ASSUME NEW before, NEW within, NEW after,
         \A p \in DOMAIN Programs : /\ Started[p] = {MainThread}
                                   /\ CalledOnce(p, before[p], within[p], after[p])
  PROVE  RecSpec => []Resynchronized
  BY RecordingIsExact, ReplayOfExact, PTL

\* If none damages it, no register of the replay loses its expression, except after
\* library code or code outside of the region.
THEOREM OneCallKeepsRegisters ==
  ASSUME NEW before, NEW within, NEW after,
         \A p \in DOMAIN Programs : /\ Started[p] = {MainThread}
                                   /\ CalledOnce(p, before[p], within[p], after[p])
  PROVE  RecSpec => []RegistersKept
  BY RecordingIsExact, ReplayOfExact, PTL

\* While it is recorded, its log is what an exact tracer of the region writes.
THEOREM OneCallIsRecorded ==
  ASSUME NEW before, NEW within, NEW after,
         \A p \in DOMAIN Programs : /\ Started[p] = {MainThread}
                                   /\ CalledOnce(p, before[p], within[p], after[p])
  PROVE  RecSpec => ExactTrace
<1>1. Spec => ExactTrace
  BY OneCallIsTraced
<1> QED BY <1>1, RecordingIsTrace, PTL

=============================================================================
