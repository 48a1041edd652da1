------------------------------ MODULE Recording ------------------------------
(***************************************************************************)
(* The pintool and the replay, composed: VMPTrace writes, one line at a    *)
(* time, the file that the loop of emulate reads afterwards, in            *)
(* attack_vmp.py as in looking_jmp.py.                                     *)
(*                                                                         *)
(* The tool writes to std::cerr, which is not buffered and which the       *)
(* traced process and its children share: the recording                    *)
(* vmp_traces/sample5.vmp.trace.2 has a shell's complaint on line 1 and    *)
(* the program's output at its end.  A foreign text may be a line of its   *)
(* own, or damage a line of the tool: before the colon that ends the kind  *)
(* of the line it makes the kind one that emulate does not know ("glued"), *)
(* after it it falls between the pieces of the line ("broken"), which      *)
(* sync_reg, sync_memory or exec_instruction then cannot parse, or take    *)
(* for other values, or read as if nothing had happened.  The recording    *)
(* may also be killed, in the middle of a line too.                        *)
(*                                                                         *)
(* Triton is taken to execute an instruction as the processor does, and    *)
(* the flags to carry nothing over code that is not logged.                *)
(***************************************************************************)
EXTENDS VMPTrace

CONSTANTS
  Noises,    \* what a foreign text may do: "line", "glued", "broken"
  MaxNoise   \* bound on the number of foreign texts

ASSUME RecordingAssumption ==
  /\ Noises \subseteq {"line", "glued", "broken"}
  /\ MaxNoise \in Nat
  /\ \E t \in Threads : Threads = {t}

VARIABLES
  file,        \* the lines of the trace file
  phase,       \* "record", "replay", "end", or "raised" an exception
  at,          \* emulate: the next line it reads
  regs,        \* the context has the registers that the process had before its
               \* regs-th logged instruction; 0 when that is not certain
  reads,       \* the lines whose memory operands the context holds
  replayed,    \* what has been replayed, with the context it was replayed in; the
               \* address is 0 where the line was taken for another instruction
  noise,       \* the number of foreign texts
  killed,      \* history: the recording was cut short
  damaged,     \* history: the lines that a text was glued to or has broken
  ran,         \* history: the instructions of the region that were executed
  gaps,        \* history: the logged instructions right before which others were
               \* executed that are not logged,
  excused,     \* and those of them for which these were library code or outside
               \* of the region
  lost         \* history: the first instruction whose registers, once the inputs
               \* were symbolic, changed one in the context; 0 before

fileVars   == <<file, noise, damaged>>
readerVars == <<at, regs, reads, replayed, lost>>
runVars    == <<ran, gaps, excused>>
allVars    == <<vars, fileVars, readerVars, runVars, phase, killed>>

RecInit ==
  /\ Init
  /\ file = <<>> /\ phase = "record"
  /\ at = 1 /\ regs = 0 /\ reads = {} /\ replayed = <<>>
  /\ noise = 0 /\ killed = FALSE /\ damaged = {}
  /\ ran = <<>> /\ gaps = {} /\ excused = {} /\ lost = 0

-----------------------------------------------------------------------------
(* The recording.                                                          *)

\* The logged instructions are numbered: the one whose lines are being written,
\* or are the next to be.
Serial == Cardinality({k \in DOMAIN log : log[k].kind = "i"}) + 1

TextLine == [kind |-> "text", addr |-> 0, serial |-> 0, form |-> "line"]

\* How the next line of thread t comes out.
Written(t, form) ==
  [kind   |-> IF form = "glued" THEN "text" ELSE Head(todo[t]).kind,
   addr   |-> Head(todo[t]).addr,
   serial |-> Serial,
   form   |-> form]

Damages == (Noises \cap {"glued", "broken"}) \cup {"whole"}

RecordLine(t) ==
  /\ WriteLine(t)
  /\ \E form \in Damages :
       /\ form # "whole" => noise < MaxNoise
       /\ file' = Append(file, Written(t, form))
       /\ noise' = IF form = "whole" THEN noise ELSE noise + 1
       /\ damaged' = IF form = "whole" THEN damaged
                      ELSE damaged \cup {<<Serial, Head(todo[t]).kind>>}
  /\ UNCHANGED <<readerVars, runVars, phase, killed>>

RunTarget(t) ==
  LET a      == pc[t]
      logged == a \in cache[head[t]]
      due    == InRegion(inside[t], a) /\ a < LibBase
  IN  /\ Execute(t)
      /\ ran' = IF due THEN Append(ran, a) ELSE ran
      /\ gaps' = IF logged THEN gaps ELSE gaps \cup {Serial}
      /\ excused' = IF logged \/ due THEN excused ELSE excused \cup {Serial}
      /\ UNCHANGED <<fileVars, readerVars, phase, killed>>

RunPin(t) ==
  /\ Compile(t) \/ EnterTrace(t) \/ BeginLine(t)
  /\ UNCHANGED <<fileVars, readerVars, runVars, phase, killed>>

\* The traced process or a child of it writes a line.
Foreign ==
  /\ "line" \in Noises /\ noise < MaxNoise
  /\ \A t \in Threads : open[t] = "none"
  /\ file' = Append(file, TextLine) /\ noise' = noise + 1
  /\ UNCHANGED <<vars, damaged, readerVars, runVars, phase, killed>>

\* The traced program ends.
Exit ==
  /\ \A t \in Threads : pc[t] = 0
  /\ phase' = "replay"
  /\ UNCHANGED <<vars, fileVars, readerVars, runVars, killed>>

\* The recording is killed; a line that is open is cut off.
Kill(t) ==
  /\ pc[t] # 0
  /\ phase' = "replay" /\ killed' = TRUE
  /\ file' = IF open[t] = "none" THEN file ELSE Append(file, Written(t, "torn"))
  /\ UNCHANGED <<vars, noise, damaged, readerVars, runVars>>

Record ==
  /\ phase = "record"
  /\ \/ \E t \in Threads : RecordLine(t) \/ RunTarget(t) \/ RunPin(t) \/ Kill(t)
     \/ Foreign \/ Exit

-----------------------------------------------------------------------------
(* emulate.                                                                *)

\* Mutations: a line of an unknown kind is looked at again; the line after it is
\* skipped.
NextLineKnown(k) == IF file[k].kind = "text" THEN k ELSE k + 1
NextLineSkip(k)  == IF file[k].kind = "text" THEN k + 2 ELSE k + 1

NextLine(k) == k + 1

\* A line of kind k is read.
Read(k) ==
  /\ phase = "replay" /\ at \in DOMAIN file
  /\ file[at].kind = k
  /\ at' = NextLine(at)
  /\ UNCHANGED <<vars, fileVars, runVars, phase, killed>>

\* Whether the line says what the tool wrote.  A broken one, or one that was cut
\* off, may still; or it has the form of a line that says something else.
Readings == IF file[at].form \in {"whole", "line"} THEN {TRUE} ELSE BOOLEAN

\* Other values go to memory, where they may hide those of an earlier line.
ReadMemory ==
  /\ Read("mr")
  /\ \E right \in Readings :
       IF right THEN reads' = reads \cup {at} ELSE reads' \in SUBSET reads
  /\ UNCHANGED <<regs, replayed, lost>>

\* A register that differs from the line is set, and loses its expression.
ReadRegisters ==
  LET n == file[at].serial
  IN  /\ Read("r")
      /\ \E right \in Readings :
           /\ regs' = IF right THEN n ELSE 0
           /\ lost' \in IF right /\ regs # n /\ replayed # <<>> /\ lost = 0
                         THEN {0, n} ELSE {lost}
      /\ UNCHANGED <<reads, replayed>>

\* The n-th to be replayed is the n-th that was logged, with its own operands.
InStep(e, n) ==
  /\ e.addr # 0 /\ e.serial = n /\ e.regs = n
  /\ e.reads = Code[e.addr].reads

\* Mutation: the instruction is built and not processed.
ProcessedNot(entries) == regs

\* ctx.processing: the context executes the instruction, and has the registers
\* of the next one if it has been in step all along, flags included, and nothing
\* comes between the two that is not logged.
Processed(entries) ==
  LET n == Len(entries)
  IN  IF (\A k \in 1..n : InStep(entries[k], k)) /\ n + 1 \notin gaps THEN n + 1 ELSE 0

\* The operands of earlier instructions stay in the context.
ReadInstruction ==
  /\ Read("i")
  /\ \E right \in Readings :
       replayed' = Append(replayed,
         [addr |-> IF right THEN file[at].addr ELSE 0, serial |-> file[at].serial,
          regs |-> regs,
          reads |-> Cardinality({j \in reads : file[j].serial = file[at].serial})])
  /\ reads' = {}
  /\ regs' = Processed(replayed')
  /\ UNCHANGED lost

\* Every other kind is passed over.
ReadOther == Read("text") /\ UNCHANGED <<regs, reads, replayed, lost>>

\* The line has too few fields, or one that is not a number.
ReadRaises ==
  /\ phase = "replay" /\ at \in DOMAIN file
  /\ file[at].form \in {"broken", "torn"}
  /\ phase' = "raised"
  /\ UNCHANGED <<vars, fileVars, readerVars, runVars, killed>>

ReadEnd ==
  /\ phase = "replay" /\ at \notin DOMAIN file
  /\ phase' = "end"
  /\ UNCHANGED <<vars, fileVars, readerVars, runVars, killed>>

Replay ==
  ReadMemory \/ ReadRegisters \/ ReadInstruction \/ ReadOther \/ ReadRaises \/ ReadEnd

RecDone == phase \in {"end", "raised"} /\ UNCHANGED allVars

RecNext == Record \/ Replay \/ RecDone

\* The traced process may run for ever; the replay is a loop over a finite file.
RecSpec == RecInit /\ [][RecNext]_allVars /\ WF_allVars(Replay)

-----------------------------------------------------------------------------
(* Properties.                                                             *)

\* The instructions the target executed in the region, and the one it was at.
Executed == ran \o [k \in 1..1 |-> pc[MainThread]]

\* Unless a text has damaged a line of the tool, what is replayed is what was
\* executed, from the start of the region, each instruction with the registers
\* and with all of the memory operands it really had, wherever the recording was
\* cut and whatever lines the target and its children wrote in between.  Only
\* the last instruction of a recording that was killed may be another one.
ReplayFaithful ==
  damaged = {} => \A k \in DOMAIN replayed :
    \/ replayed[k].addr = 0 /\ k = Len(replayed) /\ killed
    \/ /\ k \in DOMAIN Executed /\ replayed[k].addr = Executed[k]
       /\ InStep(replayed[k], k)

\* A replay that ends without an exception, of a recording that was not killed
\* and has no damaged line, has replayed all that was executed in the region.
NothingMissing ==
  phase = "end" /\ ~killed /\ damaged = {} =>
    [k \in DOMAIN replayed |-> replayed[k].addr] = ran

\* Damage to a line is made good for the registers and the memory operands: an
\* instruction with whole lines gets its own, whatever became of those before it,
\* and unless its `i` line is damaged it is replayed.  The flags and the symbolic
\* expressions are not: no line of a trace brings them back.
Resynchronized ==
  /\ \A k \in DOMAIN replayed : replayed[k].addr # 0 =>
       /\ replayed[k].regs # replayed[k].serial => <<replayed[k].serial, "r">> \in damaged
       /\ replayed[k].reads # Code[replayed[k].addr].reads =>
            <<replayed[k].serial, "mr">> \in damaged
  /\ phase = "end" /\ ~killed =>
       \A n \in DOMAIN ran :
         <<n, "i">> \in damaged \/ \E k \in DOMAIN replayed :
                                   replayed[k].serial = n /\ replayed[k].addr = ran[n]

\* "All expressions which involve symbolic variables (inputs of the function) are
\* kept symbolic": the registers of a line are those that the instructions before
\* it have left, expressions included, unless library code or code outside of
\* the region was executed in between.
AlwaysKept == lost # 0 => lost \in excused

\* It is so unless a text has damaged a line.
RegistersKept == damaged = {} => AlwaysKept

\* A recording that has ended is replayed to its end, or an exception says why not.
Replayed == phase = "replay" ~> phase \in {"end", "raised"}

=============================================================================
