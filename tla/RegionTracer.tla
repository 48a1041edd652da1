---------------------------- MODULE RegionTracer ----------------------------
(***************************************************************************)
(* What -start and -end promise about one thread: the instructions it      *)
(* executes from each execution of the start address to the next arrival   *)
(* at the end address are logged, in the order of their execution, the     *)
(* library ones left out; nothing else is.                                 *)
(***************************************************************************)
EXTENDS Naturals, Sequences

CONSTANTS
  Begin, End,   \* the range of the instrumentation
  LibBase       \* library code lies at and above it

VARIABLES
  code,         \* the program: where control may go from each instruction
  pc,           \* the instruction about to be executed
  inside,       \* the region has been entered and not left
  ilog          \* the instructions logged

vars == <<code, pc, inside, ilog>>

Init == pc = 1 /\ inside = FALSE /\ ilog = <<>>

Step ==
  /\ pc # 0
  /\ pc' \in code[pc].to
  /\ inside' = ((inside \/ pc = Begin) /\ pc # End)
  /\ ilog' = IF inside' /\ pc < LibBase THEN Append(ilog, pc) ELSE ilog
  /\ UNCHANGED code

Spec == Init /\ [][Step]_vars

=============================================================================
