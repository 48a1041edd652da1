----------------------------- MODULE MCVMPTrace -----------------------------
(***************************************************************************)
(* Programs and layouts for VMPTrace.                                      *)
(***************************************************************************)
EXTENDS VMPTrace, TLC

\* An instruction that falls through, one that may also be taken elsewhere,
\* and one that always transfers control.
Fall(a, n)     == [reads |-> n, ends |-> FALSE, to |-> {a + 1}]
Branch(a, dst) == [reads |-> 0, ends |-> FALSE, to |-> {a + 1} \cup dst]
Goto(n, dst)   == [reads |-> n, ends |-> TRUE, to |-> dst]

\* A protected function called once: START (2) jumps into the virtual machine,
\* a dispatcher (7) and two handlers (6, 8-9) that share code and call a library
\* (10); the machine leaves to the end of the function, which falls into END (4).
VmCode ==
  <<Goto(0, {2}), Goto(0, {7}), Fall(3, 1), Goto(1, {5}), Goto(0, {0}),
    Fall(6, 2), Goto(0, {6, 8, 3}), Fall(8, 1), Goto(0, {10}), Goto(0, {7})>>
VmOnly == [vm |-> VmCode]

\* The function may be called again, and a second protected function (5) enters
\* the same virtual machine outside of the region.
SharedVm == [vm |-> [VmCode EXCEPT ![5] = Goto(0, {2, 7, 0})]]

\* Compiled code between START (2) and END (5): a loop over 3-4.
NativeLoop == [native |-> <<Goto(0, {2}), Fall(2, 0), Fall(3, 1), Branch(4, {3}), Goto(0, {0})>>]

\* Programs of four instructions: an entry, START (2), END (3) and code that may
\* be compiled before, between or after them, in the region or out of it.
Ways(S) == SUBSET S \ {{}}
Entry   == {Goto(0, {2}), Goto(0, {2, 4}), Branch(1, {4})}
Begins  == {Goto(0, d) : d \in Ways({1, 3, 4})} \cup {Branch(2, d) : d \in {{}, {1}, {4}}}
Ends    == {Goto(0, d) : d \in {{0}, {1}, {2}, {4}, {2, 4}}} \cup {Branch(3, d) : d \in {{}, {1}}}
Others  == {Goto(0, d) : d \in Ways({0, 1, 2, 3})}
Small == Entry \X Begins \X Ends \X Others

\* The shared virtual machine with its END (3) behind a transfer: a dispatcher
\* (6), two handlers (5, 7-8), a library (9), and a second function (4).
SharedCode ==
  <<Goto(0, {2}), Goto(1, {6}), Goto(0, {4}), Goto(0, {2, 6, 0}),
    Fall(5, 2), Goto(1, {5, 7, 3}), Fall(7, 1), Goto(0, {9}), Goto(0, {6})>>

\* Each of them, and that.
CausePrograms == [p \in Small \cup {SharedCode} |-> p]

\* Two threads run the virtual machine, one the others.
CauseThreads ==
  [p \in DOMAIN Programs |-> IF p = SharedCode THEN Threads ELSE {MainThread}]

AllStarted == [p \in DOMAIN Programs |-> Threads]

=============================================================================
