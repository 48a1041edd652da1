---------------------------- MODULE MCAttackVmp ----------------------------
(***************************************************************************)
(* Small traced programs and machine states for AttackVmp: bytes of one    *)
(* bit, one or two bytes per register, and a handful of instructions of    *)
(* the kinds a VMProtect handler is made of.                               *)
(***************************************************************************)
EXTENDS AttackVmp, TLC

Bits == {0, 1}

\* One byte per register.
LocOne == {"dil", "sil", "al", "bl", "m0", "m1", "cf", "af", "zero"}
RdiOne == <<"dil">>
RsiOne == <<"sil">>
GprOne == {{"dil"}, {"sil"}, {"al"}, {"bl"}}
EaxOne == {"al"}

\* Two bytes per register.
LocTwo == {"dil", "dih", "sil", "al", "ah", "m0", "m1", "cf", "af", "zero"}
RdiTwo == <<"dil", "dih">>
RsiTwo == <<"sil">>
GprTwo == {{"dil", "dih"}, {"sil"}, {"al", "ah"}}
EaxTwo == {"al", "ah"}

\* The operations of the instructions.
First  == [p \in Bits \X Bits |-> p[1]]
Inc    == [p \in Bits \X Bits |-> 1 - p[1]]
XorOp  == [p \in Bits \X Bits |-> (p[1] + p[2]) % 2]
AndOp  == [p \in Bits \X Bits |-> p[1] * p[2]]

Set1(l, op, a, b) == (l :> [op |-> op, a |-> a, b |-> b])
Copy(l, a) == Set1(l, First, a, a)

Insn(kind, traced, mem, eff, sel) ==
  [kind |-> kind, regs |-> TRUE, traced |-> traced, mem |-> mem, eff |-> eff, sel |-> sel]

Mov(l, a)       == Insn("other", TRUE, {}, Copy(l, a), "zero")
One(l)          == Insn("other", TRUE, {}, Set1(l, Inc, "zero", "zero"), "zero")
Alu(l, op, a, b) == Insn("other", TRUE, {}, Set1(l, op, a, b), "zero")
Load(l, m)      == Insn("other", TRUE, {{m}}, Copy(l, m), "zero")
Cmp(op, a, b)   == Insn("cmp", TRUE, {}, Set1("af", op, a, b), "zero")
CmpMem(op, m, b) == [Insn("cmp", TRUE, {{m}}, Set1("af", op, m, b), "zero") EXCEPT !.regs = FALSE]
Popfq(m)        == Insn("popfq", TRUE, {{m}}, Copy("cf", m), "zero")
Jump(l)         == Insn("other", TRUE, {}, <<>>, l)
Library(l, a)   == Insn("other", FALSE, {}, Copy(l, a), "zero")
LoadWide        == Insn("other", TRUE, {{"m0", "m1"}}, Copy("al", "m0") @@ Copy("ah", "m1"), "zero")
StoreWide       == Insn("other", TRUE, {}, Copy("m0", "dil") @@ Copy("m1", "dih"), "zero")
LoadOdd         == Insn("other", TRUE, {{"m0", "m1", "cf"}}, Copy("al", "m0"), "zero")

\* Instruction k of a straight line of n; a jump skips the next one when its
\* selector is 1.
Next1(k, n) == IF k < n THEN k + 1 ELSE 0
Place(ins, k, n) ==
  [addr |-> k, tgt |-> [v \in Bits |->
     IF v = 1 /\ ins.sel # "zero" /\ k < n THEN Next1(k + 1, n) ELSE Next1(k, n)]] @@ ins
Assemble(s) == [k \in 1..Len(s) |-> Place(s[k], k, Len(s))]

\* Entry states: the arguments, one memory byte and one register are arbitrary.
EntriesOne ==
  {[l \in LocOne |-> CASE l = "dil" -> x [] l = "sil" -> y [] l \in {"m0", "al"} -> g [] OTHER -> 0] :
     x, y, g \in Bits}

Argument(t1, t2, size, addr, flag) ==
  [trace1 |-> t1, trace2 |-> t2, symsize |-> size, vbraddr |-> addr, vbrflag |-> flag]

\* Functions with one branch: on the flag of a comparison of registers, on a
\* flag restored by popfq, one whose first arm goes through memory, and a virtual
\* machine, one of whose arms executes handlers of the common path again.
Branches ==
  [cmp   |-> Assemble(<<Mov("al", "dil"), Cmp(XorOp, "al", "sil"), Jump("af"),
                        Alu("al", AndOp, "al", "sil"), Alu("al", XorOp, "al", "sil")>>),
   popfq |-> Assemble(<<Alu("m0", AndOp, "dil", "sil"), Popfq("m0"), Jump("cf"),
                        One("dil"), Mov("al", "dil")>>),
   spill |-> Assemble(<<Cmp(AndOp, "dil", "sil"), Jump("af"), Mov("m0", "sil"),
                        Load("al", "m0"), Alu("al", XorOp, "al", "dil")>>),
   again |-> [Assemble(<<Mov("al", "sil"), Mov("m1", "zero"),
                         Alu("al", XorOp, "al", "dil"), Jump("m1"),
                         Cmp(AndOp, "al", "sil"), One("m1"), Jump("af"),
                         Mov("al", "dil"), Mov("m0", "al")>>)
              EXCEPT ![4].tgt = [v \in Bits |-> IF v = 1 THEN 9 ELSE 5],
                     ![7].tgt = [v \in Bits |-> IF v = 1 THEN 8 ELSE 3],
                     ![8].tgt = [v \in Bits |-> 0]]]

\* What is known of the locations after an instruction.
Determined(ins, before) ==
  {l \in Loc : IF l \in DOMAIN ins.eff
                 THEN {ins.eff[l].a, ins.eff[l].b} \subseteq DOMAIN before
                 ELSE l \in DOMAIN before}
KnownAfter(ins, before) ==
  [l \in Determined(ins, before) |->
     IF l \in DOMAIN ins.eff
       THEN Combine(ins.eff[l].op, before[ins.eff[l].a], before[ins.eff[l].b])
       ELSE before[l]]

\* The first n instructions that p executes on input i, with what is known before
\* each; a selector of which nothing is known decides nothing.
Walk(p, i, n) ==
  LET walk[q \in 1..n] ==
        IF q = 1
          THEN [at |-> 1, known |-> [l \in DataBytes \cup {Zero} |->
                                       IF l = Zero THEN Const(0) ELSE SymByte(l, l)]]
          ELSE LET ins   == p[walk[q - 1].at]
                   after == KnownAfter(ins, walk[q - 1].known)
                   v     == IF ins.sel \in DOMAIN after THEN after[ins.sel].val[i] ELSE 0
               IN  [at |-> ins.tgt[v], known |-> after]
  IN  walk

\* The branch of p whose marker and jump are executed at the given steps, len[c]
\* being the number of steps when its condition is c.
BranchOf(p, at, jump, flag, len) ==
  LET some == CHOOSE i \in Inputs : TRUE
      cond == Walk(p, some, at + 1)[at + 1].known[flag]
      walk == [c \in {cond.val[i] : i \in Inputs} |->
                 Walk(p, CHOOSE i \in Inputs : cond.val[i] = c, len[c + 1])]
  IN  [addr |-> p[Walk(p, some, at)[at].at].addr, flag |-> flag, at |-> at, jump |-> jump,
       cond |-> cond,
       path  |-> [c \in DOMAIN walk |-> [q \in 1..len[c + 1] |-> walk[c][q].at]],
       known |-> [c \in DOMAIN walk |-> [q \in 1..len[c + 1] |-> walk[c][q].known]]]

\* The four functions have the one branch that the merge needs.
TheirBranch ==
  [cmp   |-> BranchOf(Branches.cmp, 2, 3, "af", <<6, 5>>),
   popfq |-> BranchOf(Branches.popfq, 2, 3, "cf", <<6, 5>>),
   spill |-> BranchOf(Branches.spill, 1, 2, "af", <<6, 5>>),
   again |-> BranchOf(Branches.again, 5, 7, "af", <<11, 9>>)]

ASSUME BranchAssumption == \A n \in DOMAIN Branches : OneBranch(Branches[n], TheirBranch[n])

\* Every way to ask for the two traces, the branch not given included.
TwoTraces ==
  {Argument(t1, t2, 1, a, f) : t1, t2 \in BOOLEAN, a \in {0, 1, 2, 5}, f \in {"cf", "af", "none"}}

\* Both traces, with the branch of the program given as the first replay prints it.
LoopCommand == {Argument(TRUE, TRUE, 1, 4, "af")}

\* A virtual machine whose comparison handler, instruction 4, runs twice; the
\* branch is taken on the flag of its second execution.
HandlerTwice ==
  [loop |->
    [Assemble(<<Mov("al", "dil"), Mov("bl", "sil"), Mov("m1", "zero"),
                Cmp(XorOp, "al", "bl"), Jump("m1"),
                Alu("bl", AndOp, "dil", "sil"), One("m1"),
                Jump("af"), One("al"), Mov("m0", "al")>>)
     EXCEPT ![5].tgt = [v \in Bits |-> IF v = 1 THEN 8 ELSE 6],
            ![7].tgt = [v \in Bits |-> 4]]]

\* Functions on registers of two bytes: whole and partial writes, operands of
\* two bytes, an operand of three bytes, and a library call between them.
WidePrograms ==
  [stack   |-> Assemble(<<StoreWide, LoadWide, Alu("al", XorOp, "al", "sil")>>),
   partial |-> Assemble(<<Mov("al", "dil"), Library("ah", "dih"), Mov("m0", "al"), LoadWide>>),
   memory  |-> Assemble(<<Mov("m0", "dil"), CmpMem(XorOp, "m0", "sil"), Library("m1", "sil"), LoadWide>>),
   odd     |-> Assemble(<<Mov("m0", "dil"), LoadOdd>>)]

EntriesTwo ==
  {[l \in LocTwo |-> CASE l = "dil" -> x [] l = "dih" -> h [] l = "sil" -> y
                       [] l \in {"m1", "al"} -> g [] OTHER -> 0] :
     x, h, y, g \in Bits}

WideCommands ==
  {Argument(TRUE, FALSE, s, 0, "none") : s \in {1, 2, 3}} \cup
  {Argument(TRUE, TRUE, s, 1, "af") : s \in {1, 2}}

=============================================================================
