------------------------------ MODULE Interpreter ------------------------------
(***************************************************************************)
(* What LLVM IR does when it runs, for the instructions the supermutator   *)
(* meets or makes.  Values are terms: an argument or the address of a      *)
(* variable stands for itself, and an operation for the operator and the   *)
(* values it is applied to, so two runs agree exactly when they compute    *)
(* the same thing from the same inputs.  A machine m has                   *)
(*                                                                         *)
(*    m.at     the instruction it is about to execute                      *)
(*    m.regs   the values of the instructions it has executed              *)
(*    m.mem    the values of the addresses it has stored to                *)
(*    m.out    the branches it took, with the condition; calls; the result *)
(***************************************************************************)
EXTENDS IR

CONSTANT
  Junk  \* a value of an environment variable that is no number

\* The C library's: what is no number becomes zero.
strtol(value) == IF value = Junk THEN 0 ELSE value

Halted == <<"halted">>

NotStarted == [at |-> Halted, regs |-> <<>>, mem |-> <<>>, out |-> <<>>]

Started(at, mem) == [at |-> at, regs |-> <<>>, mem |-> mem, out |-> <<>>]

ValueOf(m, v) == IF v \in DOMAIN m.regs THEN m.regs[v] ELSE v

ArgsOf(f, m) == [k \in DOMAIN f.code[m.at].args |-> ValueOf(m, f.code[m.at].args[k])]

Goto(m, x) == [m EXCEPT !.at = x]

NextInstruction(f, x) == f.layout[BlockOf(f, x)][IndexOf(f, x) + 1]

Advance(f, m) == Goto(m, NextInstruction(f, m.at))

Assign(m, x, value) == [m EXCEPT !.regs = Put(@, x, value)]

Output(m, event) == [m EXCEPT !.out = Append(@, event)]

\* The entries of new, and those of old that new does not have.
Updated(old, new) ==
  [x \in DOMAIN old \cup DOMAIN new |-> IF x \in DOMAIN new THEN new[x] ELSE old[x]]

\* The phis of a block take their values together, when it is entered.
EnterBlock(f, m, b) ==
  LET from == BlockOf(f, m.at)
      phis == {x \in ToSet(f.layout[b]) : f.code[x].op = "phi"}
      incoming(x) == (CHOOSE e \in f.code[x].in : e[2] = from)[1]
  IN  [Goto(m, FirstNonPHI(f, b)) EXCEPT
         !.regs = Updated(@, [x \in phis |-> ValueOf(m, incoming(x))])]

\* The branch a switch takes: its first target is the default.
SwitchTarget(ins, value) ==
  IF value \in ToSet(ins.cases)
  THEN ins.to[1 + CHOOSE k \in DOMAIN ins.cases : ins.cases[k] = value]
  ELSE ins.to[1]

\* The machines m may become by executing one instruction.
Executed(f, m) ==
  LET ins  == f.code[m.at]
      args == ArgsOf(f, m)
  IN CASE ins.op = "br"     -> {EnterBlock(f, m, ins.to[1])}
       [] ins.op = "condbr" -> {EnterBlock(f, Output(m, <<"br", args, k>>), ins.to[k]) : k \in 1 .. 2}
       [] ins.op = "switch" -> {EnterBlock(f, m, SwitchTarget(ins, args[1]))}
       [] ins.op = "ret"    -> {Goto(Output(m, <<"ret", args>>), Halted)}
       [] ins.op = "call"   -> {Advance(f, Output(m, <<"call", args>>))}
       [] ins.op = "alloca" -> {Advance(f, Assign(m, m.at, m.at))}
       [] ins.op = "store"  -> {Advance(f, [m EXCEPT !.mem = Put(@, args[2], args[1])])}
       [] ins.op = "load"   ->
            LET value == IF args[1] \in DOMAIN m.mem THEN m.mem[args[1]] ELSE <<"undef", args>>
            IN  {Advance(f, Assign(m, m.at, value))}
       [] OTHER -> {Advance(f, Assign(m, m.at, <<ins.op, args>>))}
===============================================================================
