----------------------------- MODULE SupermutantRun -----------------------------
(***************************************************************************)
(* The supermutant at run time: the supermutator makes it, and then it is  *)
(* run.  main first calls the loader function, which goes through its      *)
(* checks one by one: getenv, strtol, store into the global; main's own    *)
(* code, with its switches, comes after that.  It implements MutantRun.    *)
(***************************************************************************)
EXTENDS Supermutator, Interpreter

CONSTANTS
  MaxOut,        \* the length of machine.out at which a run is abandoned
  MaxVariables   \* how many of the variables a run sets

\* An instruction has the operands and the targets that its opcode asks for; the
\* tag of the engine's globals is no opcode.
HasOperands(ins) ==
  /\ ins.op # "global"
  /\ ins.op \in {"br", "condbr", "switch"} => 1 \in DOMAIN ins.to
  /\ ins.op = "condbr" => 2 \in DOMAIN ins.to
  /\ ins.op = "switch" => \A k \in DOMAIN ins.cases : 1 + k \in DOMAIN ins.to
  /\ ins.op \in {"load", "store"} => 1 \in DOMAIN ins.args
  /\ ins.op = "store" => 2 \in DOMAIN ins.args

\* A program that can be run: LLVM's verifier has accepted its dominance too, a
\* value is an instruction of it or one of the kinds of values that are not, and the
\* source mapping has given no two instructions the same ID.
IsRunnable(p) ==
  LET f == p.function IN
  /\ IsFiniteSet(BlocksOf(f))
  /\ DefinitionsDominateUses(f)
  /\ \A x \in DOMAIN f.code :
       /\ HasOperands(f.code[x])
       /\ \A v \in Values(f, x) : v \in DOMAIN f.code \/ v[1] \in {"arg", "gvar", "fn", "const"}
  /\ \A i, j \in DOMAIN p.id : p.id[i] = p.id[j] => i = j

ASSUME RunnableAssumption == \A p \in Programs : IsRunnable(p)

VARIABLES
  env,      \* the environment of the run: instruction IDs to values
  checks,   \* the checks the loader has yet to make; none outside of it
  machine   \* the run

runVars == << env, checks, machine >>

\* setInitializer(zeroConstant)
ZeroGlobals == [g \in DOMAIN globals |-> 0]

\* The variables of the instructions that have a check, each set to a mutant of
\* its instruction, to one of another, to zero, or to no number at all.
Environments ==
  UNION {[S -> (0 .. Len(mutations)) \cup {Junk}] :
           S \in {T \in SUBSET ToSet(loader) : Cardinality(T) <= MaxVariables}}

RunInit == Init /\ env = <<>> /\ checks = <<>> /\ machine = NotStarted

Supermutate == Next /\ phase # "done" /\ UNCHANGED runVars

FirstInstruction == FirstNonPHI(ir, ir.entry)

\* The process enters main, which is the function or calls the loader and then
\* the function.
Launch ==
  /\ phase = "done" /\ machine = NotStarted
  /\ env' \in Environments
  /\ machine' = Started(IF program.name = "main" THEN FirstInstruction ELSE LoaderCall,
                        ZeroGlobals)
  /\ checks' = loader
  /\ UNCHANGED vars

\* One check of the loader: a variable that is not set leaves its global as it is.
LoaderCheck ==
  /\ machine.at = LoaderCall
  /\ checks # <<>>
  /\ checks' = Tail(checks)
  /\ machine' =
       IF Head(checks) \in DOMAIN env
       THEN [machine EXCEPT !.mem[Global(Head(checks))] = strtol(env[Head(checks)])]
       ELSE machine
  /\ UNCHANGED << vars, env >>

LoaderReturn ==
  /\ machine.at = LoaderCall
  /\ checks = <<>>
  /\ machine' = IF program.name = "main"
                THEN Advance(ir, machine)
                ELSE Goto(machine, FirstInstruction)
  /\ UNCHANGED << vars, env, checks >>

Step ==
  /\ machine.at \notin {Halted, LoaderCall}
  /\ Len(machine.out) < MaxOut
  /\ machine' \in Executed(ir, machine)
  /\ UNCHANGED << vars, env, checks >>

Exit ==
  /\ phase = "done"
  /\ machine # NotStarted
  /\ machine.at = Halted \/ Len(machine.out) = MaxOut
  /\ UNCHANGED << vars, runVars >>

RunNext ==
  \/ Supermutate
  \/ Launch
  \/ LoaderCheck
  \/ LoaderReturn
  \/ Step
  \/ Exit

RunSpec == RunInit /\ [][RunNext]_<<vars, runVars>>

-------------------------------------------------------------------------------
(* Refinement.                                                             *)

\* The source instruction that an instruction of the supermutant is part of.
SourceInstruction(x) ==
  CASE x[1] \in {"load", "switch", "clone", "clonebr"} -> x[2]
    [] x[1] \in {"mutant", "mutantbr"} -> mutations[x[2]].original
    [] x = LoaderCall -> FirstNonPHI(program.function, program.function.entry)
    [] OTHER -> x

\* The value of a mutated instruction is its phi's.
SourceRegs(regs) ==
  LET of(x) == IF x[1] = "phi" THEN x[2] ELSE x
      kept  == {x \in DOMAIN regs : x[1] \in {"orig", "phi"}}
  IN  [i \in {of(x) : x \in kept} |-> regs[CHOOSE x \in kept : of(x) = i]]

\* What a run of the supermutant is as a run of the mutant.
SourceMachine(m) ==
  [at   |-> SourceInstruction(m.at),
   regs |-> SourceRegs(m.regs),
   mem  |-> Restrict(m.mem, DOMAIN m.mem \ DOMAIN globals),
   out  |-> m.out]

\* A row is found by its published ID; what it replaces its instruction with is in
\* the row or, for a load, in the entry of the list that it was written from.
PublishedRows ==
  IF phase = "done"
  THEN LET row(id) == CHOOSE n \in DOMAIN table : table[n].id = id
       IN  [id \in {table[n].id : n \in DOMAIN table} |->
              [instruction |-> table[row(id)].instruction,
               variant     |-> IF table[row(id)].replacement = None
                               THEN mutations[row(id)].variant
                               ELSE table[row(id)].replacement]]
  ELSE <<>>

M == INSTANCE MutantRun WITH
       source  <- program,
       rows    <- PublishedRows,
       machine <- SourceMachine(machine)

\* A run of the supermutant is a run of the mutant its environment chooses: it
\* takes the same branches on the same conditions, makes the same calls, has
\* the same values in variables and memory, and returns the same result.
ImplementsMutantRun == M!Spec

\* Every instruction that looks up its mutant finds the one that the environment
\* asks for: the loader has run before it (MutationEngine.cpp:183, "insert a call
\* to the loader function at the start of the program").
LoaderRunsFirst ==
  machine.at[1] = "load" =>
    \A id \in DOMAIN env : machine.mem[Global(id)] = strtol(env[id])
===============================================================================
