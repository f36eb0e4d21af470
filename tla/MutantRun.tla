------------------------------- MODULE MutantRun -------------------------------
(***************************************************************************)
(* What the mutation table promises its reader: a program that, run with   *)
(* environment variable LLVMREPAIR_INSTRUCTION_MUTANT_<instruction> set to *)
(* the ID of one of that instruction's rows, is the source program with    *)
(* that one instruction replaced as the row says, and that with any other  *)
(* value, or with none, leaves the instruction alone.                      *)
(***************************************************************************)
EXTENDS Mutators, Interpreter

VARIABLES
  source,   \* the program that was given to the supermutator
  rows,     \* the rows of the table, once it is published
  env,      \* the environment of the run: instruction IDs to values
  machine   \* the run

abstractVars == << source, rows, env, machine >>

\* The instruction i of the source program under the given environment.
Chosen(i) ==
  LET id  == source.id[i]
      ins == source.function.code[i]
  IN  IF /\ i \in DOMAIN source.id
         /\ id \in DOMAIN env
         /\ strtol(env[id]) \in DOMAIN rows
         /\ rows[strtol(env[id])].instruction = id
      THEN Replacement(ins, rows[strtol(env[id])].variant)
      ELSE ins

ChosenMutant ==
  [source.function EXCEPT !.code = [i \in DOMAIN source.function.code |-> Chosen(i)]]

Init ==
  /\ rows = <<>> /\ env = <<>>
  /\ machine = NotStarted

\* The table and the bitcode are on disk.
Publish ==
  /\ rows' # rows
  /\ machine = NotStarted
  /\ UNCHANGED << source, env, machine >>

Launch ==
  /\ machine = NotStarted
  /\ machine' = Started(FirstNonPHI(source.function, source.function.entry), <<>>)
  /\ UNCHANGED << source, rows >>

Step ==
  /\ machine.at # Halted
  /\ machine' \in Executed(ChosenMutant, machine)
  /\ UNCHANGED << source, rows, env >>

Next == Publish \/ Launch \/ Step

Spec == Init /\ [][Next]_abstractVars
===============================================================================
