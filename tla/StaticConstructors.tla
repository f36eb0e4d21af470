--------------------------- MODULE StaticConstructors ---------------------------
(***************************************************************************)
(* The supermutant of a C++ program whose static constructors run mutated  *)
(* code: the process executes it before it enters main, and so before the  *)
(* loader.  MCSupermutantRun leaves this out; here it is added.            *)
(***************************************************************************)
EXTENDS SupermutantRun

\* A static constructor calls the function.
RunConstructor ==
  /\ program.name # "main"
  /\ phase = "done" /\ machine = NotStarted
  /\ env' \in Environments
  /\ machine' = Started(FirstInstruction, ZeroGlobals)
  /\ UNCHANGED << vars, checks >>

ConstructorSpec == RunInit /\ [][RunNext \/ RunConstructor]_<<vars, runVars>>
===============================================================================
