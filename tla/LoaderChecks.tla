------------------------------ MODULE LoaderChecks ------------------------------
(***************************************************************************)
(* What the loader function promises: a list of checks, made in order, each*)
(* of which copies the environment variable of an instruction, if it is    *)
(* set, into the global of that instruction, as a number.                  *)
(***************************************************************************)
EXTENDS Sequences, Functions

CONSTANT strtol(_)

VARIABLES
  env,     \* the variables that are set, by instruction ID
  checks,  \* the IDs of the checks still to be made
  mem,     \* the globals, by instruction ID
  running

vars == << env, checks, mem, running >>

Init == env = <<>> /\ checks = <<>> /\ mem = <<>> /\ running = FALSE

\* Of every instruction that has a global there is a check to be made, and of no
\* other; only their variables are of interest.
Call ==
  /\ ~ running /\ running'
  /\ Range(checks') = DOMAIN mem' /\ DOMAIN env' \subseteq DOMAIN mem'
  /\ \A id \in DOMAIN mem' : mem'[id] = 0

Check ==
  /\ running /\ checks # <<>>
  /\ checks' = Tail(checks)
  /\ mem' = IF Head(checks) \in DOMAIN env
            THEN [mem EXCEPT ![Head(checks)] = strtol(env[Head(checks)])] ELSE mem
  /\ UNCHANGED << env, running >>

Return ==
  /\ running /\ checks = <<>>
  /\ ~ running'
  /\ UNCHANGED << env, checks, mem >>

Spec == Init /\ [][Call \/ Check \/ Return]_vars
===============================================================================
