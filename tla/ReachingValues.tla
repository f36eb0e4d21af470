---------------------------- MODULE ReachingValues ----------------------------
(***************************************************************************)
(* lib/Utils.cpp: the values an instruction could use instead of one of    *)
(* its operands.  env holds what lies outside the function's body:         *)
(* env.args and env.globals map the arguments and the module's global      *)
(* variables to their LLVM types (a global's type is a pointer type).      *)
(***************************************************************************)
EXTENDS IR

\* The alloca clang names "retval".
RetVal == <<"orig", "retval">>

\* Mutant: the search does not push the predecessors of what it visits.
DirectPredecessors(f, b) == Preds(f, b)

\* The set transitivePredecessors computes (the search itself is
\* PredecessorSearch).
transitivePredecessors(f, b) ==
  Closure(f, LAMBDA p : Preds(f, p), Preds(f, b))

findReachingValues(f, env, before) ==
  LET b == BlockOf(f, before) IN
  DOMAIN env.args \cup DOMAIN env.globals
    \cup {f.layout[b][k] : k \in 1 .. IndexOf(f, before) - 1}
    \cup UNION {ToSet(f.layout[p]) : p \in transitivePredecessors(f, b)}

\* Allocas by the type they allocate, globals and arguments by their own type.
findReachingValuesWithType(f, env, before, ty) ==
  {v \in findReachingValues(f, env, before) :
     CASE v \in DOMAIN env.args    -> env.args[v] = ty
       [] v \in DOMAIN env.globals -> env.globals[v] = ty
       [] OTHER -> f.code[v].op = "alloca" /\ f.code[v].ty = ty}
===============================================================================
