---------------------------- MODULE MCSupermutator ----------------------------
(* The supermutator on the programs of MCPrograms, all of them unoptimised or *)
(* lightly optimised C.                                                       *)
EXTENDS Supermutator, MCPrograms

MCPrograms_ == {Straight, Diamond, Loop, Nest, GlobalLoads, Restricted(Straight)}

MCScopedAlloca == {ScopedAlloca}
MCSupermutant  == {Supermutant}

-------------------------------------------------------------------------------
(* What a comment in the code says of it; a run refutes it.                *)

\* InstrumentationFilter.h:9: "prevents supermutation instrumentation from being
\* subject to mutation".  The load of a mutant's ID is instrumentation.
InstrumentationIsNotMutated ==
  \A n \in DOMAIN mutations :
    MutantOfA \notin ToSet(program.function.code[mutations[n].original].args)
===============================================================================
