----------------------------- MODULE Supermutator -----------------------------
(***************************************************************************)
(* lib/Supermutator.cpp: builds the engine, collects the instructions that *)
(* pass the filters, has the engine mutate them in the order in which an   *)
(* unordered_set yields them, and writes the table and the bitcode.        *)
(***************************************************************************)
EXTENDS MutationEngine

VARIABLES
  phase,        \* where run() is
  instructions  \* the collected instructions run() has not visited

vars == << engineVars, phase, instructions >>

Phases == {"construct", "collect", "mutate", "table", "bitcode", "done"}

Init ==
  /\ EngineInit
  /\ phase = "construct"
  /\ instructions = {}

Construct ==
  /\ phase = "construct" /\ phase' = "collect"
  /\ prepare
  /\ UNCHANGED instructions

-------------------------------------------------------------------------------
(* The filters that the constructor and the configuration install.         *)

\* InstrumentationFilter: a call must be direct, and not to the loader.
InstrumentationFilter(i) ==
  ir.code[i].op = "call" =>
    LET callee == ir.code[i].args[1]
    IN  callee[1] = "fn" /\ callee # LoaderFunction

\* DebugInfoFilter: sourceMapping->hasInfo(i).
DebugInfoFilter(i) == i \in DOMAIN program.id

\* SupermutatorConfig::load: a list that is empty restricts as little as one that
\* is not there.
Listed(key) == IF key \in DOMAIN program.config THEN program.config[key] ELSE {}

restrictToFiles     == Listed("filenames")
restrictToFunctions == Listed("functions")

\* FunctionFilter, which the configuration adds if it names functions.
FunctionFilter(i) == restrictToFunctions # {} => program.name \in restrictToFunctions

isMutable(i) == InstrumentationFilter(i) /\ DebugInfoFilter(i) /\ FunctionFilter(i)

\* A function needs debug information that names its file, and the configuration
\* may restrict the files and the functions.
isMutableFunction ==
  /\ program.file # None
  /\ restrictToFiles # {} => program.file \in restrictToFiles
  /\ restrictToFunctions # {} => program.name \in restrictToFunctions

Collect ==
  /\ phase = "collect" /\ phase' = "mutate"
  /\ instructions' = {i \in DOMAIN ir.code : isMutableFunction /\ isMutable(i)}
  /\ UNCHANGED engineVars

-------------------------------------------------------------------------------
\* Mutant: the instruction stays in the set.
BeginAgain(i) ==
  /\ phase = "mutate"
  /\ i \in instructions
  /\ BeginMutate(i)
  /\ UNCHANGED << phase, instructions >>

Begin(i) ==
  /\ phase = "mutate"
  /\ i \in instructions
  /\ BeginMutate(i)
  /\ instructions' = instructions \ {i}
  /\ UNCHANGED phase

Skip == SkipCandidate /\ UNCHANGED << phase, instructions >>

Inject == InjectCandidate /\ UNCHANGED << phase, instructions >>

End == EndMutate /\ UNCHANGED << phase, instructions >>

Mutated ==
  /\ phase = "mutate" /\ instructions = {} /\ current = None
  /\ phase' = "table"
  /\ UNCHANGED << engineVars, instructions >>

WriteTable ==
  /\ phase = "table" /\ phase' = "bitcode"
  /\ writeMutationTable
  /\ UNCHANGED instructions

\* From here on ir is the content of supermutant.bc.
WriteBitcode ==
  /\ phase = "bitcode" /\ phase' = "done"
  /\ UNCHANGED << engineVars, instructions >>

\* run() returns; the pass is over.
Returned == phase = "done" /\ UNCHANGED vars

Next ==
  \/ Construct
  \/ Collect
  \/ \E i \in instructions : Begin(i)
  \/ Skip
  \/ Inject
  \/ End
  \/ Mutated
  \/ WriteTable
  \/ WriteBitcode
  \/ Returned

Spec == Init /\ [][Next]_vars

-------------------------------------------------------------------------------
(* Properties.                                                             *)

Values(f, x) == ToSet(f.code[x].args) \cup {e[1] : e \in f.code[x].in}

\* The shape of the engine's state between any two steps.
TypeOK ==
  /\ phase \in Phases
  /\ current \in DOMAIN ir.code \cup {None}
  /\ instructions \subseteq DOMAIN ir.code
  /\ nextMutantId \in Nat \ {0}
  /\ \A n \in DOMAIN mutations :
       /\ mutations[n].original \in DOMAIN program.function.code
       /\ IF mutations[n].operator = "LoadMutator"
          THEN mutations[n].variant \in DOMAIN program.function.code
          ELSE mutations[n].variant \in Opcodes
  /\ \A m \in {instructionToClone, instructionToPhiMap,
               instructionToDestinationBlock, instructionToCloneBlock} :
       DOMAIN m = DOMAIN instructionToSwitchMap
  /\ DOMAIN instructionToSwitchMap \subseteq DOMAIN program.function.code

\* Whatever the order in which instructions of one block, or of blocks that
\* branch to each other, are mutated: every block still ends in its only
\* terminator and every phi, the program's own and the engine's, names exactly
\* the predecessors its block has after the splits.
ControlFlowWellFormed == BlocksWellFormed(ir) /\ PhisMatchPredecessors(ir)

\* An erased original is used by nothing that is left: its uses moved to its
\* phi, including those in clones and mutants of other instructions.
NoUseOfErased ==
  \A x \in DOMAIN ir.code :
    \A v \in Values(ir, x) \cap DOMAIN program.function.code : v \in DOMAIN ir.code

\* Between two mutate() calls no instruction, replacement included, uses a
\* value that is not computed on every path to it.
SSADominance == current = None => DefinitionsDominateUses(ir)

\* Each site's switch has one case for each mutation of that site and for no
\* other, the case leads to the block with the replacement the mutation
\* describes, and the phi takes that block's value.
SwitchesMatchMutations ==
  \A i \in DOMAIN instructionToSwitchMap :
    LET switch == ir.code[Switch(i)]
        ids    == {n \in DOMAIN mutations : mutations[n].original = i}
    IN  /\ ToSet(switch.cases) = ids
        /\ Len(switch.cases) = Cardinality(ids)
        /\ \A k \in DOMAIN switch.cases :
             LET n == switch.cases[k] IN
             /\ switch.to[k + 1] = Mutant(n)
             /\ Mutant(n) \in ToSet(ir.layout[switch.to[k + 1]])
             /\ IF mutations[n].operator = "LoadMutator"
                THEN ir.code[Mutant(n)].args = <<mutations[n].variant>>
                ELSE /\ ir.code[Mutant(n)].op = mutations[n].variant
                     /\ ir.code[Mutant(n)].args = ir.code[Clone(i)].args
        /\ ir.code[Phi(i)].in =
             {<<Mutant(n), Mutant(n)>> : n \in ids} \cup {<<Clone(i), Clone(i)>>}

\* The published row of an ID names the instruction whose switch has that ID,
\* so that the environment variable a user derives from the row selects it.
TableMatchesBitcode ==
  phase = "done" =>
    /\ \A n \in DOMAIN table :
         \E i \in DOMAIN instructionToSwitchMap :
           /\ table[n].id \in ToSet(ir.code[Switch(i)].cases)
           /\ table[n].instruction = program.id[i]
           /\ ir.code[GlobalLoad(i)].args = <<Global(table[n].instruction)>>
    /\ \A i \in DOMAIN instructionToSwitchMap :
         ToSet(ir.code[Switch(i)].cases) \subseteq {table[n].id : n \in DOMAIN table}

\* A row that names an opcode or a predicate names the one that the replacement
\* with the row's ID was built with; a row without one is of a load.
RowsDescribeReplacements ==
  \A n \in DOMAIN table :
    ir.code[Mutant(table[n].id)].op =
      IF table[n].replacement = None THEN "load" ELSE table[n].replacement

\* Every site is a diamond that meets again: its switch ends its block; the clone
\* and each mutant are alone with a jump to the block on the site's books, which
\* goes on with the phi on the books, however often the code around the site has
\* been split since.  A terminator has no such block.
SitesRejoin ==
  \A i \in DOMAIN instructionToSwitchMap :
    LET rest   == instructionToDestinationBlock[i]
        switch == instructionToSwitchMap[i]
    IN  /\ ir.layout[BlockOf(ir, switch)] # <<>>
        /\ Last(ir.layout[BlockOf(ir, switch)]) = switch
        /\ instructionToPhiMap[i] \in ToSet(ir.layout[rest])
        /\ ir.code[instructionToPhiMap[i]].op = "phi"
        /\ Head(ir.code[switch].to) = instructionToCloneBlock[i]
        /\ \A b \in ToSet(ir.code[switch].to) :
             Len(ir.layout[b]) = 2 /\ Succs(ir, b) = {rest}

\* The mutations injected are those of the program as it was given, each once:
\* neither the order of the set nor the blocks, loads and globals that earlier
\* mutations added change what a later one offers.
OrderIndependent ==
  phase = "table" =>
    LET source   == program.function
        env      == [args |-> program.args, globals |-> program.globals]
        expected == UNION {
          {<<i, c>> : c \in {d \in ToSet(CHOOSE l \in CandidateLists(source, env, i) : TRUE) :
                              ~ Skipped(source, source.code[i], d)}} :
          i \in {j \in DOMAIN program.id : isMutableFunction}}
    IN  /\ {<<mutations[n].original, mutations[n].variant>> : n \in DOMAIN mutations}
             = expected
        /\ Len(mutations) = Cardinality(expected)

\* main calls the loader before any instruction that could be switched, and
\* the loader has exactly one check for each site's global.
LoaderCoversSites ==
  phase # "construct" =>
    /\ program.name = "main" => ir.layout[ir.entry][1] = LoaderCall
    /\ ToSet(loader) = {program.id[i] : i \in DOMAIN instructionToSwitchMap}
    /\ Len(loader) = Cardinality(DOMAIN instructionToSwitchMap)

\* Every step of run() brings it closer to its end, so run() returns: visiting
\* an instruction never adds one to visit, and a mutator's loop never grows.
Rank == CASE phase = "construct" -> 5 [] phase = "collect" -> 4
          [] phase = "mutate" -> 3 [] phase = "table" -> 2
          [] phase = "bitcode" -> 1 [] phase = "done" -> 0

RunProgresses ==
  [][\/ Rank' < Rank
     \/ /\ Rank' = Rank
        /\ \/ Cardinality(instructions') < Cardinality(instructions)
           \/ /\ instructions' = instructions
              /\ \/ Len(pending') < Len(pending)
                 \/ pending' = pending /\ current # None /\ current' = None]_vars
===============================================================================
