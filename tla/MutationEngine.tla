---------------------------- MODULE MutationEngine ----------------------------
(***************************************************************************)
(* lib/MutationEngine.cpp: turns one function into a function that holds   *)
(* every mutant of it.  For each mutated instruction i the engine builds   *)
(*                                                                         *)
(*              ... ; g = load @mutant_of_i ; switch g                     *)
(*               /               |               \                        *)
(*        clone of i        mutant id1        mutant id2   ...             *)
(*               \               |               /                        *)
(*              phi ; what followed i                                      *)
(*                                                                         *)
(* and prepends to the loader function a check that copies the environment *)
(* variable of i into @mutant_of_i.                                        *)
(***************************************************************************)
EXTENDS Mutators

CONSTANT
  Programs,   \* the programs the engine may be given
  None        \* no instruction

\* What the engine is given: a verified function, whose entry block has no phi,
\* and IDs for instructions of that function.  Instructions and blocks of the
\* source program are <<"orig", name>>.
IsProgram(p) ==
  LET f == p.function IN
  /\ WellFormed(f, DOMAIN f.code) /\ Verified(f)
  /\ \A x \in DOMAIN f.code \cup DOMAIN f.layout : x[1] = "orig"
  /\ f.entry \in DOMAIN f.layout /\ f.layout[f.entry] # <<>>
  /\ f.code[f.layout[f.entry][1]].op # "phi"
  /\ DOMAIN p.id \subseteq DOMAIN f.code
  /\ None \notin DOMAIN f.code

ASSUME ProgramsAssumption == \A p \in Programs : IsProgram(p)

\* A module has finitely many instructions, arguments and globals.
ASSUME FiniteAssumption ==
  \A p \in Programs :
    \A names \in {DOMAIN p.function.code, DOMAIN p.args, DOMAIN p.globals} : IsFiniteSet(names)

ASSUME NoneAssumption == None \notin Opcodes

VARIABLES
  program,    \* the module as it was before the engine touched it
  ir,         \* the module: one function of it, main or another
  loader,     \* the checks of the loader function, in the order they run
  globals,    \* the global variables the engine has added, with their types
  current,    \* the instruction mutate() is working on, or None
  pending,    \* the candidates its mutator has yet to look at
  nextMutantId,
  mutations,
  instructionToClone,
  instructionToSwitchMap,
  instructionToPhiMap,
  instructionToDestinationBlock,
  instructionToCloneBlock,
  table       \* the rows of the mutation table

maps == << instructionToClone, instructionToSwitchMap, instructionToPhiMap,
           instructionToDestinationBlock, instructionToCloneBlock >>

engineVars == << program, ir, loader, globals, current, pending, nextMutantId,
                 mutations, maps, table >>

\* The instructions and blocks the engine creates, named for what they serve.
LoaderFunction == <<"fn", "__llvm_mutate_load_mutations__">>

LoaderCall    == <<"call", LoaderFunction>>
GlobalLoad(i) == <<"load", i>>
Switch(i)     == <<"switch", i>>
SplitBr(i)    == <<"splitbr", i>>
Phi(i)        == <<"phi", i>>
Rest(i)       == <<"rest", i>>
Clone(i)      == <<"clone", i>>
CloneBr(i)    == <<"clonebr", i>>
Mutant(id)    == <<"mutant", id>>
MutantBr(id)  == <<"mutantbr", id>>

\* sourceMapping->get(i)->getID(): looking up an instruction that is not mapped
\* inserts it with ID 0.
SourceID(i) == IF i \in DOMAIN program.id THEN program.id[i] ELSE 0

\* __llvmrepair_instruction_mutant_<ID>__, of type i64.
Global(id) == <<"global", id>>

hasBeenMutated(i) == i \in DOMAIN instructionToSwitchMap

EngineInit ==
  /\ program \in Programs
  /\ ir = program.function
  /\ loader = <<>> /\ globals = <<>>
  /\ current = None /\ pending = <<>>
  /\ nextMutantId = 1 /\ mutations = <<>>
  /\ instructionToClone = <<>> /\ instructionToSwitchMap = <<>>
  /\ instructionToPhiMap = <<>> /\ instructionToDestinationBlock = <<>>
  /\ instructionToCloneBlock = <<>>
  /\ table = <<>>

\* Mutant: the call goes to the end of main's entry block.
prepareAtEnd ==
  /\ ir' = IF program.name = "main"
           THEN InsertBefore(ir, Last(ir.layout[ir.entry]), LoaderCall,
                             Ins("call", "void", <<LoaderFunction>>))
           ELSE ir
  /\ UNCHANGED << program, loader, globals, current, pending, nextMutantId,
                  mutations, maps, table >>

\* The constructor calls prepare(): main calls the (still empty) loader first.
prepare ==
  /\ ir' = IF program.name = "main"
           THEN InsertBefore(ir, FirstNonPHI(ir, ir.entry), LoaderCall,
                             Ins("call", "void", <<LoaderFunction>>))
           ELSE ir
  /\ UNCHANGED << program, loader, globals, current, pending, nextMutantId,
                  mutations, maps, table >>

-------------------------------------------------------------------------------
(* prepareInstruction, as the sequence of edits it makes to the function.  *)

\* The clone's block.  Its jump is created later in the code, once the block it
\* targets exists; nothing in between looks at it.
WithClone(f, i) ==
  LET b == Clone(i)
  IN  PushBack(PushBack(AddBlock(f, b), b, Clone(i), f.code[i]),
               b, CloneBr(i), Jump(Rest(i)))

\* The load of the global and the switch go right before the instruction.
WithSwitch(f, i) ==
  InsertBefore(
    InsertBefore(f, i, GlobalLoad(i), Ins("load", "i64", <<Global(SourceID(i))>>)),
    i, Switch(i),
    [Ins("switch", "void", <<GlobalLoad(i)>>) EXCEPT !.to = <<Clone(i)>>])

\* Mutant: the jump that splitBasicBlock adds stays.
WithRestKeepingJump(f, i) == SplitBlock(f, i, Rest(i), SplitBr(i))

\* The switch ends its block: split there and drop the jump the split created.
WithRest(f, i) ==
  PopBack(SplitBlock(f, i, Rest(i), SplitBr(i)), BlockOf(f, i))

\* Mutant: the uses stay with the original.
WithPhiUnused(f, i) ==
  InsertBefore(f, i, Phi(i),
    [Ins("phi", f.code[i].ty, <<>>) EXCEPT !.in = {<<Clone(i), Clone(i)>>}])

\* Mutant: the uses go to the clone instead of the phi.
WithClonedUses(f, i) ==
  LET phi == [Ins("phi", f.code[i].ty, <<>>) EXCEPT !.in = {<<Clone(i), Clone(i)>>}]
  IN  ReplaceAllUses(InsertBefore(f, i, Phi(i), phi), i, Clone(i))

\* The phi takes over every use of the instruction.
WithPhi(f, i) ==
  LET phi == [Ins("phi", f.code[i].ty, <<>>) EXCEPT !.in = {<<Clone(i), Clone(i)>>}]
  IN  ReplaceAllUses(InsertBefore(f, i, Phi(i), phi), i, Phi(i))

PreparedIR(f, i) == WithPhi(WithRest(WithSwitch(WithClone(f, i), i), i), i)

\* An entry that is there stays (emplace; getOrInsertGlobal).
Emplace(m, k, v) == IF k \in DOMAIN m THEN m ELSE Put(m, k, v)

prepareInstruction(i) ==
  /\ loader'  = <<SourceID(i)>> \o loader
  /\ globals' = Emplace(globals, Global(SourceID(i)), "i64*")
  /\ instructionToClone'            = Emplace(instructionToClone, i, Clone(i))
  /\ instructionToSwitchMap'        = Emplace(instructionToSwitchMap, i, Switch(i))
  /\ instructionToPhiMap'           = Emplace(instructionToPhiMap, i, Phi(i))
  /\ instructionToDestinationBlock' = Emplace(instructionToDestinationBlock, i, Rest(i))
  /\ instructionToCloneBlock'       = Emplace(instructionToCloneBlock, i, Clone(i))

\* Mutation::inject of the three mutators: the replacement, its value into the
\* phi, and a jump to the rest.
InjectReplacement(f, i, candidate, block, rest, phi) ==
  LET id == block[2]
  IN  PushBack(
        AddIncoming(
          PushBack(f, block, Mutant(id), Replacement(f.code[i], candidate)),
          phi, Mutant(id), block),
        block, MutantBr(id), Jump(rest))

Mutation(i, candidate) ==
  [original |-> i, variant |-> candidate, operator |-> MutatorFor(ir.code[i].op)]

\* inject: the site is prepared for the first mutation; each gets the next ID
\* and a case of the site's switch.
inject(i, candidate) ==
  /\ IF hasBeenMutated(i) THEN UNCHANGED << loader, globals, maps >>
                          ELSE prepareInstruction(i)
  /\ nextMutantId' = nextMutantId + 1
  /\ mutations' = Append(mutations, Mutation(i, candidate))
  /\ LET f     == IF hasBeenMutated(i) THEN ir ELSE PreparedIR(ir, i)
         block == Mutant(nextMutantId)
     IN  ir' = InjectReplacement(
                 AddCase(AddBlock(f, block),
                         instructionToSwitchMap'[i], nextMutantId, block),
                 i, candidate, block,
                 instructionToDestinationBlock'[i], instructionToPhiMap'[i])

-------------------------------------------------------------------------------
(* mutate(instruction), one step for each turn of the mutator's loop.      *)

\* What findReachingValues sees outside the function's body.
Environment ==
  [args    |-> program.args,
   globals |-> [g \in DOMAIN program.globals \cup DOMAIN globals |->
                  IF g \in DOMAIN program.globals THEN program.globals[g] ELSE globals[g]]]

\* An instruction that has been mutated is ignored.
BeginMutate(i) ==
  /\ current = None
  /\ ~ hasBeenMutated(i)
  /\ current' = i
  /\ pending' \in CandidateLists(ir, Environment, i)
  /\ UNCHANGED << program, ir, loader, globals, nextMutantId, mutations, maps,
                  table >>

SkipCandidate ==
  /\ pending # <<>>
  /\ Skipped(ir, ir.code[current], Head(pending))
  /\ pending' = Tail(pending)
  /\ UNCHANGED << program, ir, loader, globals, current, nextMutantId,
                  mutations, maps, table >>

InjectCandidate ==
  /\ pending # <<>>
  /\ ~ Skipped(ir, ir.code[current], Head(pending))
  /\ inject(current, Head(pending))
  /\ pending' = Tail(pending)
  /\ UNCHANGED << program, current, table >>

\* The original goes, unless no mutation was applied to it.
EndMutate ==
  /\ current # None
  /\ pending = <<>>
  /\ ir' = IF hasBeenMutated(current) THEN Erase(ir, current) ELSE ir
  /\ current' = None
  /\ UNCHANGED << program, loader, globals, pending, nextMutantId, mutations,
                  maps, table >>

\* Mutant: the row has the opcode of the original.
toJSONOfOriginal(id, mutation) ==
  [id |-> id, instruction |-> SourceID(mutation.original), operator |-> mutation.operator,
   replacement |-> IF mutation.operator = "LoadMutator" THEN None
                   ELSE program.function.code[mutation.original].op]

\* A row has the opcode or the predicate of the replacement; LoadMutator does not
\* say which pointer it loads from.
toJSON(id, mutation) ==
  [id |-> id, instruction |-> SourceID(mutation.original), operator |-> mutation.operator,
   replacement |-> IF mutation.operator = "LoadMutator" THEN None ELSE mutation.variant]

\* Mutant: the counter is incremented after the row is written.
writeMutationTableFromZero ==
  /\ table' = [n \in 1 .. Len(mutations) |-> toJSON(n - 1, mutations[n])]
  /\ UNCHANGED << program, ir, loader, globals, current, pending, nextMutantId,
                  mutations, maps >>

\* The table numbers the mutations afresh, by their place in the list; the
\* originals it looks up by address have been erased by now.
writeMutationTable ==
  /\ table' = [n \in 1 .. Len(mutations) |-> toJSON(n, mutations[n])]
  /\ UNCHANGED << program, ir, loader, globals, current, pending, nextMutantId,
                  mutations, maps >>
===============================================================================
