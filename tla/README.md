# A model of llvm-supermutate

llvm-supermutate is an LLVM pass that turns a program into a *supermutant*: one
program that holds every mutant of the original. Each mutated instruction
becomes a switch over a global variable, and the globals are set from the
environment when the program starts. This directory holds TLA+ modules that
model the pass, the program it produces and the scripts that install it, the
TLC configurations that check them, and proofs that TLAPS checks.

## 1. Inventory

| component | state | operations | what makes it correct |
|---|---|---|---|
| Mutation engine (`lib/MutationEngine.cpp`) | the LLVM module, the loader function, `nextMutantId`, `mutations`, five maps keyed by the original instruction | constructor/`prepare`, `mutate`, `inject`, `prepareInstruction`, `prepareInstructionLoader`, `writeMutationTable`, `writeMutatedBitcode` | the edited function stays valid IR after every mutation, in any order; each switch has exactly its site's mutants; the IDs of the table are the IDs of the switches |
| Mutators (`lib/Mutators/`) | none | `mutate` of three mutators, `Mutation::inject` | an instruction is taken by one mutator; an opcode or a predicate is never replaced by itself (of a load's candidates, its own pointer is not left out); the values it is given reach it |
| Supermutator and filters (`lib/Supermutator.cpp`, `InstructionFilters/`) | the set of collected instructions | constructor, `isMutable`, `run` | what is mutated does not depend on the order of the set; instrumentation is not mutated; `run` ends |
| Reaching values (`lib/Utils.cpp`) | a worklist and a result set | `transitivePredecessors`, `findReachingValues`, `...WithType` | the search ends on cyclic graphs and finds exactly the transitive predecessors |
| The supermutant at run time (generated by `lib/MutationEngine.cpp`) | globals, environment, registers, memory | loader checks, switches, phis | a run is a run of the mutant that the table says the environment chooses |
| Source mapping (`lib/Mapping/`) | vectors of files, functions, instructions, values, variables and maps to their positions | `build`, `get`, `getOrCreate`, `save` | IDs are positions, dense and unique; a lookup finds what was mapped |
| Configuration and passes (`lib/SupermutatorConfig.cpp`, `src/passes/`) | the restrictions, the output files | `load`, `build`, `runOnModule` of two passes | the three output files belong to one run |
| Image-to-volume script (`docker/image_to_volume`) | a Docker image, a volume with a label, the variables of the script | inspect, compare, remove, create, populate | a volume with the label of an image holds that image's files |
| Installation (`docker/Makefile`, `docker/install`, `docker/llvmsupermutate`, `example/run.sh`) | two images, one of which holds a copy of the other, two volumes, the user's container | build, install, start a container, check its mounts | a command that succeeds has installed the latest images, and the plugin matches the LLVM that loads it |
| JSON and logging (`Mutation.cpp`, `toJSON`) | none | rows of the two JSON files; debug output | a row says what the replacement is; only the fields are modelled |
| Compiler image, CMake files, the other example scripts | none | fixed command sequences | not modelled |

How they interact: the pass loads the configuration and builds a `Supermutator`,
whose constructor builds the source mapping of the untouched module and then
the engine, which inserts the loader and its call. The configuration registers
the mutators, which hold a reference to the engine. `run` collects the
instructions that the filters pass and calls `mutate` of the engine for each;
`mutate` calls every mutator; a mutator calls back `inject` of the engine once
for each replacement; `inject` calls the mutation's own `inject` to build it.
All communicate through the module that is being edited: the block a mutator
searches may be one that an earlier call of the engine made. `run` then writes
the table and the bitcode. The program made from the bitcode meets the engine's
work through the environment and the globals.

What is hard here is *order*, not threads. The instructions come out of an
`unordered_set` of addresses; every mutation splits a block, moves uses and
phis, adds loads and globals, and erases an instruction whose address the maps,
the mutations and the source mapping keep. The loader function is built back to
front, each check spliced before the others. The install scripts are the one
place with real concurrency and crashes. `PROJECT.json` lists the hazards line by
line, with the properties that cover each.

## 2. Modules

| module | models | how |
|---|---|---|
| `IR` | the part of the LLVM API that the engine edits through | a function is a record of `layout` (block to instruction names) and `code` (name to instruction); edits are operators on it; the verifier's rules are predicates |
| `ReachingValues` | `lib/Utils.cpp` | the results of the two searches as operators |
| `PredecessorSearch` | `transitivePredecessors` | its loop, one step per turn |
| `Mutators` | `lib/Mutators/` | the candidate lists, the `continue`s and the replacements |
| `MutationEngine` | `lib/MutationEngine.cpp` | the engine's members as variables; `prepareInstruction` as the composition of its four edits |
| `Supermutator` | `lib/Supermutator.cpp`, filters | extends `MutationEngine`; `run()` as phases; the visit of the set is `\E i \in instructions` |
| `LoaderChecks` | what the loader function promises | the abstract specification: a list of checks made in order |
| `LoaderFunction` | `prepare` and `prepareInstructionLoader` | the loader function as IR, built by the edits of `IR` and run by `Interpreter`; `ImplementsLoaderChecks` instantiates `LoaderChecks` |
| `Interpreter` | LLVM IR when it runs | executes one instruction, values are terms |
| `MutantRun` | what the table promises | the abstract specification: a run of the source program with the chosen instructions replaced |
| `SupermutantRun` | making the supermutant and running it | extends `Supermutator`; `ImplementsMutantRun` is `M!Spec` for `M == INSTANCE MutantRun WITH` the refinement mapping |
| `StaticConstructors` | code that runs before `main` | adds one action to `SupermutantRun` |
| `ImageToVolume` | `docker/image_to_volume` | one action per docker command, any number of runs of the script |
| `Installation` | `docker/Makefile`, `docker/install`, `docker/llvmsupermutate` | two instances of `ImageToVolume`, one per volume, run in sequence by commands that may stop anywhere and be repeated |
| `Registry` | what the mapping promises | the abstract specification: things that get the next number when they are first met |
| `SourceMapping` | `lib/Mapping/`, and where `Supermutator` and the table use it | five tables, each a vector of Infos and a map to positions; `build` registers one thing at a time from what the function or instruction at hand has queued (`todo`); then `save` with the rows of `toJSON`, the collection of instructions, with the functions the configuration lists (`IsListed`) and the filters (`PassesFilters`), and the rows of the mutation table; a source file may disappear at any point (`gone`). `ImplementsRegistry` instantiates `Registry` once for each table |
| `Pipeline` | the two passes under opt, `SupermutatorConfig::load`, `docker/llvmsupermutate` | a directory with three files, a sequence of commands that may fail or be killed between any two steps; the module is the list of passes that have changed it |
| `MC*` | instances for TLC | `MCPrograms` holds the programs |
| `*_proofs` | theorems | see section 5 |

Composition: `IR` <- `ReachingValues` <- `Mutators` <- `MutationEngine` <-
`Supermutator` <- `SupermutantRun` <- `StaticConstructors`, each by EXTENDS, as
the code includes one another; `PredecessorSearch` instantiates
`ReachingValues` and its proofs show that the loop of `PredecessorSearch` computes the
operator that the mutators' model uses. `LoaderFunction` stands to `loader`, the
sequence of checks of `MutationEngine` and `SupermutantRun`, as the IR does to
what it does when it is run. `Installation` composes two `ImageToVolume`s that
share the commands: `make install` number m is run m of both, the second of which
begins when the first has exited with 0 (`set -e`).

### State and code

Instructions and blocks of the source program are `<<"orig", name>>`. Those the
engine makes are named for what they serve: `Switch(i)` is the switch of site
`i`, `Mutant(n)` both the block and the replacement of mutation `n`. A pointer
of the code is such a name, so an erased instruction's name stays usable as a
key of a map, as its address does in the code, and is an error as an operand.
`mutate(i)` is `Begin(i)`, then one `Skip` or `Inject` for each turn of the
mutator's loop, then `End`: the steps between which the code's state is of
interest, since every turn changes the module that the next one reads. The
candidates of a load come from a `std::set` of addresses; `CandidateLists` has
every order of them. `prepareInstruction` is `PreparedIR`, the composition of
its edits in the order of the code, except that the clone's jump is created
with the clone.

`IntOpcodes` and the other tables are those of the code, in its order. The
operators marked *Mutant* in a module are faulty variants of the definition
that follows them. They are in no specification: each is there to be put in the
place of the definition, to see that the property it is listed with in
`PROJECT.json` fails, that is, that the property can be broken by the code.

## 3. Runs

Passing:

- **supermutator** (`MCSupermutator.cfg`, 14 thousand states). The programs:
  `Straight` (one block, several sites, each using another: the splits nest),
  `Diamond` (a phi over a mutated value), `Loop` (a block that is its own
  predecessor, whose phi is over a value of its own), `Nest` (a loop of three
  blocks around a branch, with phis over phis and a configuration that lists its
  file and an empty list of functions), `GlobalLoads` (a load of a global, with an
  alloca in scope), and `Straight` under a configuration that
  restricts mutation to another function. All orders of the
  set, all orders of a load's candidates. `ControlFlowWellFormed` and
  `NoUseOfErased` hold at *every* step, `SSADominance` between calls of
  `mutate`. `OrderIndependent` compares the mutations at the end with those
  that the untouched program offers. `TableMatchesBitcode`,
  `RowsDescribeReplacements`, `SwitchesMatchMutations` and `LoaderCoversSites`
  relate table, list, switches and loader. `SitesRejoin` says that every site
  still is a diamond that meets at its phi, however often the code around it has
  been split. `RunProgresses` gives the variant of `run()`'s loops.
- **predecessor_search** (39 thousand states). Every graph of three blocks where
  a block has at most two incoming edges, equal ones included: self-loops,
  double edges, cycles, unreachable blocks. `EveryStepIsProgress` gives the
  measure that shrinks with each step, `Returns` that the search ends.
- **supermutant_run** (240 thousand states). Supermutants of four programs, made
  in every order and run under every environment that sets at most two
  variables, each to an ID of its own site, of another site, to zero or to no
  number. `ImplementsMutantRun` is the central promise of the tool.
- **source_mapping** (511 thousand states). Modules of at most three functions of
  six kinds: declarations, bodies that are for the linker, functions without
  debug information, functions in two DIFiles of one path and in a file that
  does not exist, or that disappears while the pass runs; among their instructions
  an indirect call and a call of the loader that an earlier run has left. The
  configuration lists no functions, a name that no function has, or the first and
  the third. `VectorsMatchMaps`
  (positions are numbers, both ways, and what an Info refers to is in the other
  table at the number it gives), `RowsResolve` (the number of a row leads to its
  instruction, line, function and path in the file that was saved),
  `CollectsMutable` (the two copies of the tests agree: of the functions that are
  mapped and listed everything is collected but indirect calls and calls of the
  loader, and nothing else is), `ThrowsEarly` (a path
  that cannot be resolved ends the run before anything is written, except in two
  cases it names), and `ImplementsRegistry`.
- **loader_function** (18 thousand states). The loader function with up to four
  checks for two instructions, so that an ID may have two, and a second `prepare()`
  at any point; run under every environment. `LoaderIsValid` at every step of the
  construction, `ImplementsLoaderChecks` (it does what `MutationEngine` and
  `SupermutantRun` take it for) and `LoaderReturns` (liveness).
- **pipeline** (37 thousand states). Three commands in one directory, with the
  script and without, each with one of nine lists of passes and one of six
  faults, files that cannot be opened, kills. `ReturnedMeansWritten` and
  `BitcodeHasItsTable` say which files belong together, and name the exceptions
  the code makes: `llvmtosource` after `supermutate` numbers another module in
  the same file, an optimisation after it leaves `supermutant.bc` torn, and with
  opt's -O2, where the pass runs twice, a kill between the two leaves one's table
  beside the other's bitcode. `NeverAhead` is what is left without the script.
- **image_to_volume** (25 thousand states up to symmetry). Three runs, three
  images.
- **installation** (2.1 million states). Three commands one after the other, each
  `make install` or `./install`, with builds that make a new image or find the old
  one, failures and kills at every step, and containers that start and end in
  between. `InstalledIsLatest` and `PluginMatchesLLVM` say what success means,
  whatever earlier commands left behind: a volume that was in use when it was to be
  removed, or one left empty by a run that was killed in it, are the exceptions.
  `VolumesAreImageToVolume` is the refinement by which the theorems about
  `ImageToVolume` hold of both volumes.

Violations, each a disagreement between the code and what a comment says of it
(`findings` in `PROJECT.json` quotes them): **scoped_alloca** (a load below a
branch may be given an alloca of one arm), **second_run** (a supermutant's own loads of mutant IDs are mutated),
**static_constructors** (the loader runs too late for them),
**image_to_volume_killed** (the label outlives a run that never populated the
volume).

Three more comments disagree with the code as the modules have it, with less
at stake, and no run is spent on them: the mutator of
loads skips globals (`LoadMutator.cpp:20` allows them; `Skipped` in `Mutators`), `build`
registers the slots of operands rather than the operands, in a table that nothing
reads (`LLVMToSourceMapping.cpp:332`), and the check of the mounts
(`docker/llvmsupermutate:12`) accepts a volume that Docker has just created or
that was never populated (`Use` in `Installation`).

## 4. Bounds and fairness

- A program has at most thirteen instructions and five blocks. Every pair of sites
  that can interact (same block, predecessor and successor, a phi over a site,
  a site that is its own block's predecessor) is in one of them; a third site
  meets what two leave behind, which `Straight` has.
- Programs prefer floating-point and comparison sites to integer ones: the
  table of 13 integer opcodes is walked by the same loop.
- `MaxVariables` = 2: two sites chosen at once is the least number at which
  choices could disturb each other. `MaxOut` = 4: a run is abandoned after four
  observable events, which is twice round `Loop`.
- Three functions in `SourceMapping`: a skipped one between two that share a
  file is the least in which a number could be shifted or given twice, and one
  that is not listed between two that are the least in which the loop over the
  functions could stop too early.
- `MaxRuns` = 3 in `Pipeline`: files of three commands may lie side by side, and
  there are three files. Faults are one to a command: the first to bite ends it.
- `MaxImage` = 3 and three runs: a run between two others, with an image of its
  own. In `Installation`, `MaxMakes` = 3 and `MaxImage` = 2: one command installs,
  one stops half-way through replacing what it installed, one repairs it.
- `MaxChecks` = 4 and two IDs in `LoaderFunction`: a check that is first, last,
  between two others, or repeated; the construction looks only at the entry block.
- Fairness: `PredecessorSearch` has weak fairness on the loop, which is one
  thread and never blocked. `Supermutator` needs none: that `run()` ends is
  stated as the decrease of a variant at each step (`RunProgresses`), which
  says more than a liveness property. `LoaderFunction` has weak fairness
  on the steps of the process that has called the loader: it waits for nothing.
  `ImageToVolume` and `Installation` have only safety properties: nothing obliges
  a killed script to end.
- `MCImageToVolume.cfg`, `MCInstallation.cfg` and `MCLoaderFunction.cfg` turn the
  deadlock check off, because all commands, or the loader, may have ended; the other specifications stutter explicitly at their
  end (`Returned`, `Return`, `Exit`), so any other stop would be reported.

## 5. Proofs

TLAPS proves the following for every value of the constants: every set of
verified programs, every graph of blocks, every module that is mapped, every
number of commands and of runs of the script.

**`IR_proofs`**, lemmas about the edits: each says which blocks and instructions
a function has afterwards and what became of them (`SplitBlockIs`,
`InsertBeforeIs`, `PushBackIs`, `EraseIs`, `ReplaceAllUsesIs`, ...), and
`EditKeeps` what the edits of one step leave as it was.

**`Supermutator_proofs`**. `PreparedIs` puts the edits of `prepareInstruction`
together, for any well-formed function that has none of the blocks that are
about to be made; `InjectedIs` does so for `inject`. `Invariance` is `Spec => []IInv`; from it
`TypeCorrect` (`[]TypeOK`) and `TableIsRight` (`[]TableMatchesBitcode`).
Neither property is inductive. That a row's instruction has a switch with the
row's case is kept by the next call of `mutate` only if that call adds its
blocks under names that are free, if the jump it erases is the one its own
split made, and if the operands that it rewrites are those of other
instructions; that the alloca of a load's mutant is the program's own holds
because the search meets no alloca but those. `IInv` names these facts:
`ProgramInv` (the program is verified), `FunctionInv` (each instruction has one
place; sites that are done have their switch, sites to come have their
instruction and free names), `VisitInv` and `PendingInv` (what the loop of
`mutate` holds), `MutationsInv`, `MapsInv` and `TableInv`. The proof has one
lemma for each action.

The second part of `Supermutator_proofs` is about the function that is left. `FlowInvariance` is
`Spec => [](IInv /\ FlowInv)`; six properties of the run **supermutator** follow
from it: `ControlFlowIsWellFormed`, `ErasedIsUnused`, `SwitchesAreRight`,
`RowsAreRight`, `SitesMeetAgain` and `LoaderIsComplete`. `FlowInv` says of the
function, at every step and for the sites and mutations so far: it satisfies the
verifier's rules (`Verified`: one terminator, at the end; targets that are
blocks; phis first, with one value for each predecessor); it has the program's
instructions and what was made for the sites, under their names (`NamesInv`); no
value of a site is used (`UsesInv`); each site is a diamond (`SiteInv`); and each
mutation is alone in its block (`MutantInv`). None of the six properties is
inductive without the others. That the phis of a block match its predecessors
after a split, for instance, needs that no branch goes to the second half but the
one that the engine adds, and so that the names are free; that a later split
leaves an earlier diamond whole needs that what is split at is a source
instruction and no part of a diamond. The proof follows `PreparedIR` edit by edit,
each with what it does to the successors, the predecessors and the phis.

The last part is about what the mutators are offered: `OrderDoesNotMatter`
(`[]OrderIndependent`) and `RunGetsOn` (`RunProgresses`). `WorkInvariance` is
`Spec => [](IInv /\ FlowInv /\ AgreesInv /\ WorkInv)`.

- `AgreesInv`: an instruction of the program that is still there has the opcode,
  the type and, among the instructions that are left, the predecessors it had. A
  load's candidates are found by a search through the instructions before it and
  the blocks that lead to its block, in the function as it is when the load is
  visited; by then blocks may have been split, blocks, loads and phis added and
  instructions erased. `EarlierSplit`, `GrownOrder`, `ErasedOrder` and
  `CallingOrder` say, for the four kinds of edit, that of two instructions one comes before the
  other in the new function exactly if it did in the old one: a split puts a chain of blocks
  in the place of one (`ChainLeads`), a mutant's block is a detour
  (`DetourLeads`). Nothing that the engine adds is an `alloca`, and a load skips
  what is none; hence `OfferedIs`, that what is offered and not skipped has not changed.
- `WorkInv`: a list has no candidate twice (`ListInv`); each mutation is one that
  the program offers, is there once, and is of an instruction that is no longer in the set
  (`DoneInv`); a candidate of the current instruction is on the list or done
  (`CurrentInv`), one of an instruction that has left the set is done
  (`VisitedInv`). `OrderIndependent` is none of these but what they say when the
  set is empty; that the two counts agree is `DoneInv`, through `CountOfDistinct`.
- `RunProgresses` needs of them that the set of instructions is finite
  (`FunctionIsFinite`) and that what is on a list is one. Together with
  the absence of a deadlock, which TLC checks, it says that `run()` ends.

**`SupermutantRun_proofs`** proves the tool's central promise, for every set of
runnable programs, every order of mutation, every environment and every path:
`RunRefines` (`RunSpec => ImplementsMutantRun`), and `LoaderIsFirst`
(`[]LoaderRunsFirst`). The argument has three parts.

- *What became of the source.* `CorrespondsInv`, kept by each edit of the engine:
  an instruction that is still there is the source's with the phis of the
  sites for the sites, and so is the clone of one that is not (`CodeInv`); what came
  next in a block comes next, through the diamond of a site (`OrderInv`); a block
  begins as it did, or, in `main`, with the call of the loader (`HeadInv`). With
  `IInv` and `FlowInv` it is `SInv`, inductive under `Next` (`StepSame`).
- *Where a run is.* `RunsWell`: the machine is at an instruction of the source, or
  in the diamond of one, with the value of its global in the load and, past it, in
  the branch that value selects (`Doing`); every site that precedes that
  instruction on all paths has its phi's value (`Ready`); no value but the
  engine's own is the address of a global of the engine (`RegsInv`, `MemInv`), so
  that no store of the program changes a choice. That an operand is there
  when it is used is the dominance of the *source*, carried along the edges: a
  site that precedes the target of an edge precedes the end of its origin.
  This needs what `ReachableAvoiding` computes, which `IR_proofs` shows to be
  the least closed set of blocks (`ReachableAvoidingIs`): `Closure` is a
  recursive function on the finite sets of blocks, `GrowExists` exhibits one
  such function and `GrowIs` shows by a minimal counterexample that there is no
  other. `StepDoes` is the simulation, one lemma for each kind of instruction.
- *What the globals hold.* `EnvInv`: while the loader runs, a global is zero
  or, once its check has been made, what the environment says; then
  `ChosenMutantIs`: the globals select what the rows of the table promise.

It rests, besides the assumptions below, on `RunnableAssumption`: the source
program's definitions dominate its uses, and its instructions have the operands
of their opcodes (both are LLVM's verifier's); its blocks are finitely many; its
values are instructions, arguments, variables, functions or constants, none of
which is a global that the engine has yet to make; and no two instructions
have the same ID, which is what `VectorsMatchMaps` of `SourceMapping` says of a
mapping that was made for the module. It does not need the mutants to be dominated
by the allocas they read (`SSADominance`): the address of an alloca is a term that
depends on nothing computed.

These proofs rest on `ProgramsAssumption`: a program is one that LLVM's verifier
accepts (what `opt` checks before the pass runs), its names are the source
program's, and the source mapping numbers its instructions; and on
`NoneAssumption`, that the mark for a missing opcode is none. What is proved of the
candidates also rests on `FiniteAssumption`: a module has finitely many
instructions, arguments and globals. TLC evaluates all three for the programs of the runs.

**`PredecessorSearch_proofs`**: `TypeCorrect`; the loop has found all transitive
predecessors when it ends, and nothing else (`Complete`, `Correct`), for any
graph. The invariant says that whatever has been seen and not expanded is on
the worklist. For a finite graph, `Progress`: each step takes exactly one from
`WorkLeft`, the entries that wait and the edges that have yet to be pushed, so
that the search takes as many steps as that; and, from it, `Bounded`. And
`SameAsOperator` (`[]SameAsReachingValues`): on any finite graph the search returns
what the recursive operator of `ReachingValues`, with which the mutators are
modelled, does. Both are the least closed set, the operator by the lemmas on
`Least` in `IR_proofs`, which unfold a recursive function along the finite subsets
of the blocks.

**`Pipeline_proofs`**: `TypeCorrect`, and `FilesInOrder` (`[]NeverAhead`), for
any number of commands and any lists of passes. The invariant adds where in the
code which file has been written (`WrittenBefore`, `SupermutatedBefore`).
`FitInvariance` adds how the files are related to the module that opt has:
`Making`, while the command supermutates, which files are of the module it
mutates; `Together`, from then on, that the bitcode, the table and the mapping are
of the same list of passes, but for what the passes since have done. From
it `FilesFit` (`[]ReturnedMeansWritten`) and `NoStrayBitcode`
(`[]BitcodeHasItsTable`); the sizes of modules are compared by counting passes.

**`SourceMapping_proofs`**, for any modules, of any number of functions, and
whichever files come and go: `TypeCorrect`, `TablesAreRight`
(`[]VectorsMatchMaps`), `RowsLeadBack` (`[]RowsResolve`), `CollectsTheMutable`
(`[]CollectsMutable`, for any restriction to files and any list of functions),
`ThrowsBeforeWriting`, and the refinement `TablesAreRegistries`
(`Spec => ImplementsRegistry`). The invariant has, besides the tables
(`TablesInv`), what may be waiting in the queue and in which order (`QueueInv`):
that a function's file is registered before the function, and an instruction
before its variable, is why an Info's reference to another table is right. It
says how far the mapping has been built, as a function of the place in the module
(`BuiltInv`): that nothing comes up twice, that a variable belongs to the first
function that declares it, and that everything which is collected has a number
follow from it; and which paths have been looked up (`PathsInv`), on which
`ThrowsEarly` rests. It rests on `ModulesAssumption` (a module is
made of sequences, and of files that have paths), `PathOfAssumption`, and
`SavedAssumption` (the marks for a missing and a truncated file are no
content).

**`ImageToVolume_proofs`**: `TypeCorrect`; `NeverOlder`, that a volume's content
is never older than its label says, however many runs overlap or are killed;
`EmptyIsInProgress`, that a labelled volume without content has a run about to
fill it unless a run was killed or failed; and `InUseIsKept`, that no step
changes a populated volume that is in use. The invariant adds what each run's
variables say of the image at the time it read them (`HoldsImage`, `FromPast`).
It rests on `EmptyAssumption`: the mark of an empty volume is no image.

**`Installation_proofs`**, for any number of commands and of images: the
refinement `VolumesAreThoseOfTheScript` (`Spec => VolumesAreImageToVolume`),
`TypeCorrect`, `LatestIsInstalled` (`[]InstalledIsLatest`) and
`PluginIsOfItsLLVM` (`[]PluginMatchesLLVM`). The refinement comes first: with it
the invariant and the theorems of `ImageToVolume_proofs` hold of both volumes,
through two instances of that module, and are not proved again. What is added:
a command's scripts run one after the other, and no command begins before those
before it have ended (`OrderInv`); what the last command has read of an image is
still true, and what it has done to a volume is still there unless a
container refused (`LastInv`); the LLVM image that is there when it installs is the
one that was copied (`CopiedInv`). `InstalledIsLatest` alone is not inductive: it
says nothing of a command between its `create` and its `run`. It rests on
`MaxMakesAssumption`, `MaxImageAssumption`, and on `MarksAssumption` and
`NoVolumeAssumption`: the marks for no content, no label and no volume are none.

Model-checked only:

- `SSADominance`: of the function that is left it is true only if the allocas are in
  the entry block (see the run **scoped_alloca**), and the reachability of the
  changed graph would have to be related to the source's at each edit;
  `RunRefines` does without it.
- `LoaderIsValid` (its third part is reachability in the loader, a recursive
  search over a graph that grows) and `ImplementsLoaderChecks`, a refinement that
  has to relate the number of steps in a block to one check.
- `Returns`, `LoaderReturns`: liveness under fairness is out of the
  prover's reach, as is `ENABLED`.

## 6. What is left out of the models

- Commands that run at the same time in one directory, which nothing in the code
  guards against: `Pipeline` has them one after the other. A module that only
  declares `main`, whose entry block the constructor takes all the same
  (undefined behaviour), counts as one without.
- One function of the module is modelled; functions share the loader, the
  counter and the globals, which the model has. Two modelled functions would
  differ from one with two unconnected parts in nothing the engine looks at.
- Constant folding: `IRBuilder` folds an operation on two constants, which
  clang would have folded before.
- Flags (`nsw`, fast-math), alignment and volatility, debug locations, names.
- Commands of `Installation` that overlap: docker builds of two `make`s would race
  for the tags, which nothing in the scripts guards against. Overlapping runs of
  image_to_volume are in `ImageToVolume`.
- Dead code of the mapping: the table of globals, which nothing fills, the getters
  by ID, `dump`, and the `toJSON` of globals, values and variables.
- The lifetime of the `Supermutator` that `SupermutatorConfig::build` returns by
  value while the mutators refer to its engine: every build of the repository
  elides the copy, so there is one object.
- The pointer a load's mutant reads: the table does not have it.
- C library calls other than `getenv` and `strtol`; undefined behaviour at run
  time (a mutant that divides by zero is a term like any other).
- Names of blocks and instructions that the engine makes never clash, as
  addresses of live objects never do.

## 7. Plan

Done, in this order: `IR`, `ReachingValues`, `Mutators`, `MutationEngine`,
`Supermutator` with their runs; `PredecessorSearch` with proofs; `Interpreter`,
`MutantRun`, `SupermutantRun`, `StaticConstructors`; `ImageToVolume` with
proofs; `SourceMapping`
with `Registry`; proofs about the edits, the engine and `Supermutator`;
`Pipeline` with proofs; then all five tables of `SourceMapping` with its file and
the failures of its paths; `LoaderFunction` with `LoaderChecks`; `Installation`;
the rows of the mutation table, the filters and the configuration of
`Supermutator` in full; proofs about the function that the supermutator leaves,
about the files of `Pipeline`, about `SourceMapping` and its refinement of
`Registry`, and the measure of `PredecessorSearch`; proofs about `Installation`,
the refinement of `MutantRun` by `SupermutantRun`, and about what the mutators of
`Supermutator` are offered.

To do:

1. `LoaderFunction` by proof: that its blocks form one chain through the checks, and
   that a run along it implements `LoaderChecks`.
2. A program that calls its own functions, for `SupermutantRun`: the loader is
   called once, from `main`, and `main` may be called again.
