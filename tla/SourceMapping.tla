----------------------------- MODULE SourceMapping -----------------------------
(***************************************************************************)
(* lib/Mapping: numbers the files, the functions, the instructions, the    *)
(* variables and the values of a module, and the part of                   *)
(* Supermutator::run() that relies on the numbers: the mapping is saved,   *)
(* the instructions to mutate are collected, and a row of the mutation     *)
(* table names its instruction by its number.  Whether the path of a       *)
(* source file exists is asked three times, and files come and go.         *)
(*                                                                         *)
(* A module has global variables and functions.  A function has a linkage, *)
(* a number of formals, a file (a DIFile, or None if it has no debug       *)
(* information that names one; two may be of one path) and instructions.   *)
(* An instruction has operands, the variable it declares or None, the line *)
(* of its debug location (None without one or with an implicit one), and   *)
(* says what it calls: nothing, a function, the loader of an earlier run,  *)
(* or, indirectly, what a pointer points to.                               *)
(***************************************************************************)
EXTENDS Integers, Sequences, FiniteSets, Functions

CONSTANTS
  Modules,         \* the modules the mapping may be built for
  Paths,           \* the paths of source files
  PathOf,          \* DIFile -> path
  FunctionLists,   \* the lists of functions a configuration may restrict to; a
                   \* function's name is its place, 0 is the name of none
  None,
  Truncated        \* what is in a file that was opened and not written

ASSUME PathOfAssumption ==
  /\ \A f \in DOMAIN PathOf : PathOf[f] \in Paths
  /\ None \notin DOMAIN PathOf

IsSequence(s) == s \in Seq(Range(s))

IsInstruction(ins) ==
  /\ IsSequence(ins.operands) /\ ins.line \in Nat \cup {None}
  /\ ins.calls \in {"nothing", "function", "indirect", "loader"}

IsFunction(f) ==
  /\ f.file \in DOMAIN PathOf \cup {None}
  /\ f.formals \in Nat
  /\ IsSequence(f.code) /\ \A k \in DOMAIN f.code : IsInstruction(f.code[k])

ASSUME ModulesAssumption ==
  \A m \in Modules :
    /\ IsSequence(m.globals)
    /\ IsSequence(m.functions) /\ \A n \in DOMAIN m.functions : IsFunction(m.functions[n])

\* What is in a mapping file that is whole; a function is named by its place.
Contents ==
  [files        : Seq([id : Nat, path : Paths]),
   functions    : Seq([id : Nat, name : Nat, file : Nat]),
   instructions : Seq([id : Nat, function : Nat, implicit : BOOLEAN,
                       line : Nat \cup {None}])]

ASSUME SavedAssumption == None # Truncated /\ {None, Truncated} \cap Contents = {}

VARIABLES
  module, restrictToFiles, restrictToFunctions,  \* the input
  existing,  \* the paths that exist when the run begins
  gone,      \* those that have disappeared since
  phase,
  at,        \* the function being built, as its place in the module
  next,      \* the instruction of it to be built next, 0 before any
  todo,      \* what build() is about to register
  mapping,   \* kind of thing -> its vector of Infos and its map to IDs
  saved,     \* the content of source-mapping.json, or None
  collected,
  rows       \* the rows of the mutation table: instruction and number

input == << module, restrictToFiles, restrictToFunctions, existing >>
place == << at, next, todo >>
vars  == << input, gone, phase, place, mapping, saved, collected, rows >>

Phases == {"build", "save", "write", "collect", "mutate", "done", "threw"}

Kinds == {"file", "function", "instruction", "variable", "value"}

functions == module.functions

\* The things that are registered as values, and an operand's slot (its Use).
GlobalValue(g)  == << "global", g >>
Formal(n, a)    == << "formal", n, a >>
Instruction(n, k) == << "instruction", n, k >>
Use(n, k, o)    == << "use", n, k, o >>

Thing(kind, x) == [kind |-> kind, thing |-> x]

Each(kind, xs) == [j \in DOMAIN xs |-> Thing(kind, xs[j])]

\* The globals of the module are registered before its functions are built.
Init ==
  /\ module \in Modules
  /\ restrictToFiles \in SUBSET Paths /\ restrictToFunctions \in FunctionLists
  /\ existing \in SUBSET Paths /\ gone = {}
  /\ phase = "build" /\ at = 1 /\ next = 0
  /\ todo = Each("value", [g \in DOMAIN module.globals |-> GlobalValue(module.globals[g])])
  /\ mapping = [kind \in Kinds |-> [infos |-> <<>>, ids |-> <<>>]]
  /\ saved = None /\ collected = {} /\ rows = {}

-------------------------------------------------------------------------------
(* create and getOrCreate.                                                 *)

\* The ID of the thing an Info points to: a function's file; the function of an
\* instruction, or the one that is being built when a variable is first met.
Owner(kind, x) ==
  CASE kind = "function"                   -> mapping["file"].ids[functions[x].file]
    [] kind \in {"instruction", "variable"} -> mapping["function"].ids[at]
    [] OTHER                               -> None

Info(id, x, owner) == [id |-> id, thing |-> x, owner |-> owner]

\* The map with an entry for x; emplace keeps one that is there.
Emplaced(ids, x, id) ==
  [y \in DOMAIN ids \cup {x} |-> IF y \in DOMAIN ids THEN ids[y] ELSE id]

\* Mutant: the size is taken after the push.
createAfterPush(kind, x) ==
  LET table == mapping[kind]
      id    == Len(table.infos) + 1
  IN  [infos |-> Append(table.infos, Info(id, x, Owner(kind, x))),
       ids   |-> Emplaced(table.ids, x, id)]

\* The ID is the size of the vector before the push.
create(kind, x) ==
  LET table == mapping[kind]
      id    == Len(table.infos)
  IN  [infos |-> Append(table.infos, Info(id, x, Owner(kind, x))),
       ids   |-> Emplaced(table.ids, x, id)]

\* Mutant: does not look whether the thing is there.
getOrCreateAlways(kind, x) == create(kind, x)

getOrCreate(kind, x) ==
  IF x \in DOMAIN mapping[kind].ids THEN mapping[kind] ELSE create(kind, x)

\* Mutant: numbers for instructions start again in each function.
RegisterByPlace ==
  /\ todo # <<>>
  /\ LET kind == Head(todo).kind
         x    == Head(todo).thing
         made == IF kind \in {"function", "instruction"}
                 THEN create(kind, x) ELSE getOrCreate(kind, x)
     IN  mapping' = [mapping EXCEPT ![kind] =
           IF kind = "instruction" THEN [made EXCEPT !.ids[x] = x[3] - 1] ELSE made]
  /\ todo' = Tail(todo)
  /\ UNCHANGED << input, gone, phase, at, next, saved, collected, rows >>

Register ==
  /\ todo # <<>>
  /\ LET kind == Head(todo).kind
         x    == Head(todo).thing
     IN  mapping' = [mapping EXCEPT ![kind] =
           IF kind \in {"function", "instruction"}
           THEN create(kind, x) ELSE getOrCreate(kind, x)]
  /\ todo' = Tail(todo)
  /\ UNCHANGED << input, gone, phase, at, next, saved, collected, rows >>

-------------------------------------------------------------------------------
(* build(module) and build(function).                                      *)

Path(n) == PathOf[functions[n].file]

\* A declaration, or a function whose body is for the linker, is not mapped.
HasSource(n) == functions[n].linkage = "defined" /\ functions[n].file # None

Exists(path) == path \in existing \ gone

IsRestricted(n) == restrictToFiles # {} /\ Path(n) \notin restrictToFiles

\* Mutant: the path is not looked up when the function is built.
IsMappedUnchecked(n) == HasSource(n) /\ ~ IsRestricted(n)

IsMapped(n) == HasSource(n) /\ Exists(Path(n)) /\ ~ IsRestricted(n)

Code(n) == functions[n].code

Building == phase = "build" /\ todo = <<>>

AtFunction == Building /\ at <= Len(functions) /\ next = 0

Elsewhere == << input, gone, mapping, saved, collected, rows >>

SkipFunction ==
  /\ AtFunction
  /\ ~ HasSource(at)
  /\ at' = at + 1
  /\ UNCHANGED << phase, next, todo, Elsewhere >>

\* std::filesystem::canonical of a path that does not exist.
PathThrows ==
  /\ AtFunction
  /\ HasSource(at)
  /\ ~ Exists(Path(at))
  /\ phase' = "threw"
  /\ UNCHANGED << place, Elsewhere >>

\* Mutant: a function of another file ends the loop.
StopAtRestricted ==
  /\ AtFunction
  /\ HasSource(at) /\ Exists(Path(at))
  /\ IsRestricted(at)
  /\ at' = Len(functions) + 1
  /\ UNCHANGED << phase, next, todo, Elsewhere >>

SkipRestricted ==
  /\ AtFunction
  /\ HasSource(at) /\ Exists(Path(at))
  /\ IsRestricted(at)
  /\ at' = at + 1
  /\ UNCHANGED << phase, next, todo, Elsewhere >>

\* The formals, the file and the function.
BeginFunction ==
  /\ AtFunction
  /\ IsMapped(at)
  /\ todo' = Each("value", [a \in 1 .. functions[at].formals |-> Formal(at, a)])
               \o << Thing("file", functions[at].file), Thing("function", at) >>
  /\ next' = 1
  /\ UNCHANGED << phase, at, Elsewhere >>

AtInstruction == Building /\ next > 0 /\ next <= Len(Code(at))

\* The instruction, its value, its operands, and the variable it declares.  What
\* is registered for an operand is the address of its slot, cast to a Value*.
BuildInstruction ==
  /\ AtInstruction
  /\ LET i   == Instruction(at, next)
         ins == Code(at)[next]
     IN  todo' = << Thing("instruction", i), Thing("value", i) >>
                   \o Each("value", [o \in DOMAIN ins.operands |-> Use(at, next, o)])
                   \o IF ins.declares = None THEN <<>> ELSE << Thing("variable", ins.declares) >>
  /\ next' = next + 1
  /\ UNCHANGED << phase, at, Elsewhere >>

EndFunction ==
  /\ Building /\ next > 0 /\ next > Len(Code(at))
  /\ at' = at + 1 /\ next' = 0
  /\ UNCHANGED << phase, todo, Elsewhere >>

Built ==
  /\ Building /\ at > Len(functions)
  /\ phase' = "save"
  /\ UNCHANGED << place, Elsewhere >>

-------------------------------------------------------------------------------
(* save(), with the toJSON of the Infos.                                   *)

\* FileInfo::toJSON computes the path anew.
FileRow(info) == [id |-> info.id, path |-> PathOf[info.thing]]

FunctionRow(info) == [id |-> info.id, name |-> info.thing, file |-> info.owner]

\* getLineCol has no value for an instruction without a debug location.
InstructionRow(info) ==
  LET line == Code(info.thing[2])[info.thing[3]].line
  IN  [id |-> info.id, function |-> info.owner, implicit |-> line = None, line |-> line]

RowsOf(kind) ==
  LET row(info) == CASE kind = "file"        -> FileRow(info)
                     [] kind = "function"    -> FunctionRow(info)
                     [] kind = "instruction" -> InstructionRow(info)
  IN  [k \in DOMAIN mapping[kind].infos |-> row(mapping[kind].infos[k])]

\* The ofstream is opened, and so truncated, before the JSON is made.
OpenMapping ==
  /\ phase = "save" /\ phase' = "write"
  /\ saved' = Truncated
  /\ UNCHANGED << input, gone, place, mapping, collected, rows >>

FilesExist == \A f \in DOMAIN mapping["file"].ids : Exists(PathOf[f])

SaveThrows ==
  /\ phase = "write"
  /\ ~ FilesExist
  /\ phase' = "threw"
  /\ UNCHANGED << place, Elsewhere >>

Save ==
  /\ phase = "write"
  /\ FilesExist
  /\ phase' = "collect"
  /\ saved' = [files        |-> RowsOf("file"),
               functions    |-> RowsOf("function"),
               instructions |-> RowsOf("instruction")]
  /\ UNCHANGED << input, gone, place, mapping, collected, rows >>

-------------------------------------------------------------------------------
(* Supermutator::run() for the whole module.                               *)

IsListed(n) == restrictToFunctions # {} => n \in restrictToFunctions

\* Supermutator::isMutable(function): it does not ask for the linkage, and asks
\* for the name, which the mapping does not.
isMutable(n) == functions[n].file # None /\ ~ IsRestricted(n) /\ IsListed(n)

\* Mutant: DebugInfoFilter is not installed.
hasInfoAlways(i) == TRUE

hasInfo(i) == i \in DOMAIN mapping["instruction"].ids

Calls(i) == Code(i[2])[i[3]].calls

InstrumentationFilter(i) == Calls(i) \notin {"indirect", "loader"}

\* The configuration installs it when it lists functions.
FunctionFilter(i) == IsListed(i[2])

\* Supermutator::isMutable(instruction): every filter must pass it.
PassesFilters(i) == InstrumentationFilter(i) /\ hasInfo(i) /\ FunctionFilter(i)

InstructionsOf(n) == {Instruction(n, k) : k \in DOMAIN Code(n)}

\* isMutable computes the canonical path of the file of every function, of those
\* that build() has skipped too.
PathsExist ==
  \A n \in DOMAIN functions : functions[n].file # None => Exists(Path(n))

CollectThrows ==
  /\ phase = "collect"
  /\ ~ PathsExist
  /\ phase' = "threw"
  /\ UNCHANGED << place, Elsewhere >>

MutableInstructions ==
  UNION {InstructionsOf(n) : n \in {m \in DOMAIN functions : isMutable(m)}}

Collect ==
  /\ phase = "collect" /\ phase' = "mutate"
  /\ PathsExist
  /\ collected' = {i \in MutableInstructions : PassesFilters(i)}
  /\ UNCHANGED << input, gone, place, mapping, saved, rows >>

\* get(instruction)->getID(): operator[] enters an instruction that is not in the
\* map, with ID 0.
Row(i) ==
  /\ phase = "mutate"
  /\ i \in collected
  /\ LET now == Emplaced(mapping["instruction"].ids, i, 0)
     IN  /\ mapping' = [mapping EXCEPT !["instruction"].ids = now]
         /\ rows' = rows \cup {[instruction |-> i, id |-> now[i]]}
  /\ UNCHANGED << input, gone, phase, place, saved, collected >>

Mutated ==
  /\ phase = "mutate" /\ phase' = "done"
  /\ UNCHANGED << place, Elsewhere >>

\* Outside the program: a file is moved away.
PathDisappears ==
  /\ \E p \in existing \ gone : gone' = gone \cup {p}
  /\ UNCHANGED << input, phase, place, mapping, saved, collected, rows >>

Ended == phase \in {"done", "threw"} /\ UNCHANGED vars

Next ==
  \/ Register
  \/ SkipFunction \/ PathThrows \/ SkipRestricted \/ BeginFunction
  \/ BuildInstruction \/ EndFunction \/ Built
  \/ OpenMapping \/ SaveThrows \/ Save
  \/ CollectThrows \/ Collect
  \/ \E i \in collected : Row(i)
  \/ Mutated
  \/ PathDisappears
  \/ Ended

Spec == Init /\ [][Next]_vars

-------------------------------------------------------------------------------
(* Properties.                                                             *)

TypeOK ==
  /\ phase \in Phases
  /\ gone \subseteq existing
  /\ at \in 1 .. Len(functions) + 1 /\ next \in Nat
  /\ DOMAIN mapping = Kinds
  /\ \A kind \in Kinds : \A x \in DOMAIN mapping[kind].ids :
       mapping[kind].ids[x] < Len(mapping[kind].infos)
  /\ saved \in Contents \cup {None, Truncated}
  /\ collected \subseteq MutableInstructions

\* The first of the functions of the mapping that declare a variable.
Declaring(x) ==
  LET declaring == {n \in DOMAIN mapping["function"].ids :
                      \E k \in DOMAIN Code(n) : Code(n)[k].declares = x}
  IN  CHOOSE n \in declaring : \A m \in declaring : n <= m

InfoOf(kind, x) == mapping[kind].infos[mapping[kind].ids[x] + 1]

\* A vector has one Info for each key of its map, at the key's ID, and the Info
\* refers to the right Info of another table: an instruction to its function, a
\* function to the file it is in, a variable to the first function with it.
VectorsMatchMaps ==
  \A kind \in Kinds :
    /\ Len(mapping[kind].infos) = Cardinality(DOMAIN mapping[kind].ids)
    /\ \A x \in DOMAIN mapping[kind].ids :
         LET info == InfoOf(kind, x) IN
         /\ info.thing = x /\ info.id = mapping[kind].ids[x]
         /\ kind = "function" => info.owner = mapping["file"].ids[functions[x].file]
         /\ kind = "instruction" => info.owner = mapping["function"].ids[x[2]]
         /\ kind = "variable" => info.owner = mapping["function"].ids[Declaring(x)]

FileRegistry        == INSTANCE Registry WITH ids <- mapping["file"].ids
FunctionRegistry    == INSTANCE Registry WITH ids <- mapping["function"].ids
InstructionRegistry == INSTANCE Registry WITH ids <- mapping["instruction"].ids
VariableRegistry    == INSTANCE Registry WITH ids <- mapping["variable"].ids
ValueRegistry       == INSTANCE Registry WITH ids <- mapping["value"].ids

\* Each table numbers what it is given densely, once and for good; looking
\* numbers up for the rows of the mutation table registers nothing.
ImplementsRegistry ==
  /\ FileRegistry!Spec /\ FunctionRegistry!Spec /\ InstructionRegistry!Spec
  /\ VariableRegistry!Spec /\ ValueRegistry!Spec
  /\ [][phase = "mutate" => UNCHANGED mapping]_vars

\* The number in a row, looked up in the mapping file that was written before
\* anything was mutated, leads to the row's instruction, with its line, its
\* function and the path of its file; there is no row without a whole mapping.
RowsResolve ==
  \A r \in rows :
    LET n           == r.instruction[2]
        instruction == saved.instructions[r.id + 1]
        function    == saved.functions[instruction.function + 1]
    IN  /\ saved \notin {None, Truncated}
        /\ r.id < Len(saved.instructions) /\ instruction.id = r.id
        /\ instruction.line = Code(n)[r.instruction[3]].line
        /\ mapping["instruction"].infos[r.id + 1].thing = r.instruction
        /\ function.id = instruction.function /\ function.name = n
        /\ saved.files[function.file + 1] = [id |-> function.file, path |-> Path(n)]

\* The mapping and the supermutator decide separately which functions count, by
\* two copies of the same tests, of which only the supermutator's asks for the
\* name; an instruction without a number is dropped without a word.  Nothing that
\* may be mutated is lost that way, and nothing else is collected: it is every
\* instruction that calls nothing, or a function other than the loader, of every
\* function with a body here, of a file that may be mutated, and listed.
CollectsMutable ==
  phase \in {"mutate", "done"} =>
    collected = {i \in UNION {InstructionsOf(n) :
                   n \in {m \in DOMAIN functions :
                            HasSource(m) /\ ~ IsRestricted(m) /\ IsListed(m)}} :
                 Calls(i) \in {"nothing", "function"}}

\* A run that is going to throw does so before it has written anything: build()
\* asks for every path that save() and isMutable() will ask for again, but for
\* those of functions without a body here.  Unless a file disappears in between,
\* no mapping is left truncated, and no whole one without a table.
ThrowsEarly ==
  phase = "threw" /\ gone = {} =>
    \/ saved = None
    \/ /\ saved # Truncated
       /\ \E n \in DOMAIN functions : /\ functions[n].linkage # "defined"
                                      /\ functions[n].file # None /\ ~ Exists(Path(n))
===============================================================================
