----------------------------- MODULE LoaderFunction -----------------------------
(***************************************************************************)
(* The loader function as IR: prepare() makes it, prepareInstructionLoader *)
(* puts a check in front of what it has so far, and the supermutant runs   *)
(* it.  A second run of the pass on the same module finds the function.    *)
(***************************************************************************)
EXTENDS Interpreter

CONSTANTS
  IDs,         \* the IDs of instructions
  MaxChecks,   \* how many checks are prepared
  Null         \* what getenv returns for a variable that is not set

VARIABLES
  prepared,  \* how often prepare() has been called
  loader,    \* the function
  sites,     \* the ID of each check, in the order in which they were prepared
  env,       \* the variables that are set when the supermutant is run
  machine    \* the run

vars == << prepared, loader, sites, env, machine >>

EntryBlock(p) == <<"entry", p>>
Global(id)    == <<"global", id>>

Init ==
  /\ prepared = 0
  /\ loader = [entry |-> EntryBlock(1), layout |-> <<>>, code |-> <<>>]
  /\ sites = <<>>
  /\ env = <<>> /\ machine = NotStarted

\* If the function is there already, its new block is not its entry.
prepare ==
  /\ machine = NotStarted /\ prepared < 2
  /\ prepared' = prepared + 1
  /\ LET b == EntryBlock(prepared + 1)
     IN  loader' = PushBack(AddBlock(loader, b), b, <<"ret", prepared + 1>>,
                            Ins("ret", "void", <<>>))
  /\ UNCHANGED << sites, env, machine >>

\* Mutant: the block with strtol goes back to the entry.
StoreAndRepeat(f, n, successor, id) ==
  LET b == <<"nonnull", n>>
  IN  PushBack(PushBack(PushBack(PushBack(AddBlock(f, b),
        b, <<"end", n>>, Ins("alloca", "i8*", <<>>)),
        b, <<"strtol", n>>, Ins("strtol", "i64", << <<"getenv", n>>, <<"end", n>> >>)),
        b, <<"store", n>>, Ins("store", "void", << <<"strtol", n>>, Global(id) >>)),
        b, <<"br", n>>, Jump(f.entry))

\* The block for a variable that is set.
StoreNumber(f, n, successor, id) ==
  LET b == <<"nonnull", n>>
  IN  PushBack(PushBack(PushBack(PushBack(AddBlock(f, b),
        b, <<"end", n>>, Ins("alloca", "i8*", <<>>)),
        b, <<"strtol", n>>, Ins("strtol", "i64", << <<"getenv", n>>, <<"end", n>> >>)),
        b, <<"store", n>>, Ins("store", "void", << <<"strtol", n>>, Global(id) >>)),
        b, <<"br", n>>, Jump(successor))

\* Mutant: the branch that the split made is still there.
BranchOnNullTwice(f, n, successor) ==
  PushBack(PushBack(f,
    f.entry, <<"null", n>>, Ins("eq", "i1", << <<"getenv", n>>, Null >>)),
    f.entry, <<"condbr", n>>,
    [Ins("condbr", "void", << <<"null", n>> >>) EXCEPT !.to = << successor, <<"nonnull", n>> >>])

\* Mutant: the targets are swapped.
BranchOnNonNull(f, n, successor) ==
  PushBack(PushBack(PopBack(f, f.entry),
    f.entry, <<"null", n>>, Ins("eq", "i1", << <<"getenv", n>>, Null >>)),
    f.entry, <<"condbr", n>>,
    [Ins("condbr", "void", << <<"null", n>> >>) EXCEPT !.to = << <<"nonnull", n>>, successor >>])

\* The branch that the split made goes; one on the result of getenv takes its place.
BranchOnNull(f, n, successor) ==
  PushBack(PushBack(PopBack(f, f.entry),
    f.entry, <<"null", n>>, Ins("eq", "i1", << <<"getenv", n>>, Null >>)),
    f.entry, <<"condbr", n>>,
    [Ins("condbr", "void", << <<"null", n>> >>) EXCEPT !.to = << successor, <<"nonnull", n>> >>])

\* All that the function has so far moves to a block of its own, and the entry,
\* left with a branch to it, gets the check.
prepareInstructionLoader(id) ==
  /\ machine = NotStarted /\ prepared > 0 /\ Len(sites) < MaxChecks
  /\ sites' = Append(sites, id)
  /\ LET n         == Len(sites) + 1
         successor == <<"successor", n>>
         split     == SplitBlock(loader, Head(loader.layout[loader.entry]), successor,
                                 <<"split", n>>)
         called    == InsertBefore(split, <<"split", n>>, <<"getenv", n>>,
                                   Ins("getenv", "i8*", << <<"name", id>> >>))
     IN  loader' = BranchOnNull(StoreNumber(called, n, successor, id), n, successor)
  /\ UNCHANGED << prepared, env, machine >>

Call ==
  /\ machine = NotStarted /\ prepared > 0
  /\ env' \in UNION {[S -> {0, 1, Junk}] : S \in SUBSET ToSet(sites)}
  /\ machine' = Started(Head(loader.layout[loader.entry]),
                        [g \in {Global(id) : id \in ToSet(sites)} |-> 0])
  /\ UNCHANGED << prepared, loader, sites >>

\* Calls of the C library return a value, and a branch goes by its condition.
Executes(m) ==
  LET ins  == loader.code[m.at]
      args == ArgsOf(loader, m)
  IN CASE ins.op = "getenv" ->
            Advance(loader, Assign(m, m.at, IF args[1][2] \in DOMAIN env THEN env[args[1][2]] ELSE Null))
       [] ins.op = "strtol" -> Advance(loader, Assign(m, m.at, strtol(args[1])))
       [] ins.op = "eq"     -> Advance(loader, Assign(m, m.at, args[1] = args[2]))
       [] ins.op = "condbr" -> EnterBlock(loader, m, ins.to[IF args[1] THEN 1 ELSE 2])
       [] OTHER             -> CHOOSE n \in Executed(loader, m) : TRUE

Step ==
  /\ machine.at # Halted
  /\ machine' = Executes(machine)
  /\ UNCHANGED << prepared, loader, sites, env >>

Next ==
  \/ prepare
  \/ \E id \in IDs : prepareInstructionLoader(id)
  \/ Call
  \/ Step

\* The process that has called the loader goes on.
Spec == Init /\ [][Next]_vars /\ WF_vars(Step)

-------------------------------------------------------------------------------
\* After any number of checks, and if prepare() is called again in between, the
\* function is one that LLVM's verifier accepts: no block has lost its end or got
\* a second one, and a check uses the result of its own getenv only.
LoaderIsValid ==
  prepared > 0 =>
    /\ BlocksWellFormed(loader)
    /\ PhisMatchPredecessors(loader)
    /\ DefinitionsDominateUses(loader)

\* The checks a run has yet to make: from the one it is in, down to the first.
Remaining ==
  LET n == IF machine.at[1] \in {"ret", "halted"} THEN 0
           ELSE machine.at[2] - (IF machine.at[1] = "br" THEN 1 ELSE 0)
  IN  [k \in 1 .. n |-> sites[n + 1 - k]]

L == INSTANCE LoaderChecks WITH
       checks  <- Remaining,
       mem     <- [id \in {i \in IDs : Global(i) \in DOMAIN machine.mem}
                     |-> machine.mem[Global(id)]],
       running <- machine.at # Halted

\* Run from the front, the function makes one check for each call of
\* prepareInstructionLoader, the last first, and each stores a variable that is set
\* and leaves the global of one that is not: the sequence of checks that the rest
\* of the model takes the loader for.
ImplementsLoaderChecks == L!Spec

\* The loader returns, whatever is in the environment, so that main goes on.
LoaderReturns == (machine # NotStarted) ~> (machine.at = Halted)
===============================================================================
