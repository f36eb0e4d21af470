------------------------------- MODULE Pipeline -------------------------------
(***************************************************************************)
(* The two passes as opt runs them, and the three files they leave in the  *)
(* working directory: source-mapping.json, mutations.json, supermutant.bc. *)
(* Commands run one after the other in one directory; any of them may fail *)
(* or be killed between two steps.                                         *)
(*                                                                         *)
(* A command gives opt a list of passes: "supermutate", "llvmtosource" or  *)
(* "simplify", which stands for the optimisations the user asks for.  The  *)
(* module is represented by the passes that have changed it.  With opt's   *)
(* -O2 both passes run once more, as they register themselves at the end   *)
(* of the optimiser's pipeline.                                            *)
(*                                                                         *)
(* docker/llvmsupermutate has opt write its own output to supermutant.bc,  *)
(* the file the pass writes to (script).  opt truncates that file before   *)
(* it runs a pass, writes it from its start, not truncating it again, when *)
(* all have run, and removes it if it dies of a signal it can catch.       *)
(***************************************************************************)
EXTENDS Integers, FiniteSets, Sequences, SequencesExt

CONSTANTS
  ScriptLists, \* the lists of passes that docker/llvmsupermutate may give opt
  UserLists,   \* those that a user of opt may
  MaxRuns,     \* bound on the commands
  Absent,      \* a file that is not there
  Torn         \* a file that is empty, or in part of one content or another

Passes == {"supermutate", "llvmtosource", "simplify"}

\* What is in a file that is whole: the command that wrote it, and the module it
\* is of.
Contents == [run : Nat, of : Seq(Passes)]

ASSUME PipelineAssumption ==
  /\ Absent # Torn /\ {Absent, Torn} \cap Contents = {}
  /\ ScriptLists \cup UserLists \subseteq Seq(Passes)
  /\ \A list \in ScriptLists : "supermutate" \in ToSet(list)
  /\ MaxRuns \in Nat

Files == {"mapping", "table", "bitcode"}

\* What can be wrong with a command's input: no configuration file, one that is
\* no JSON, a module without main, a source path that does not exist, and the
\* same of a function that the mapping skips.
Faults == {"none", "noConfig", "badConfig", "noMain", "noPath", "noSkippedPath"}

VARIABLES
  script,    \* opt is run by docker/llvmsupermutate
  openable,  \* the files that can be opened for writing
  dir,       \* the directory: file -> content
  run,       \* commands begun so far
  fault, passes, module,  \* of the current command
  at,        \* the place in passes of the one that runs, or is to run next
  mapped,    \* the module as the pass's source mapping has numbered it
  pc,
  returned   \* the last command to end has returned 0

command == << fault, passes, module, at, mapped >>
vars    == << script, openable, dir, run, command, pc, returned >>

Init ==
  /\ script \in BOOLEAN
  /\ openable \in SUBSET Files
  /\ dir = [f \in Files |-> Absent]
  /\ run = 0
  /\ fault = "none" /\ passes = <<>> /\ module = <<>> /\ at = 1 /\ mapped = <<>>
  /\ pc = "idle" /\ returned = FALSE

Whole(f) == dir[f] \notin {Absent, Torn}

\* std::ofstream does nothing, and says nothing, if the file cannot be opened.
With(f, content) == IF f \in openable THEN [dir EXCEPT ![f] = content] ELSE dir

Content(m) == [run |-> run, of |-> m]

-------------------------------------------------------------------------------
(* How a command begins and ends.                                          *)

\* Mutant: the script has opt write to another file.
BeginWithOtherOutput(list, wrong) ==
  /\ pc = "idle" /\ run < MaxRuns
  /\ run' = run + 1
  /\ fault' = wrong /\ passes' = list /\ module' = <<>> /\ at' = 1 /\ mapped' = <<>>
  /\ returned' = FALSE
  /\ pc' = "pass"
  /\ UNCHANGED << script, openable, dir >>

Begin(list, wrong) ==
  /\ pc = "idle" /\ run < MaxRuns
  /\ run' = run + 1
  /\ fault' = wrong /\ passes' = list /\ module' = <<>> /\ at' = 1 /\ mapped' = <<>>
  /\ returned' = FALSE
  /\ IF script
     THEN /\ dir' = With("bitcode", Torn)
          /\ pc' = IF "bitcode" \in openable THEN "pass" ELSE "idle"
     ELSE pc' = "pass" /\ UNCHANGED dir
  /\ UNCHANGED << script, openable >>

Stop(files) ==
  /\ pc' = "idle" /\ dir' = files
  /\ UNCHANGED << script, openable, run, command, returned >>

\* An exception that nothing catches, a null dereference, a fatal error of LLVM.
Abort == Stop(IF script THEN With("bitcode", Absent) ELSE dir)

Exit1 == Stop(dir)

Kill == pc # "idle" /\ (Exit1 \/ Abort)

Times(p, m) == Cardinality({i \in DOMAIN m : m[i] = p})

\* Supermutating makes a module larger, simplifying it smaller.
Size(m) == Times("supermutate", m) * 2 - Times("simplify", m)

\* opt writes its output over what the pass has left there.
Return ==
  /\ pc = "pass" /\ at > Len(passes)
  /\ pc' = "idle" /\ returned' = TRUE
  /\ dir' = IF ~ script THEN dir
            ELSE IF Whole("bitcode") /\ Size(dir["bitcode"].of) > Size(module)
                 THEN With("bitcode", Torn)
                 ELSE With("bitcode", Content(module))
  /\ UNCHANGED << script, openable, run, command >>

Running(p) == at <= Len(passes) /\ passes[at] = p

Simplify ==
  /\ pc = "pass" /\ Running("simplify")
  /\ module' = Append(module, "simplify")
  /\ at' = at + 1
  /\ UNCHANGED << script, openable, dir, run, fault, passes, mapped, pc, returned >>

-------------------------------------------------------------------------------
(* runOnModule of the two passes.                                          *)

Step(from, to) ==
  /\ pc = from /\ pc' = to
  /\ UNCHANGED << script, openable, run, fault, passes, returned >>

LoadConfig ==
  /\ pc = "pass" /\ Running("supermutate")
  /\ \/ fault = "noConfig" /\ Exit1
     \/ fault = "badConfig" /\ Abort
     \/ /\ fault \notin {"noConfig", "badConfig"}
        /\ Step("pass", "build")
        /\ UNCHANGED << dir, at, module, mapped >>

StartMapping ==
  Running("llvmtosource") /\ Step("pass", "build") /\ UNCHANGED << dir, at, module, mapped >>

BuildFails ==
  /\ pc = "build"
  /\ fault = "noPath" \/ (fault = "noMain" /\ Running("supermutate"))
  /\ Abort

\* The mapping is built, and save() opens its file.
Build ==
  /\ fault # "noPath" /\ (fault = "noMain" => Running("llvmtosource"))
  /\ Step("build", "save")
  /\ mapped' = module
  /\ dir' = With("mapping", Torn)
  /\ UNCHANGED << at, module >>

\* Mutant: the mapping is built of the module that has been mutated.
SaveLate ==
  /\ IF Running("supermutate")
     THEN Step("save", "collect") /\ UNCHANGED at
     ELSE Step("save", "pass") /\ at' = at + 1
  /\ dir' = With("mapping", Content(IF Running("supermutate") THEN Append(mapped, "supermutate")
                                                             ELSE mapped))
  /\ UNCHANGED << module, mapped >>

\* Mutant: llvmtosource goes on as the other pass does.
SaveAndCollect ==
  /\ Step("save", "collect")
  /\ dir' = With("mapping", Content(mapped))
  /\ UNCHANGED << at, module, mapped >>

Save ==
  /\ IF Running("supermutate")
     THEN Step("save", "collect") /\ UNCHANGED at
     ELSE Step("save", "pass") /\ at' = at + 1
  /\ dir' = With("mapping", Content(mapped))
  /\ UNCHANGED << module, mapped >>

CollectFails == pc = "collect" /\ fault = "noSkippedPath" /\ Abort

\* Mutant: the bitcode is written before the table.
MutateAndWriteBitcode ==
  /\ fault # "noSkippedPath"
  /\ Step("collect", "table")
  /\ module' = Append(module, "supermutate")
  /\ dir' = With("bitcode", Content(module'))
  /\ UNCHANGED << at, mapped >>

\* The instructions are collected and mutated, and the table's file is opened.
Mutate ==
  /\ fault # "noSkippedPath"
  /\ Step("collect", "table")
  /\ module' = Append(module, "supermutate")
  /\ dir' = With("table", Torn)
  /\ UNCHANGED << at, mapped >>

WriteTable ==
  /\ Step("table", "open")
  /\ dir' = With("table", Content(mapped))
  /\ UNCHANGED << at, module, mapped >>

OpenBitcode ==
  /\ "bitcode" \in openable
  /\ Step("open", "bitcode")
  /\ dir' = With("bitcode", Torn)
  /\ UNCHANGED << at, module, mapped >>

\* The destructor of the stream finds that nothing could be written.
OpenBitcodeFails == pc = "open" /\ "bitcode" \notin openable /\ Abort

WriteBitcode ==
  /\ Step("bitcode", "pass")
  /\ dir' = With("bitcode", Content(module))
  /\ at' = at + 1
  /\ UNCHANGED << module, mapped >>

\* No more commands are given.
Rest == pc = "idle" /\ UNCHANGED vars

Supermutate ==
  \/ LoadConfig \/ CollectFails \/ Mutate \/ WriteTable
  \/ OpenBitcode \/ OpenBitcodeFails \/ WriteBitcode

Next ==
  \/ \E list \in IF script THEN ScriptLists ELSE UserLists, wrong \in Faults :
       Begin(list, wrong)
  \/ Simplify \/ Supermutate \/ StartMapping \/ BuildFails \/ Build \/ Save
  \/ Return \/ Kill \/ Rest

Spec == Init /\ [][Next]_vars

-------------------------------------------------------------------------------
(* Properties.                                                             *)

TypeOK ==
  /\ script \in BOOLEAN /\ openable \subseteq Files
  /\ dir \in [Files -> Contents \cup {Absent, Torn}]
  /\ \A f \in Files : Whole(f) => f \in openable /\ dir[f].run \in 1 .. run
  /\ {passes, module, mapped} \subseteq Seq(Passes)
  /\ at \in 1 .. Len(passes) + 1
  /\ run \in 0 .. MaxRuns /\ fault \in Faults
  /\ pc \in {"idle", "pass", "build", "save", "collect", "table", "open", "bitcode"}
  /\ pc \in {"build", "save"} => Running("supermutate") \/ Running("llvmtosource")
  /\ pc \in {"collect", "table", "open", "bitcode"} => Running("supermutate")

\* p comes after the last q.
After(p, q) ==
  \E i \in DOMAIN passes : passes[i] = p /\ \A j \in i .. Len(passes) : passes[j] # q

Once(p) ==
  \E i \in DOMAIN passes : \A j \in DOMAIN passes : passes[j] = p <=> j = i

\* The table and the mapping belong to the supermutant in the bitcode: its rows
\* number instructions as the mapping does, of the module that was mutated.
\* llvmtosource numbers another module if it runs later.
TableFits ==
  Whole("table")
    /\ dir["table"].run = dir["bitcode"].run
    /\ IsPrefix(Append(dir["table"].of, "supermutate"), dir["bitcode"].of)

MappingFits ==
  After("llvmtosource", "supermutate") \/ dir["mapping"] = dir["table"]

Fits ==
  /\ "table" \in openable => TableFits
  /\ {"table", "mapping"} \subseteq openable => MappingFits

\* A command that has returned 0 and supermutated leaves three files that belong
\* together, as far as they could be opened at all, unless it has simplified the
\* supermutant, which leaves the end of the larger one in opt's output.
ReturnedMeansWritten ==
  returned /\ "supermutate" \in ToSet(passes) =>
    \/ script /\ After("simplify", "supermutate") /\ dir["bitcode"] = Torn
    \/ Whole("bitcode") /\ dir["bitcode"].run = run /\ Fits

\* With the script, whatever fails or is killed and when: a whole bitcode file is
\* the last command's, and the table and the mapping beside it fit, if the
\* command supermutates once.
BitcodeHasItsTable ==
  script /\ Whole("bitcode") =>
    /\ dir["bitcode"].run = run
    /\ Once("supermutate") => Fits

\* Without the script files of several commands may lie side by side, but a file
\* is never older than one that is written after it: newer bitcode has no older
\* table, and no newer table an older mapping.
NeverAhead ==
  \A f \in {<< "bitcode", "table" >>, << "table", "mapping" >>} :
    Whole(f[1]) /\ f[2] \in openable =>
      /\ dir[f[2]] # Absent
      /\ Whole(f[2]) => dir[f[1]].run <= dir[f[2]].run
===============================================================================
