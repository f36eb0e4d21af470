---------------------------- MODULE Pipeline_proofs ----------------------------
(***************************************************************************)
(* Theorems about Pipeline: for any number of commands, whatever they ask  *)
(* of opt and wherever they fail, no file is newer than one it depends on, *)
(* and the files of a command that has written all three belong together.  *)
(***************************************************************************)
EXTENDS Pipeline, FiniteSetTheorems, TLAPS

\* File f is of the current command, in so far as it can be written.
Current(f) == f \in openable => Whole(f) /\ dir[f].run = run

\* File f is of the current command or about to be rewritten by it.
Begun(f) ==
  f \in openable => dir[f] # Absent /\ (Whole(f) => dir[f].run = run)

\* What the place of the current command in the code says of the files: the
\* mapping is written when the instructions are collected, the table when the
\* bitcode's file is opened.
WrittenBefore ==
  /\ pc \in {"collect", "table", "open", "bitcode"} => Current("mapping")
  /\ pc \in {"open", "bitcode"} => Current("table")

\* Once the command has supermutated, its table is there.
SupermutatedBefore ==
  pc # "idle" =>
    \A i \in 1 .. at - 1 : passes[i] = "supermutate" => Begun("table")

\* A command has begun, and opt runs the passes it was given.
Given ==
  pc # "idle" => run > 0 /\ passes \in IF script THEN ScriptLists ELSE UserLists

IInv == TypeOK /\ NeverAhead /\ WrittenBefore /\ SupermutatedBefore /\ Given

\* ToSet lists what a sequence has at its places.
LEMMA ListsSupermutate ==
  ASSUME NEW list \in ScriptLists
  PROVE  \E i \in 1 .. Len(list) : list[i] = "supermutate"
<1>1. "supermutate" \in ToSet(list) /\ list \in Seq(Passes)
  BY PipelineAssumption
<1> QED
  BY <1>1 DEF ToSet

\* A file that is written holds what was written to it if it can be opened; the
\* others, and all if it cannot, are as they were.
LEMMA WithIs ==
  ASSUME TypeOK, NEW f \in Files, NEW c \in Contents \cup {Absent, Torn},
         dir' = With(f, c)
  PROVE  /\ dir' \in [Files -> Contents \cup {Absent, Torn}]
         /\ dir'[f] = IF f \in openable THEN c ELSE dir[f]
         /\ \A g \in Files \ {f} : dir'[g] = dir[g]
BY DEF TypeOK, With

LEMMA ContentIs ==
  ASSUME TypeOK, NEW m \in Seq(Passes)
  PROVE  /\ Content(m) \in Contents
         /\ Content(m).run = run
         /\ Content(m) \notin {Absent, Torn}
<1>1. run \in Nat
  BY PipelineAssumption DEF TypeOK
<1> QED
  BY <1>1, PipelineAssumption DEF Content, Contents

LEMMA InitIInv == Init => IInv
<1> SUFFICES ASSUME Init PROVE IInv
  OBVIOUS
<1>1. \A f \in Files : ~ Whole(f)
  BY DEF Init, Whole
<1>2. TypeOK
  BY <1>1, PipelineAssumption DEF Init, TypeOK, Faults
<1>3. NeverAhead
  BY <1>1 DEF NeverAhead, Files
<1> QED
  BY <1>2, <1>3 DEF Init, IInv, WrittenBefore, SupermutatedBefore, Given

\* A command that stops leaves the files, or removes the bitcode.
LEMMA StopStep == IInv /\ (Exit1 \/ Abort) => IInv'
<1> SUFFICES ASSUME IInv, Exit1 \/ Abort PROVE IInv'
  OBVIOUS
<1> USE DEF IInv
<1>1. dir' = dir \/ dir' = With("bitcode", Absent)
  BY DEF Exit1, Abort, Stop
<1>2. /\ dir' \in [Files -> Contents \cup {Absent, Torn}]
      /\ \A f \in Files : Whole(f)' => Whole(f) /\ dir'[f] = dir[f]
      /\ \A f \in {"mapping", "table"} : dir'[f] = dir[f]
  <2>1. CASE dir' = dir
    BY <2>1 DEF TypeOK, Whole
  <2>2. CASE dir' = With("bitcode", Absent)
    BY <2>2, WithIs DEF Files, Whole
  <2> QED
    BY <1>1, <2>1, <2>2
<1>3. /\ UNCHANGED << script, openable, run, command, returned >>
      /\ pc' = "idle"
  BY DEF Exit1, Abort, Stop
<1>4. TypeOK'
  BY <1>2, <1>3 DEF TypeOK, command
<1>5. NeverAhead'
  BY <1>2, <1>3 DEF NeverAhead, Files, Whole
<1> QED
  BY <1>3, <1>4, <1>5 DEF WrittenBefore, SupermutatedBefore, Given

LEMMA BeginStep ==
  ASSUME IInv, NEW list \in IF script THEN ScriptLists ELSE UserLists, NEW wrong \in Faults,
         Begin(list, wrong)
  PROVE  IInv'
<1> USE DEF IInv
<1>1. /\ dir' \in [Files -> Contents \cup {Absent, Torn}]
      /\ \A f \in Files : Whole(f)' => Whole(f) /\ dir'[f] = dir[f]
      /\ \A f \in {"mapping", "table"} : dir'[f] = dir[f]
  <2>1. CASE script
    <3>1. dir' = With("bitcode", Torn)
      BY <2>1 DEF Begin
    <3> QED
      BY <3>1, WithIs DEF Files, Whole
  <2>2. CASE ~ script
    BY <2>2 DEF Begin, TypeOK, Whole
  <2> QED
    BY <2>1, <2>2
<1>2. run \in Nat /\ run' = run + 1 /\ run' \in 0 .. MaxRuns
  BY PipelineAssumption DEF Begin, TypeOK
<1>3. /\ UNCHANGED << script, openable >>
      /\ passes' = list /\ at' = 1 /\ fault' = wrong
      /\ list \in Seq(Passes) /\ module' = <<>> /\ mapped' = <<>>
      /\ pc' \in {"idle", "pass"}
  BY PipelineAssumption DEF Begin
<1>4. TypeOK'
  <2>1. \A f \in Files : Whole(f)' => f \in openable' /\ dir'[f].run \in 1 .. run'
    BY <1>1, <1>2, <1>3 DEF TypeOK
  <2> QED
    BY <1>1, <1>2, <1>3, <2>1 DEF TypeOK
<1>5. NeverAhead'
  BY <1>1, <1>3 DEF NeverAhead, Files, Whole
<1> QED
  BY <1>2, <1>3, <1>4, <1>5 DEF WrittenBefore, SupermutatedBefore, Given

LEMMA ReturnStep == IInv /\ Return => IInv'
<1> SUFFICES ASSUME IInv, Return PROVE IInv'
  OBVIOUS
<1> USE DEF IInv
<1>1. dir' = dir \/ (script /\ \E c \in {Torn, Content(module)} : dir' = With("bitcode", c))
  BY DEF Return
<1>2. /\ UNCHANGED << script, openable, run, command >>
      /\ pc' = "idle" /\ pc = "pass" /\ at > Len(passes)
  BY DEF Return
<1>3. /\ dir' \in [Files -> Contents \cup {Absent, Torn}]
      /\ \A f \in {"mapping", "table"} : dir'[f] = dir[f]
      /\ \/ dir'["bitcode"] = dir["bitcode"]
         \/ dir'["bitcode"] = Torn
         \/ script /\ "bitcode" \in openable /\ dir'["bitcode"] = Content(module)
  <2>1. CASE dir' = dir
    BY <2>1 DEF TypeOK
  <2>2. ASSUME script, NEW c \in {Torn, Content(module)}, dir' = With("bitcode", c)
        PROVE  <1>3!:
    <3>1. c \in Contents \cup {Absent, Torn}
      BY ContentIs DEF TypeOK
    <3> QED
      BY <2>2, <3>1, WithIs DEF Files
  <2> QED
    BY <1>1, <2>1, <2>2
<1>4. run \in Nat /\ (Whole("bitcode")' /\ dir'["bitcode"] # dir["bitcode"] =>
        script /\ "bitcode" \in openable /\ run > 0 /\ dir'["bitcode"].run = run)
  <2>1. run > 0 /\ run \in Nat /\ Content(module).run = run
    BY <1>2, ContentIs, PipelineAssumption DEF TypeOK, Given
  <2> QED
    BY <1>3, <2>1 DEF Whole
<1>5. TypeOK'
  <2>1. \A f \in Files : Whole(f)' => f \in openable' /\ dir'[f].run \in 1 .. run'
    BY <1>2, <1>3, <1>4 DEF TypeOK, Whole, Files
  <2> QED
    BY <1>2, <1>3, <2>1 DEF TypeOK, command
<1>6. script => Begun("table")
  <2>1. ASSUME script PROVE Begun("table")
    <3>1. PICK i \in 1 .. Len(passes) : passes[i] = "supermutate"
      BY <1>2, <2>1, ListsSupermutate DEF Given
    <3>2. i \in 1 .. at - 1
      BY <1>2, PipelineAssumption DEF TypeOK
    <3> QED
      BY <1>2, <3>1, <3>2 DEF SupermutatedBefore
  <2> QED
    BY <2>1
<1>7. NeverAhead'
  <2>1. Whole("bitcode")' /\ "table" \in openable =>
          dir'["table"] # Absent /\ (Whole("table")' => dir'["bitcode"].run <= dir'["table"].run)
    <3>1. CASE dir'["bitcode"] = dir["bitcode"]
      BY <1>3, <3>1 DEF NeverAhead, Whole, Files
    <3>2. CASE dir'["bitcode"] # dir["bitcode"]
      BY <1>3, <1>4, <1>6, <3>2 DEF Begun, Whole, Files
    <3> QED
      BY <3>1, <3>2
  <2> QED
    BY <1>2, <1>3, <2>1 DEF NeverAhead, Whole, Files
<1> QED
  BY <1>2, <1>5, <1>7 DEF WrittenBefore, SupermutatedBefore, Given

\* The steps that leave the files alone.
LEMMA QuietStep ==
  IInv /\ (Simplify \/ StartMapping
             \/ (LoadConfig /\ Step("pass", "build") /\ UNCHANGED << dir, at, module, mapped >>)
             \/ UNCHANGED vars)
    => IInv'
<1> SUFFICES ASSUME IInv,
                    Simplify \/ StartMapping
                      \/ (LoadConfig /\ Step("pass", "build")
                            /\ UNCHANGED << dir, at, module, mapped >>)
                      \/ UNCHANGED vars
             PROVE  IInv'
  OBVIOUS
<1> USE DEF IInv
<1>1. CASE UNCHANGED vars
  BY <1>1 DEF vars, command, TypeOK, Whole, Running, NeverAhead, WrittenBefore, Current,
              SupermutatedBefore, Begun, Given
<1>2. CASE Simplify
  <2>1. /\ UNCHANGED << script, openable, dir, run, fault, passes, mapped, pc, returned >>
        /\ pc = "pass" /\ at' = at + 1 /\ at \in 1 .. Len(passes)
        /\ passes[at] = "simplify" /\ module' \in Seq(Passes)
    BY <1>2 DEF Simplify, Running, TypeOK, Passes
  <2>2. TypeOK'
    BY <2>1 DEF TypeOK, Whole
  <2>3. NeverAhead'
    BY <2>1 DEF NeverAhead, Whole
  <2>4. SupermutatedBefore'
    <3>1. \A i \in 1 .. at' - 1 : i \in 1 .. at - 1 \/ passes[i] = "simplify"
      BY <2>1
    <3> QED
      BY <2>1, <3>1 DEF SupermutatedBefore, Begun, Whole
  <2> QED
    BY <2>1, <2>2, <2>3, <2>4 DEF WrittenBefore, Given
<1>3. CASE Step("pass", "build") /\ UNCHANGED << dir, at, module, mapped >>
              /\ (Running("supermutate") \/ Running("llvmtosource"))
  <2>1. /\ UNCHANGED << script, openable, dir, run, fault, passes, at, module, mapped, returned >>
        /\ pc = "pass" /\ pc' = "build"
    BY <1>3 DEF Step
  <2>2. TypeOK'
    BY <1>3, <2>1 DEF TypeOK, Whole, Running
  <2>3. NeverAhead'
    BY <2>1 DEF NeverAhead, Whole
  <2>4. SupermutatedBefore'
    BY <2>1 DEF SupermutatedBefore, Begun, Whole
  <2> QED
    BY <2>1, <2>2, <2>3, <2>4 DEF WrittenBefore, Given
<1> QED
  BY <1>1, <1>2, <1>3 DEF StartMapping, LoadConfig

\* A step that writes one file: TypeOK asks only that what is whole is of this
\* command.
LEMMA WriteKeepsFiles ==
  ASSUME TypeOK, run > 0, UNCHANGED << openable, run >>,
         NEW f \in Files, NEW c, c = Torn \/ \E m \in Seq(Passes) : c = Content(m),
         dir' = With(f, c)
  PROVE  /\ dir' \in [Files -> Contents \cup {Absent, Torn}]
         /\ \A g \in Files : Whole(g)' => g \in openable /\ dir'[g].run \in 1 .. run
         /\ \A g \in Files \ {f} : dir'[g] = dir[g]
         /\ dir'[f] = IF f \in openable THEN c ELSE dir[f]
<1>1. c \in Contents \cup {Absent, Torn} /\ (c \notin {Absent, Torn} => c.run = run)
  BY ContentIs
<1>2. run \in Nat
  BY PipelineAssumption DEF TypeOK
<1> QED
  BY <1>1, <1>2, WithIs DEF TypeOK, Whole

LEMMA BuildStep == IInv /\ Build => IInv'
<1> SUFFICES ASSUME IInv, Build PROVE IInv'
  OBVIOUS
<1> USE DEF IInv
<1>1. /\ UNCHANGED << script, openable, run, fault, passes, returned >>
      /\ pc = "build" /\ pc' = "save" /\ at' = at
      /\ module' \in Seq(Passes) /\ mapped' \in Seq(Passes)
  BY DEF Build, Step, TypeOK, Running, Passes
<1>2. run > 0
  BY <1>1 DEF Given
<1>3. /\ dir' \in [Files -> Contents \cup {Absent, Torn}]
      /\ \A g \in Files : Whole(g)' => g \in openable /\ dir'[g].run \in 1 .. run
      /\ \A g \in Files \ {"mapping"} : dir'[g] = dir[g]
      /\ dir'["mapping"] = IF "mapping" \in openable THEN Torn ELSE dir["mapping"]
  <2>1. dir' = With("mapping", Torn) /\ UNCHANGED << openable, run >>
    BY <1>1 DEF Build
  <2>2. "mapping" \in Files
    BY DEF Files
  <2> QED
    BY <1>1, <1>2, <2>1, <2>2, WriteKeepsFiles DEF TypeOK
<1>4. TypeOK'
  BY <1>1, <1>3 DEF TypeOK, Running
<1>5. NeverAhead'
  BY <1>1, <1>3, PipelineAssumption DEF NeverAhead, Whole, Files
<1>6. SupermutatedBefore'
  BY <1>1, <1>3 DEF SupermutatedBefore, Begun, Whole, Files
<1> QED
  BY <1>1, <1>4, <1>5, <1>6 DEF WrittenBefore, Given

LEMMA SaveStep == IInv /\ Save => IInv'
<1> SUFFICES ASSUME IInv, Save PROVE IInv'
  OBVIOUS
<1> USE DEF IInv
<1>1. /\ UNCHANGED << script, openable, run, fault, passes, returned >>
      /\ pc = "save" /\ module' = module /\ mapped' = mapped
      /\ mapped \in Seq(Passes)
      /\ \/ pc' = "collect" /\ at' = at /\ Running("supermutate")
         \/ pc' = "pass" /\ at' = at + 1 /\ Running("llvmtosource") /\ at \in 1 .. Len(passes)
            /\ passes[at] # "supermutate"
  BY DEF Save, Step, TypeOK, Running, Passes
<1>2. run > 0
  BY <1>1 DEF Given
<1>3. /\ dir' \in [Files -> Contents \cup {Absent, Torn}]
      /\ \A g \in Files : Whole(g)' => g \in openable /\ dir'[g].run \in 1 .. run
      /\ \A g \in Files \ {"mapping"} : dir'[g] = dir[g]
      /\ dir'["mapping"] = IF "mapping" \in openable THEN Content(mapped) ELSE dir["mapping"]
  <2>1. dir' = With("mapping", Content(mapped)) /\ UNCHANGED << openable, run >>
    BY <1>1 DEF Save
  <2>2. "mapping" \in Files
    BY DEF Files
  <2> QED
    BY <1>1, <1>2, <2>1, <2>2, WriteKeepsFiles DEF TypeOK
<1>4. TypeOK'
  BY <1>1, <1>3 DEF TypeOK, Running
<1>5. Current("mapping")'
  BY <1>1, <1>3, ContentIs DEF Current, Whole
<1>6. NeverAhead'
  BY <1>1, <1>3, <1>5 DEF NeverAhead, Current, Whole, Files
<1>7. SupermutatedBefore'
  <2>1. \A i \in 1 .. at' - 1 : passes[i] = "supermutate" => i \in 1 .. at - 1
    BY <1>1 DEF TypeOK
  <2>2. Begun("table") => Begun("table")'
    BY <1>1, <1>3 DEF Begun, Whole, Files
  <2> QED
    BY <1>1, <2>1, <2>2 DEF SupermutatedBefore
<1> QED
  BY <1>1, <1>4, <1>5, <1>6, <1>7, <1>2 DEF WrittenBefore, Given

LEMMA MutateStep == IInv /\ Mutate => IInv'
<1> SUFFICES ASSUME IInv, Mutate PROVE IInv'
  OBVIOUS
<1> USE DEF IInv
<1>1. /\ UNCHANGED << script, openable, run, fault, passes, returned >>
      /\ pc = "collect" /\ pc' = "table" /\ at' = at
      /\ module' \in Seq(Passes) /\ mapped' = mapped
  BY DEF Mutate, Step, TypeOK, Running, Passes
<1>2. run > 0
  BY <1>1 DEF Given
<1>3. /\ dir' \in [Files -> Contents \cup {Absent, Torn}]
      /\ \A g \in Files : Whole(g)' => g \in openable /\ dir'[g].run \in 1 .. run
      /\ \A g \in Files \ {"table"} : dir'[g] = dir[g]
      /\ dir'["table"] = IF "table" \in openable THEN Torn ELSE dir["table"]
  <2>1. dir' = With("table", Torn) /\ UNCHANGED << openable, run >>
    BY <1>1 DEF Mutate
  <2>2. "table" \in Files
    BY DEF Files
  <2> QED
    BY <1>1, <1>2, <2>1, <2>2, WriteKeepsFiles DEF TypeOK
<1>4. TypeOK'
  BY <1>1, <1>3 DEF TypeOK, Running
<1>5. NeverAhead'
  BY <1>1, <1>3, PipelineAssumption DEF NeverAhead, Whole, Files
<1>6. SupermutatedBefore'
  BY <1>1, <1>3, PipelineAssumption DEF SupermutatedBefore, Begun, Whole
<1>7. WrittenBefore'
  BY <1>1, <1>3 DEF WrittenBefore, Current, Whole, Files
<1> QED
  BY <1>1, <1>2, <1>4, <1>5, <1>6, <1>7 DEF Given

LEMMA WriteTableStep == IInv /\ WriteTable => IInv'
<1> SUFFICES ASSUME IInv, WriteTable PROVE IInv'
  OBVIOUS
<1> USE DEF IInv
<1>1. /\ UNCHANGED << script, openable, run, fault, passes, returned >>
      /\ pc = "table" /\ pc' = "open" /\ at' = at
      /\ module' = module /\ mapped' = mapped /\ mapped \in Seq(Passes)
  BY DEF WriteTable, Step, TypeOK, Running, Passes
<1>2. run > 0
  BY <1>1 DEF Given
<1>3. /\ dir' \in [Files -> Contents \cup {Absent, Torn}]
      /\ \A g \in Files : Whole(g)' => g \in openable /\ dir'[g].run \in 1 .. run
      /\ \A g \in Files \ {"table"} : dir'[g] = dir[g]
      /\ dir'["table"] = IF "table" \in openable THEN Content(mapped) ELSE dir["table"]
  <2>1. dir' = With("table", Content(mapped)) /\ UNCHANGED << openable, run >>
    BY <1>1 DEF WriteTable
  <2>2. "table" \in Files
    BY DEF Files
  <2> QED
    BY <1>1, <1>2, <2>1, <2>2, WriteKeepsFiles DEF TypeOK
<1>4. TypeOK'
  BY <1>1, <1>3 DEF TypeOK, Running
<1>5. Current("mapping")' /\ Current("table")'
  BY <1>1, <1>3, ContentIs DEF WrittenBefore, Current, Whole, Files
<1>6. NeverAhead'
  <2>1. \A f \in Files : Whole(f)' => dir'[f].run <= run
    BY <1>3, PipelineAssumption DEF TypeOK
  <2> QED
    BY <1>1, <1>5, <2>1 DEF NeverAhead, Current, Whole, Files
<1>7. SupermutatedBefore'
  BY <1>1, <1>5 DEF SupermutatedBefore, Begun, Current, Whole
<1> QED
  BY <1>1, <1>2, <1>4, <1>5, <1>6, <1>7 DEF WrittenBefore, Given

LEMMA OpenBitcodeStep == IInv /\ OpenBitcode => IInv'
<1> SUFFICES ASSUME IInv, OpenBitcode PROVE IInv'
  OBVIOUS
<1> USE DEF IInv
<1>1. /\ UNCHANGED << script, openable, run, fault, passes, returned >>
      /\ pc = "open" /\ pc' = "bitcode" /\ at' = at
      /\ module' = module /\ mapped' = mapped
  BY DEF OpenBitcode, Step, TypeOK, Running, Passes
<1>2. run > 0
  BY <1>1 DEF Given
<1>3. /\ dir' \in [Files -> Contents \cup {Absent, Torn}]
      /\ \A g \in Files : Whole(g)' => g \in openable /\ dir'[g].run \in 1 .. run
      /\ \A g \in Files \ {"bitcode"} : dir'[g] = dir[g]
      /\ dir'["bitcode"] = IF "bitcode" \in openable THEN Torn ELSE dir["bitcode"]
  <2>1. dir' = With("bitcode", Torn) /\ UNCHANGED << openable, run >>
    BY <1>1 DEF OpenBitcode
  <2>2. "bitcode" \in Files
    BY DEF Files
  <2> QED
    BY <1>1, <1>2, <2>1, <2>2, WriteKeepsFiles DEF TypeOK
<1>4. TypeOK'
  BY <1>1, <1>3 DEF TypeOK, Running
<1>5. (Current("mapping") => Current("mapping")') /\ (Current("table") => Current("table")')
  BY <1>1, <1>3 DEF Current, Whole, Files
<1>6. NeverAhead'
  <2>1. \A f \in Files : Whole(f)' => dir'[f].run <= run
    BY <1>3, PipelineAssumption DEF TypeOK
  <2> QED
    BY <1>1, <1>3, <1>5, <2>1 DEF NeverAhead, WrittenBefore, Current, Whole, Files
<1>7. SupermutatedBefore'
  BY <1>1, <1>5 DEF SupermutatedBefore, WrittenBefore, Begun, Current, Whole
<1> QED
  BY <1>1, <1>2, <1>4, <1>5, <1>6, <1>7 DEF WrittenBefore, Given

LEMMA WriteBitcodeStep == IInv /\ WriteBitcode => IInv'
<1> SUFFICES ASSUME IInv, WriteBitcode PROVE IInv'
  OBVIOUS
<1> USE DEF IInv
<1>1. /\ UNCHANGED << script, openable, run, fault, passes, returned >>
      /\ pc = "bitcode" /\ pc' = "pass" /\ at' = at + 1 /\ at \in 1 .. Len(passes)
      /\ module' = module /\ mapped' = mapped /\ module \in Seq(Passes)
  BY DEF WriteBitcode, Step, TypeOK, Running, Passes
<1>2. run > 0
  BY <1>1 DEF Given
<1>3. /\ dir' \in [Files -> Contents \cup {Absent, Torn}]
      /\ \A g \in Files : Whole(g)' => g \in openable /\ dir'[g].run \in 1 .. run
      /\ \A g \in Files \ {"bitcode"} : dir'[g] = dir[g]
      /\ dir'["bitcode"] = IF "bitcode" \in openable THEN Content(module) ELSE dir["bitcode"]
  <2>1. dir' = With("bitcode", Content(module)) /\ UNCHANGED << openable, run >>
    BY <1>1 DEF WriteBitcode
  <2>2. "bitcode" \in Files
    BY DEF Files
  <2> QED
    BY <1>1, <1>2, <2>1, <2>2, WriteKeepsFiles DEF TypeOK
<1>4. TypeOK'
  BY <1>1, <1>3 DEF TypeOK, Running
<1>5. (Current("mapping") => Current("mapping")') /\ (Current("table") => Current("table")')
  BY <1>1, <1>3 DEF Current, Whole, Files
<1>6. NeverAhead'
  <2>1. \A f \in Files : Whole(f)' => dir'[f].run <= run
    BY <1>3, PipelineAssumption DEF TypeOK
  <2> QED
    BY <1>1, <1>3, <1>5, <2>1 DEF NeverAhead, WrittenBefore, Current, Whole, Files
<1>7. SupermutatedBefore'
  BY <1>1, <1>5 DEF SupermutatedBefore, WrittenBefore, Begun, Current, Whole
<1> QED
  BY <1>1, <1>2, <1>4, <1>5, <1>6, <1>7 DEF WrittenBefore, Given

LEMMA NextIInv == IInv /\ [Next]_vars => IInv'
<1> SUFFICES ASSUME IInv, [Next]_vars PROVE IInv'
  OBVIOUS
<1>1. ASSUME NEW list \in IF script THEN ScriptLists ELSE UserLists, NEW wrong \in Faults,
             Begin(list, wrong)
      PROVE  IInv'
  BY <1>1, BeginStep
<1>2. CASE Supermutate
  BY <1>2, StopStep, QuietStep, MutateStep, WriteTableStep, OpenBitcodeStep, WriteBitcodeStep
     DEF Supermutate, LoadConfig, CollectFails, OpenBitcodeFails
<1>3. CASE Simplify \/ StartMapping \/ Rest \/ UNCHANGED vars
  BY <1>3, QuietStep DEF Rest
<1>4. CASE BuildFails \/ Kill
  BY <1>4, StopStep DEF BuildFails, Kill
<1> QED
  BY <1>1, <1>2, <1>3, <1>4, BuildStep, SaveStep, ReturnStep DEF Next

THEOREM Invariance == Spec => []IInv
<1>1. Init => IInv
  BY InitIInv
<1> QED
  BY <1>1, NextIInv, PTL DEF Spec

\* Every variable keeps its shape, for any number of commands and any lists of
\* passes; a whole file is one that could be opened, of a command that has begun.
THEOREM TypeCorrect == Spec => []TypeOK
<1>1. IInv => TypeOK
  BY DEF IInv
<1> QED
  BY <1>1, Invariance, PTL

\* However many commands fail, and wherever they do: no bitcode lies beside an
\* older table, and no table beside an older mapping.
THEOREM FilesInOrder == Spec => []NeverAhead
<1>1. IInv => NeverAhead
  BY DEF IInv
<1> QED
  BY <1>1, Invariance, PTL

-------------------------------------------------------------------------------
(* The three files belong together.                                        *)

\* The current command has supermutated, and is supermutating.
Supermutated  == \E i \in 1 .. at - 1 : passes[i] = "supermutate"
Supermutating == pc # "pass" /\ Running("supermutate")

\* Among the first n passes, p comes after the last "supermutate".
Since(p, n) ==
  \E i \in 1 .. n : passes[i] = p /\ \A j \in i .. n : passes[j] # "supermutate"

\* File f is of the numbers that the current mapping gives.
Numbered(f) == f \in openable => dir[f] = Content(mapped)

\* While the command supermutates: what it has mapped is the module that it
\* mutates, and its files are written of that, one after the other.
Making ==
  pc # "idle" /\ Supermutating =>
    /\ pc \in {"save", "collect"} => module = mapped
    /\ pc \in {"table", "open", "bitcode"} => module = Append(mapped, "supermutate")
    /\ pc \in {"collect", "table", "open", "bitcode"} => Numbered("mapping")
    /\ pc \in {"open", "bitcode"} => Numbered("table")
    /\ pc = "bitcode" => "bitcode" \in openable

\* Once it has, and until it does again: the bitcode in the directory is the
\* command's, the table beside it fits it, and the module that opt has; the
\* bitcode is that module, unless it has been simplified since, and the mapping
\* is the table's, unless llvmtosource has begun to write it since.
Together ==
  pc # "idle" /\ Supermutated /\ ~ Supermutating =>
    /\ Whole("bitcode") /\ dir["bitcode"].run = run
    /\ dir["bitcode"].of = module \/ Since("simplify", at - 1)
    /\ "table" \in openable =>
         TableFits /\ IsPrefix(Append(dir["table"].of, "supermutate"), module)
    /\ {"table", "mapping"} \subseteq openable =>
         \/ dir["mapping"] = dir["table"]
         \/ Since("llvmtosource", IF pc = "pass" THEN at - 1 ELSE at)

\* A command that runs has not returned, and with the script leaves no whole
\* bitcode before it has supermutated.
NotYet ==
  /\ returned => pc = "idle"
  /\ pc # "idle" /\ script /\ Whole("bitcode") => Supermutated

FitInv == Making /\ Together /\ NotYet /\ ReturnedMeansWritten /\ BitcodeHasItsTable

\* What it is to be a prefix, place by place.
LEMMA PrefixIs ==
  ASSUME NEW S, NEW s \in Seq(S), NEW t \in Seq(S)
  PROVE  IsPrefix(s, t) <=> Len(s) <= Len(t) /\ \A i \in 1 .. Len(s) : s[i] = t[i]
<1>1. ASSUME Len(s) <= Len(t)
      PROVE  (SubSeq(s, 1, Len(s)) = SubSeq(t, 1, Len(s))) <=> \A i \in 1 .. Len(s) : s[i] = t[i]
  <2>1. SubSeq(s, 1, Len(s)) = [i \in 1 .. Len(s) |-> s[i]]
    OBVIOUS
  <2>2. SubSeq(t, 1, Len(s)) = [i \in 1 .. Len(s) |-> t[i]]
    BY <1>1
  <2> QED
    BY <2>1, <2>2
<1> QED
  BY <1>1 DEF IsPrefix

LEMMA PrefixGrows ==
  ASSUME NEW S, NEW s \in Seq(S), NEW t \in Seq(S), NEW e \in S, IsPrefix(s, t)
  PROVE  IsPrefix(s, Append(t, e))
<1>1. Len(s) <= Len(t) /\ \A i \in 1 .. Len(s) : s[i] = t[i]
  BY PrefixIs
<1>2. /\ Append(t, e) \in Seq(S) /\ Len(Append(t, e)) = Len(t) + 1
      /\ \A i \in 1 .. Len(t) : Append(t, e)[i] = t[i]
  OBVIOUS
<1>3. Len(s) <= Len(Append(t, e)) /\ \A i \in 1 .. Len(s) : Append(t, e)[i] = s[i]
  BY <1>1, <1>2
<1> QED
  BY <1>2, <1>3, PrefixIs

\* No module is smaller than itself.
LEMMA SizeIsOwn == ASSUME NEW m \in Seq(Passes) PROVE ~ (Size(m) > Size(m))
<1>1. ASSUME NEW p PROVE Times(p, m) \in Nat
  <2>1. IsFiniteSet(1 .. Len(m)) /\ DOMAIN m = 1 .. Len(m)
    BY FS_Interval
  <2>2. IsFiniteSet({i \in DOMAIN m : m[i] = p})
    BY <2>1, FS_Subset
  <2> QED
    BY <2>2, FS_CardinalityType DEF Times
<1>2. Times("supermutate", m) \in Nat /\ Times("simplify", m) \in Nat
  BY <1>1
<1>3. Size(m) \in Int
  BY <1>2 DEF Size
<1> QED
  BY <1>3

LEMMA SinceGrows ==
  ASSUME NEW n \in Nat, passes[n] # "supermutate", NEW p, Since(p, n - 1)
  PROVE  Since(p, n)
BY DEF Since

LEMMA InitFitInv == Init => FitInv
BY DEF Files, Init, FitInv, Making, Together, NotYet, ReturnedMeansWritten, BitcodeHasItsTable, Whole

-------------------------------------------------------------------------------
(* The steps.                                                              *)

\* A command that begins has not supermutated, and with the script takes away
\* what bitcode there was.
LEMMA BeginFits ==
  ASSUME IInv, FitInv, NEW list \in IF script THEN ScriptLists ELSE UserLists,
         NEW wrong \in Faults, Begin(list, wrong)
  PROVE  FitInv'
<1>1. /\ UNCHANGED << script, openable >>
      /\ at' = 1 /\ ~ returned' /\ pc' \in {"idle", "pass"}
  BY DEF Begin
<1>2. script => ~ Whole("bitcode")'
  <2>1. ASSUME script PROVE ~ Whole("bitcode")'
    <3>1. dir' = With("bitcode", Torn)
      BY <2>1 DEF Begin
    <3>2. dir'["bitcode"] = IF "bitcode" \in openable THEN Torn ELSE dir["bitcode"]
      BY <3>1, WithIs DEF Files, IInv
    <3> QED
      BY <3>2 DEF Whole, IInv, TypeOK, Files
  <2> QED
    BY <2>1
<1> QED
  BY <1>1, <1>2 DEF FitInv, Making, Supermutating, Together, Supermutated, NotYet,
                    ReturnedMeansWritten, BitcodeHasItsTable

\* A command that stops without returning leaves the files as they were, but for
\* the bitcode, which it may remove.
LEMMA StopFits ==
  ASSUME IInv, FitInv, pc # "idle", Exit1 \/ Abort
  PROVE  FitInv'
<1>1. /\ UNCHANGED << script, openable, run, passes, at, module, returned >>
      /\ pc' = "idle" /\ ~ returned
  BY DEF Exit1, Abort, Stop, FitInv, NotYet, command
<1>2. dir' = dir \/ ~ Whole("bitcode")'
  <2>1. ASSUME dir' = With("bitcode", Absent) PROVE ~ Whole("bitcode")'
    <3>1. dir'["bitcode"] = IF "bitcode" \in openable THEN Absent ELSE dir["bitcode"]
      BY <2>1, WithIs DEF Files, IInv
    <3> QED
      BY <3>1 DEF Whole, IInv, TypeOK, Files
  <2> QED
    BY <2>1 DEF Exit1, Abort, Stop
<1>3. BitcodeHasItsTable'
  BY <1>1, <1>2 DEF FitInv, BitcodeHasItsTable, Whole, Fits, TableFits, MappingFits, After, Once
<1> QED
  BY <1>1, <1>3 DEF FitInv, Making, Together, NotYet, ReturnedMeansWritten

\* The simplification leaves the files, and what was a prefix of the module is.
LEMMA SimplifyFits == ASSUME IInv, FitInv, Simplify PROVE FitInv'
<1>1. /\ UNCHANGED << script, openable, dir, run, passes, mapped, pc, returned >>
      /\ pc = "pass" /\ at' = at + 1 /\ at \in 1 .. Len(passes) /\ at - 1 \in Nat
      /\ passes[at] = "simplify" /\ module' = Append(module, "simplify")
      /\ module \in Seq(Passes) /\ "simplify" \in Passes /\ "supermutate" \in Passes
  BY DEF Simplify, Running, IInv, TypeOK, Passes
<1>2. Supermutated' <=> Supermutated
  BY <1>1 DEF Supermutated
<1>3. Together'
  <2>1. Since("simplify", at - 1)'
    BY <1>1 DEF Since
  <2>2. Since("llvmtosource", at - 1) => Since("llvmtosource", at - 1)'
    <3>1. Since("llvmtosource", at - 1) => Since("llvmtosource", at)
      BY <1>1, SinceGrows
    <3>2. at' - 1 = at
      BY <1>1
    <3> QED
      BY <1>1, <3>1, <3>2 DEF Since
  <2>3. ASSUME TableFits, IsPrefix(Append(dir["table"].of, "supermutate"), module)
        PROVE  TableFits' /\ IsPrefix(Append(dir'["table"].of, "supermutate"), module')
    <3>1. dir["table"] \in Contents
      BY <2>3 DEF TableFits, Whole, IInv, TypeOK, Files
    <3>2. Append(dir["table"].of, "supermutate") \in Seq(Passes)
      BY <1>1, <3>1 DEF Contents
    <3>3. IsPrefix(Append(dir["table"].of, "supermutate"), module')
      BY <1>1, <2>3, <3>2, PrefixGrows
    <3> QED
      BY <1>1, <2>3, <3>3 DEF TableFits, Whole
  <2> QED
    BY <1>1, <1>2, <2>1, <2>2, <2>3 DEF FitInv, Together, Supermutating, Whole
<1> QED
  BY <1>1, <1>2, <1>3 DEF FitInv, Making, Supermutating, NotYet, ReturnedMeansWritten,
       BitcodeHasItsTable, Whole, Fits, TableFits, MappingFits, After, Once

\* The passes begin, and nothing happens.
LEMMA QuietFits ==
  ASSUME IInv, FitInv,
         \/ /\ Running("supermutate") \/ Running("llvmtosource")
            /\ Step("pass", "build") /\ UNCHANGED << dir, at, module, mapped >>
         \/ UNCHANGED vars
  PROVE  FitInv'
<1> USE DEF FitInv
<1>1. CASE UNCHANGED vars
  BY <1>1 DEF vars, command, Making, Supermutating, Running, Numbered, Content, Together,
       Supermutated, Since, NotYet, ReturnedMeansWritten, BitcodeHasItsTable, Whole, Fits,
       TableFits, MappingFits, After, Once
<1>2. CASE /\ Running("supermutate") \/ Running("llvmtosource")
           /\ Step("pass", "build") /\ UNCHANGED << dir, at, module, mapped >>
  <2>1. /\ UNCHANGED << script, openable, dir, run, passes, at, module, mapped, returned >>
        /\ pc = "pass" /\ pc' = "build" /\ at - 1 \in Nat
    BY <1>2 DEF Step, IInv, TypeOK
  <2>2. Together'
    <3>1. ASSUME ~ Supermutating', Since("llvmtosource", at - 1)
          PROVE  Since("llvmtosource", at)
      <4>1. passes[at] # "supermutate" /\ at \in Nat
        BY <1>2, <2>1, <3>1 DEF Supermutating, Running, IInv, TypeOK
      <4> QED
        BY <3>1, <4>1, SinceGrows
    <3> QED
      BY <2>1, <3>1 DEF Together, Supermutating, Running, Supermutated, Since, Whole, TableFits
  <2> QED
    BY <2>1, <2>2 DEF Making, Supermutating, Running, Supermutated, NotYet,
         ReturnedMeansWritten, BitcodeHasItsTable, Whole, Fits, TableFits, MappingFits, After, Once
<1> QED
  BY <1>1, <1>2


\* While the command supermutates, nothing is said of its bitcode but that what
\* is whole is of an earlier supermutation.
LEMMA MakingFits ==
  ASSUME IInv, FitInv, pc # "idle", Supermutating, Supermutating', pc' # "idle",
         UNCHANGED << script, openable, run, passes, at, returned >>,
         dir'["bitcode"] = dir["bitcode"] \/ ~ Whole("bitcode")', Making'
  PROVE  FitInv'
<1> USE DEF FitInv
<1>1. ~ returned
  BY DEF NotYet
<1>2. script /\ Whole("bitcode")' => Whole("bitcode") /\ Supermutated
  BY DEF NotYet, Whole
<1>3. BitcodeHasItsTable'
  <2>1. ASSUME Supermutated PROVE ~ Once("supermutate")
    <3>1. PICK i \in 1 .. at - 1 : passes[i] = "supermutate"
      BY <2>1 DEF Supermutated
    <3>2. passes[at] = "supermutate" /\ at \in DOMAIN passes /\ i \in DOMAIN passes /\ i # at
      BY DEF Supermutating, Running, IInv, TypeOK
    <3> QED
      BY <3>1, <3>2 DEF Once
  <2> QED
    BY <1>2, <2>1 DEF BitcodeHasItsTable, Whole, Once
<1> QED
  BY <1>1, <1>2, <1>3 DEF Together, NotYet, Supermutated, ReturnedMeansWritten

\* llvmtosource writes nothing but the mapping.
LEMMA RemappedFits ==
  ASSUME IInv, FitInv, pc # "idle", pc # "pass", Running("llvmtosource"),
         UNCHANGED << script, openable, run, passes, module, returned >>,
         \/ pc' = "save" /\ at' = at
         \/ pc' = "pass" /\ at' = at + 1,
         \A f \in {"bitcode", "table"} : dir'[f] = dir[f]
  PROVE  FitInv'
<1> USE DEF FitInv
<1>1. passes[at] = "llvmtosource" /\ at \in 1 .. Len(passes) /\ at \in Nat
  BY DEF Running, IInv, TypeOK
<1>2. ~ Supermutating /\ ~ Supermutating' /\ (Supermutated' <=> Supermutated)
  BY <1>1 DEF Supermutating, Supermutated, Running
<1>3. Since("llvmtosource", IF pc = "pass" THEN at - 1 ELSE at)'
  <2>1. (IF pc' = "pass" THEN at' - 1 ELSE at') = at
    BY <1>1
  <2> QED
    BY <1>1, <2>1 DEF Since
<1>4. Since("simplify", at - 1) => Since("simplify", at - 1)'
  <2>1. CASE at' = at
    BY <2>1 DEF Since
  <2>2. CASE at' = at + 1
    <3>1. Since("simplify", at - 1) => Since("simplify", at)
      BY <1>1, SinceGrows
    <3>2. at' - 1 = at
      BY <1>1, <2>2
    <3> QED
      BY <3>1, <3>2 DEF Since
  <2> QED
    BY <2>1, <2>2
<1>5. Together'
  BY <1>2, <1>3, <1>4 DEF Together, Whole, TableFits
<1>6. Supermutated /\ Once("supermutate") => After("llvmtosource", "supermutate")
  <2>1. ASSUME Supermutated, Once("supermutate")
        PROVE  \A j \in at .. Len(passes) : passes[j] # "supermutate"
    <3>1. PICK i \in 1 .. at - 1 : passes[i] = "supermutate"
      BY <2>1 DEF Supermutated
    <3>2. DOMAIN passes = 1 .. Len(passes)
      BY DEF IInv, TypeOK
    <3> QED
      BY <1>1, <2>1, <3>1, <3>2 DEF Once
  <2>2. at \in DOMAIN passes
    BY <1>1 DEF IInv, TypeOK
  <2> QED
    BY <1>1, <2>1, <2>2 DEF After
<1>7. BitcodeHasItsTable'
  <2>1. ASSUME script, Whole("bitcode")
        PROVE  /\ dir["bitcode"].run = run
               /\ Once("supermutate") => ("table" \in openable => TableFits)
                                           /\ After("llvmtosource", "supermutate")
    BY <1>6, <2>1 DEF BitcodeHasItsTable, NotYet, Fits
  <2> QED
    BY <2>1 DEF BitcodeHasItsTable, Whole, Once, Fits, TableFits, MappingFits, After
<1> QED
  BY <1>2, <1>5, <1>7 DEF Making, NotYet, Whole, ReturnedMeansWritten

LEMMA BuildFits == ASSUME IInv, FitInv, Build PROVE FitInv'
<1>1. /\ UNCHANGED << script, openable, run, passes, at, module, returned >>
      /\ pc = "build" /\ pc' = "save" /\ mapped' = module
      /\ Running("supermutate") \/ Running("llvmtosource")
  BY DEF Build, Step, IInv, TypeOK
<1>2. \A f \in {"bitcode", "table"} : dir'[f] = dir[f]
  <2>1. dir' = With("mapping", Torn)
    BY DEF Build
  <2> QED
    BY <2>1, WithIs DEF Files, IInv
<1>3. CASE Running("supermutate")
  <2>1. Supermutating /\ Supermutating'
    BY <1>1, <1>3 DEF Supermutating, Running
  <2>2. Making'
    BY <1>1 DEF Making
  <2> QED
    BY <1>1, <1>2, <2>1, <2>2, MakingFits
<1>4. CASE Running("llvmtosource")
  BY <1>1, <1>2, <1>4, RemappedFits
<1> QED
  BY <1>1, <1>3, <1>4

LEMMA SaveFits == ASSUME IInv, FitInv, Save PROVE FitInv'
<1>1. /\ UNCHANGED << script, openable, run, passes, module, mapped, returned >>
      /\ pc = "save"
      /\ \/ pc' = "collect" /\ at' = at /\ Running("supermutate")
         \/ pc' = "pass" /\ at' = at + 1 /\ Running("llvmtosource")
  BY DEF Save, Step, IInv, TypeOK
<1>2. /\ \A f \in {"bitcode", "table"} : dir'[f] = dir[f]
      /\ "mapping" \in openable => dir'["mapping"] = Content(mapped)
  <2>1. dir' = With("mapping", Content(mapped)) /\ Content(mapped) \in Contents
    BY ContentIs DEF Save, IInv, TypeOK
  <2> QED
    BY <2>1, WithIs DEF Files, IInv
<1>3. CASE pc' = "collect" /\ at' = at /\ Running("supermutate")
  <2>1. Supermutating /\ Supermutating'
    BY <1>1, <1>3 DEF Supermutating, Running
  <2>2. Making'
    BY <1>1, <1>2, <1>3, <2>1 DEF FitInv, Making, Numbered, Content
  <2> QED
    BY <1>1, <1>2, <1>3, <2>1, <2>2, MakingFits
<1>4. CASE pc' = "pass" /\ at' = at + 1 /\ Running("llvmtosource")
  BY <1>1, <1>2, <1>4, RemappedFits
<1> QED
  BY <1>1, <1>3, <1>4

\* What the steps from "collect" to "bitcode" have in common.
LEMMA MakingGoesOn ==
  ASSUME IInv, FitInv, NEW from \in {"collect", "table", "open"},
         NEW to \in {"table", "open", "bitcode"}, Step(from, to), at' = at
  PROVE  /\ UNCHANGED << script, openable, run, passes, at, returned >>
         /\ pc = from /\ pc' = to
         /\ Supermutating /\ Supermutating'
<1>1. /\ UNCHANGED << script, openable, run, passes, at, returned >>
      /\ pc = from /\ pc' = to /\ Running("supermutate")
  BY DEF Step, IInv, TypeOK
<1> QED
  BY <1>1 DEF Supermutating, Running

LEMMA MutateFits == ASSUME IInv, FitInv, Mutate PROVE FitInv'
<1>1. /\ UNCHANGED << script, openable, run, passes, at, returned >>
      /\ pc = "collect" /\ pc' = "table" /\ Supermutating /\ Supermutating'
  BY MakingGoesOn DEF Mutate
<1>2. \A f \in {"bitcode", "mapping"} : dir'[f] = dir[f]
  <2>1. dir' = With("table", Torn)
    BY DEF Mutate
  <2> QED
    BY <2>1, WithIs DEF Files, IInv
<1>3. Making'
  BY <1>1, <1>2 DEF Mutate, FitInv, Making, Numbered, Content
<1> QED
  BY <1>1, <1>2, <1>3, MakingFits

LEMMA WriteTableFits == ASSUME IInv, FitInv, WriteTable PROVE FitInv'
<1>1. /\ UNCHANGED << script, openable, run, passes, at, returned >>
      /\ pc = "table" /\ pc' = "open" /\ Supermutating /\ Supermutating'
  BY MakingGoesOn DEF WriteTable
<1>2. /\ \A f \in {"bitcode", "mapping"} : dir'[f] = dir[f]
      /\ "table" \in openable => dir'["table"] = Content(mapped)
  <2>1. dir' = With("table", Content(mapped)) /\ Content(mapped) \in Contents
    BY ContentIs DEF WriteTable, IInv, TypeOK
  <2> QED
    BY <2>1, WithIs DEF Files, IInv
<1>3. Making'
  BY <1>1, <1>2 DEF WriteTable, FitInv, Making, Numbered, Content
<1> QED
  BY <1>1, <1>2, <1>3, MakingFits

LEMMA OpenBitcodeFits == ASSUME IInv, FitInv, OpenBitcode PROVE FitInv'
<1>1. /\ UNCHANGED << script, openable, run, passes, at, returned >>
      /\ pc = "open" /\ pc' = "bitcode" /\ Supermutating /\ Supermutating'
  BY MakingGoesOn DEF OpenBitcode
<1>2. /\ \A f \in {"table", "mapping"} : dir'[f] = dir[f]
      /\ ~ Whole("bitcode")'
  <2>1. dir' = With("bitcode", Torn) /\ "bitcode" \in openable
    BY DEF OpenBitcode
  <2>2. dir'["bitcode"] = Torn /\ \A f \in {"table", "mapping"} : dir'[f] = dir[f]
    BY <2>1, WithIs DEF Files, IInv
  <2> QED
    BY <2>2 DEF Whole
<1>3. Making'
  BY <1>1, <1>2 DEF OpenBitcode, FitInv, Making, Numbered, Content
<1> QED
  BY <1>1, <1>2, <1>3, MakingFits

\* The bitcode is of the module that was mapped and then mutated, as the table is.
LEMMA WriteBitcodeFits == ASSUME IInv, FitInv, WriteBitcode PROVE FitInv'
<1> USE DEF FitInv
<1>1. /\ UNCHANGED << script, openable, run, passes, module, mapped, returned >>
      /\ pc = "bitcode" /\ pc' = "pass" /\ at' = at + 1 /\ at \in 1 .. Len(passes)
      /\ passes[at] = "supermutate" /\ Supermutating
      /\ module \in Seq(Passes) /\ mapped \in Seq(Passes)
  BY DEF WriteBitcode, Step, Running, Supermutating, IInv, TypeOK
<1>2. /\ module = Append(mapped, "supermutate") /\ "bitcode" \in openable
      /\ "table" \in openable => dir["table"] = Content(mapped)
      /\ "mapping" \in openable => dir["mapping"] = Content(mapped)
  BY <1>1 DEF Making, Numbered
<1>3. dir'["bitcode"] = Content(module) /\ \A f \in {"table", "mapping"} : dir'[f] = dir[f]
  <2>1. dir' = With("bitcode", Content(module)) /\ Content(module) \in Contents
    BY <1>1, ContentIs DEF WriteBitcode, IInv
  <2> QED
    BY <1>2, <2>1, WithIs DEF Files, IInv
<1>4. /\ Content(module) \notin {Absent, Torn} /\ Content(mapped) \notin {Absent, Torn}
      /\ Content(module).run = run /\ Content(mapped).run = run
      /\ Content(module).of = module /\ Content(mapped).of = mapped
  BY <1>1, ContentIs DEF Content, IInv
<1>5. IsPrefix(module, module)
  BY <1>1, PrefixIs
<1>6. "table" \in openable =>
        TableFits' /\ IsPrefix(Append(dir'["table"].of, "supermutate"), module)
  BY <1>2, <1>3, <1>4, <1>5 DEF TableFits, Whole
<1>7. {"table", "mapping"} \subseteq openable => dir'["mapping"] = dir'["table"]
  BY <1>2, <1>3
<1>8. Whole("bitcode")' /\ dir'["bitcode"].run = run /\ dir'["bitcode"].of = module
  BY <1>3, <1>4 DEF Whole
<1>9. Supermutated' /\ ~ Supermutating' /\ ~ returned
  BY <1>1 DEF Supermutated, Supermutating, NotYet
<1>10. Together'
  BY <1>1, <1>6, <1>7, <1>8 DEF Together
<1>11. BitcodeHasItsTable'
  BY <1>1, <1>6, <1>7, <1>8 DEF BitcodeHasItsTable, Fits, MappingFits
<1> QED
  BY <1>1, <1>9, <1>10, <1>11 DEF Making, NotYet, ReturnedMeansWritten

\* When all passes have run, opt leaves what Together says, with its output in
\* the place of the bitcode if it is the script's.
LEMMA ReturnFits == ASSUME IInv, FitInv, Return PROVE FitInv'
<1> USE DEF FitInv
<1>1. /\ UNCHANGED << script, openable, run, passes, at, module >>
      /\ pc = "pass" /\ pc' = "idle" /\ at - 1 = Len(passes)
      /\ module \in Seq(Passes) /\ DOMAIN passes = 1 .. Len(passes)
  BY DEF Return, command, IInv, TypeOK
<1>2. CASE "supermutate" \notin ToSet(passes)
  <2>1. ~ script
    BY <1>1, <1>2, PipelineAssumption DEF IInv, Given
  <2> QED
    BY <1>1, <1>2, <2>1 DEF Making, Together, NotYet, ReturnedMeansWritten, BitcodeHasItsTable
<1>3. CASE "supermutate" \in ToSet(passes)
  <2>1. Supermutated /\ ~ Supermutating
    BY <1>1, <1>3 DEF ToSet, Supermutated, Supermutating
  <2>2. ASSUME NEW p, Since(p, at - 1) PROVE After(p, "supermutate")
    BY <1>1, <2>2 DEF Since, After
  <2>3. /\ Whole("bitcode") /\ dir["bitcode"].run = run
        /\ dir["bitcode"].of = module \/ After("simplify", "supermutate")
        /\ "table" \in openable =>
             TableFits /\ IsPrefix(Append(dir["table"].of, "supermutate"), module)
        /\ {"table", "mapping"} \subseteq openable => MappingFits
    BY <1>1, <2>1, <2>2 DEF Together, MappingFits
  <2>4. "bitcode" \in openable /\ Content(module) \in Contents
        /\ Content(module).run = run /\ Content(module).of = module
        /\ Content(module) \notin {Absent, Torn}
    BY <1>1, <2>3, ContentIs DEF Content, IInv, TypeOK, Files
  <2>5. CASE dir' = dir
    <3>1. Whole("bitcode")' /\ dir'["bitcode"].run = run' /\ Fits'
      BY <1>1, <2>3, <2>5 DEF Whole, Fits, TableFits, MappingFits, After
    <3> QED
      BY <1>1, <3>1 DEF Making, Together, NotYet, ReturnedMeansWritten, BitcodeHasItsTable
  <2>6. CASE /\ script /\ dir' = With("bitcode", Torn)
             /\ Size(dir["bitcode"].of) > Size(module)
    <3>1. dir'["bitcode"] = Torn /\ After("simplify", "supermutate")'
      <4>1. dir["bitcode"].of # module
        BY <1>1, <2>6, SizeIsOwn
      <4> QED
        BY <1>1, <2>3, <2>4, <2>6, <4>1, WithIs DEF Files, IInv, After
    <3>2. ~ Whole("bitcode")'
      BY <3>1 DEF Whole
    <3> QED
      BY <1>1, <2>6, <3>1, <3>2
         DEF Making, Together, NotYet, ReturnedMeansWritten, BitcodeHasItsTable
  <2>7. CASE script /\ dir' = With("bitcode", Content(module))
    <3>1. dir'["bitcode"] = Content(module) /\ \A f \in {"table", "mapping"} : dir'[f] = dir[f]
      BY <2>4, <2>7, WithIs DEF Files, IInv
    <3>2. "table" \in openable => TableFits'
      BY <1>1, <2>3, <2>4, <3>1 DEF TableFits, Whole
    <3>3. {"table", "mapping"} \subseteq openable => MappingFits'
      BY <1>1, <2>3, <3>1 DEF MappingFits, After
    <3>4. Whole("bitcode")' /\ dir'["bitcode"].run = run' /\ Fits'
      BY <1>1, <2>4, <3>1, <3>2, <3>3 DEF Whole, Fits
    <3> QED
      BY <1>1, <3>4 DEF Making, Together, NotYet, ReturnedMeansWritten, BitcodeHasItsTable
  <2>8. \/ dir' = dir
        \/ script /\ dir' = With("bitcode", Torn) /\ Size(dir["bitcode"].of) > Size(module)
        \/ script /\ dir' = With("bitcode", Content(module))
    BY DEF Return
  <2> QED
    BY <2>5, <2>6, <2>7, <2>8
<1> QED
  BY <1>2, <1>3

LEMMA NextFits == IInv /\ FitInv /\ [Next]_vars => FitInv'
<1> SUFFICES ASSUME IInv, FitInv, [Next]_vars PROVE FitInv'
  OBVIOUS
<1>1. ASSUME NEW list \in IF script THEN ScriptLists ELSE UserLists, NEW wrong \in Faults,
             Begin(list, wrong)
      PROVE  FitInv'
  BY <1>1, BeginFits
<1>2. CASE Supermutate
  <2>1. CASE LoadConfig
    <3>1. \/ pc # "idle" /\ (Exit1 \/ Abort)
          \/ /\ Running("supermutate") \/ Running("llvmtosource")
             /\ Step("pass", "build") /\ UNCHANGED << dir, at, module, mapped >>
      BY <2>1 DEF LoadConfig
    <3> QED
      BY <3>1, StopFits, QuietFits
  <2>2. CASE CollectFails \/ OpenBitcodeFails
    BY <2>2, StopFits DEF CollectFails, OpenBitcodeFails
  <2> QED
    BY <1>2, <2>1, <2>2, MutateFits, WriteTableFits, OpenBitcodeFits, WriteBitcodeFits
       DEF Supermutate
<1>3. CASE StartMapping \/ Rest \/ UNCHANGED vars
  BY <1>3, QuietFits DEF StartMapping, Rest
<1>4. CASE BuildFails \/ Kill
  BY <1>4, StopFits DEF BuildFails, Kill
<1> QED
  BY <1>1, <1>2, <1>3, <1>4, SimplifyFits, BuildFits, SaveFits, ReturnFits DEF Next

\* At every place of every command, what is in the files is what Making and
\* Together say, whatever came before and wherever that ended.
THEOREM FitInvariance == Spec => [](IInv /\ FitInv)
<1>1. Init => IInv /\ FitInv
  BY InitIInv, InitFitInv
<1>2. IInv /\ FitInv /\ [Next]_vars => (IInv /\ FitInv)'
  BY NextIInv, NextFits
<1> QED
  BY <1>1, <1>2, PTL DEF Spec

\* A command that returns 0 and has supermutated leaves a bitcode of its own, a
\* table of the module that was mutated into it and the mapping with the table's
\* numbers; only a simplification after it, or llvmtosource, undoes that.
THEOREM FilesFit == Spec => []ReturnedMeansWritten
<1>1. FitInv => ReturnedMeansWritten
  BY DEF FitInv
<1> QED
  BY <1>1, FitInvariance, PTL

\* With the script, no failure and no kill leaves a whole bitcode beside a table
\* or a mapping that is not its own.
THEOREM NoStrayBitcode == Spec => []BitcodeHasItsTable
<1>1. FitInv => BitcodeHasItsTable
  BY DEF FitInv
<1> QED
  BY <1>1, FitInvariance, PTL
===============================================================================
