--------------------------- MODULE Installation_proofs ---------------------------
(***************************************************************************)
(* Theorems about the installation, for any number of commands: each       *)
(* volume is one that ImageToVolume describes, so that what is proved of   *)
(* that script holds of both; and the last command that exits with 0       *)
(* leaves in them what it was to install.                                  *)
(***************************************************************************)
EXTENDS Installation, SequenceTheorems, TLAPS

\* The theorems of ImageToVolume about the two volumes.
ToolScript == INSTANCE ImageToVolume_proofs WITH Runs <- Makes, image <- toolImage,
                volume <- toolVolume, inUse <- toolInUse, pc <- toolPc, sha <- toolSha,
                broken <- toolBroken

LlvmScript == INSTANCE ImageToVolume_proofs WITH Runs <- Makes, image <- llvmImage,
                volume <- llvmVolume, inUse <- llvmInUse, pc <- llvmPc, sha <- llvmSha,
                broken <- llvmBroken

USE MaxMakesAssumption, MaxImageAssumption, MarksAssumption DEF Makes

-------------------------------------------------------------------------------
(* The invariant.                                                          *)

StepNames == {"waiting", "llvm", "tool", "install", "only_install", "failed", "killed"}

ShapeInv ==
  /\ step \in [Makes -> StepNames]
  /\ llvmImage \in 0 .. MaxImage
  /\ builtWith \in Seq(1 .. llvmImage) /\ Len(builtWith) <= MaxImage
  /\ refused \in BOOLEAN
  /\ container \in {"none", "checking", "opt", "failed"}
  /\ toolPc \in [Makes -> Tool!Steps] /\ llvmPc \in [Makes -> Tool!Steps]

\* A command's scripts start one after the other, once it has built the images,
\* and it is begun when those before it have ended.
OrderInv ==
  /\ \A m \in Makes :
       /\ toolPc[m] # "inspect_image" => Installing(m)
       /\ llvmPc[m] # "inspect_image" => Exited0(toolPc[m])
       /\ step[m] = "tool" => llvmImage # 0
  /\ \A m, n \in Makes : n < m /\ step[m] # "waiting" => Ended(n)

LastBegun(m) == step[m] # "waiting" /\ \A n \in Makes : n > m => step[n] = "waiting"

\* Command m has a volume that it has made empty, or filled.
DoneRight(pc, volume, image, broken) ==
  /\ pc \in {"create", "run"} => Content(volume) = Empty
  /\ Exited0(pc) => Content(volume) = image \/ (broken /\ Content(volume) = Empty)

\* What the last command has read is still true, and what it has done still there,
\* unless a container has kept it from doing so.
LastInv(pc, sha, volume, image, broken) ==
  \A m \in Makes :
    LastBegun(m) =>
      /\ pc[m] \notin {"inspect_image", "failed", "killed"} => sha[m] = image
      /\ ~ refused => DoneRight(pc[m], volume, image, broken)

\* The LLVM image that is there is the one that was copied.
CopiedInv ==
  \A m \in Makes :
    LastBegun(m) /\ step[m] = "install" =>
      builtWith # <<>> /\ builtWith[Len(builtWith)] = llvmImage

IInv ==
  /\ ShapeInv
  /\ OrderInv
  /\ ToolScript!IInv /\ LlvmScript!IInv
  /\ LastInv(toolPc, toolSha, toolVolume, toolImage, toolBroken)
  /\ LastInv(llvmPc, llvmSha, llvmVolume, llvmImage, llvmBroken)
  /\ CopiedInv
-------------------------------------------------------------------------------
(* Refinement: every step is one of each script, of its world, or stutters. *)

LEMMA ToolSimulation ==
  ASSUME ShapeInv, [Next]_vars
  PROVE  [Tool!Next]_(Tool!vars)
<1> USE DEF Tool!vars, toolState, llvmState, images, toolImage
<1>1. ASSUME NEW m \in Makes, BuildTool(m)
      PROVE  Tool!Pull \/ UNCHANGED Tool!vars
  <2>1. CASE UNCHANGED builtWith
    BY <1>1, <2>1 DEF BuildTool
  <2>2. CASE Len(builtWith) < MaxImage /\ builtWith' = Append(builtWith, llvmImage)
    <3>1. Len(builtWith') = Len(builtWith) + 1
      BY <2>2 DEF ShapeInv
    <3> QED  BY <1>1, <2>2, <3>1 DEF BuildTool, Tool!Pull
  <2> QED  BY <1>1, <2>1, <2>2 DEF BuildTool
<1>2. ASSUME NEW m \in Makes, InstallTool(m)
      PROVE  Tool!Script(m) \/ Tool!Kill(m)
  BY <1>2 DEF InstallTool
<1>3. ASSUME NEW m \in Makes, Begin(m) \/ BuildLlvm(m) \/ BuildStops(m) \/ InstallLlvm(m)
      PROVE  UNCHANGED Tool!vars
  BY <1>3 DEF Begin, BuildLlvm, BuildStops, InstallLlvm
<1>4. ASSUME Start \/ Stop
      PROVE  Tool!Use
  BY <1>4 DEF Start, Stop
<1>5. Check \/ UNCHANGED vars => UNCHANGED Tool!vars
  BY DEF Check, vars
<1> QED  BY <1>1, <1>2, <1>3, <1>4, <1>5 DEF Next, Tool!Next

LEMMA LlvmSimulation ==
  ASSUME ShapeInv, [Next]_vars
  PROVE  [Llvm!Next]_(Llvm!vars)
<1> USE DEF Llvm!vars, toolState, llvmState, images
<1>1. ASSUME NEW m \in Makes, BuildLlvm(m)
      PROVE  Llvm!Pull \/ UNCHANGED Llvm!vars
  BY <1>1 DEF BuildLlvm, Llvm!Pull
<1>2. ASSUME NEW m \in Makes, InstallLlvm(m)
      PROVE  Llvm!Script(m) \/ Llvm!Kill(m)
  BY <1>2 DEF InstallLlvm
<1>3. ASSUME NEW m \in Makes, Begin(m) \/ BuildTool(m) \/ BuildStops(m) \/ InstallTool(m)
      PROVE  UNCHANGED Llvm!vars
  BY <1>3 DEF Begin, BuildTool, BuildStops, InstallTool
<1>4. Start \/ Stop => Llvm!Use \/ UNCHANGED Llvm!vars
  BY DEF Start, Stop
<1>5. Check \/ UNCHANGED vars => UNCHANGED Llvm!vars
  BY DEF Check, vars
<1> QED  BY <1>1, <1>2, <1>3, <1>4, <1>5 DEF Next, Llvm!Next

\* ImageToVolume and its theorems are about the same script.
LEMMA SameTool ==
  /\ Tool!Init <=> ToolScript!Init
  /\ [Tool!Next]_(Tool!vars) <=> [ToolScript!Next]_(ToolScript!vars)
BY DEF Tool!Init, ToolScript!Init, Tool!Next, ToolScript!Next, Tool!vars, ToolScript!vars,
   Tool!Script, ToolScript!Script, Tool!Refuse, ToolScript!Refuse, Tool!InspectImage,
   ToolScript!InspectImage, Tool!InspectVolume, ToolScript!InspectVolume, Tool!Remove,
   ToolScript!Remove, Tool!Create, ToolScript!Create, Tool!Run, ToolScript!Run,
   Tool!RunFails, ToolScript!RunFails, Tool!Kill, ToolScript!Kill, Tool!Pull,
   ToolScript!Pull, Tool!Use, ToolScript!Use, Tool!Move, ToolScript!Move, Tool!Mounted,
   ToolScript!Mounted, Tool!Ended, ToolScript!Ended,
   Tool!image_sha1_used_by_volume, ToolScript!image_sha1_used_by_volume

LEMMA SameLlvm ==
  /\ Llvm!Init <=> LlvmScript!Init
  /\ [Llvm!Next]_(Llvm!vars) <=> [LlvmScript!Next]_(LlvmScript!vars)
BY DEF Llvm!Init, LlvmScript!Init, Llvm!Next, LlvmScript!Next, Llvm!vars, LlvmScript!vars,
   Llvm!Script, LlvmScript!Script, Llvm!Refuse, LlvmScript!Refuse, Llvm!InspectImage,
   LlvmScript!InspectImage, Llvm!InspectVolume, LlvmScript!InspectVolume, Llvm!Remove,
   LlvmScript!Remove, Llvm!Create, LlvmScript!Create, Llvm!Run, LlvmScript!Run,
   Llvm!RunFails, LlvmScript!RunFails, Llvm!Kill, LlvmScript!Kill, Llvm!Pull,
   LlvmScript!Pull, Llvm!Use, LlvmScript!Use, Llvm!Move, LlvmScript!Move, Llvm!Mounted,
   LlvmScript!Mounted, Llvm!Ended, LlvmScript!Ended,
   Llvm!image_sha1_used_by_volume, LlvmScript!image_sha1_used_by_volume

LEMMA ScriptsKeep ==
  ASSUME ShapeInv, ToolScript!IInv, LlvmScript!IInv, [Next]_vars
  PROVE  ToolScript!IInv' /\ LlvmScript!IInv'
<1>1. [ToolScript!Next]_(ToolScript!vars) /\ [LlvmScript!Next]_(LlvmScript!vars)
  BY ToolSimulation, LlvmSimulation, SameTool, SameLlvm
<1>2. Empty \notin 1 .. MaxImage
  OBVIOUS
<1> QED  BY <1>1, <1>2, ToolScript!NextIInv, LlvmScript!NextIInv

-------------------------------------------------------------------------------
(* The last command.                                                       *)

\* A command whose script is under way is the last one that was begun.
LEMMA OnlyLastRuns ==
  ASSUME IInv, NEW m \in Makes, LastBegun(m), NEW n \in Makes,
         \/ toolPc[n] \in {"inspect_volume", "rm", "create", "run"}
         \/ llvmPc[n] \in {"inspect_volume", "rm", "create", "run"}
  PROVE  n = m
<1>1. Installing(n) /\ ~ Ended(n)
  BY DEF IInv, OrderInv, ShapeInv, Installing, Ended, Exited0, Tool!Ended
<1>2. ~ n > m
  BY <1>1 DEF LastBegun, Installing
<1>3. ~ n < m
  BY <1>1 DEF IInv, OrderInv, LastBegun
<1> QED  BY <1>2, <1>3

\* A volume that command m would skip is the one it would make.
LEMMA ToolSkipped ==
  ASSUME IInv, NEW m \in Makes, LastBegun(m), toolPc[m] = "inspect_volume",
         Tool!image_sha1_used_by_volume = toolSha[m]
  PROVE  Content(toolVolume) = toolImage \/ (toolBroken /\ Content(toolVolume) = Empty)
<1>1. toolSha[m] = toolImage
  BY DEF IInv, LastInv
<1>2. toolImage \in 1 .. MaxImage
  BY <1>1 DEF IInv, ToolScript!IInv, ToolScript!HoldsImage, ToolScript!TypeOK, ToolScript!Images
<1>3. toolVolume # NoVolume /\ toolVolume.label = toolImage /\ toolImage # Unlabelled
  BY <1>1, <1>2 DEF Tool!image_sha1_used_by_volume
<1>4. ToolScript!Labelled
  BY <1>3 DEF ToolScript!Labelled
<1>5. CASE toolVolume.content = Empty
  <2>1. CASE ~ toolBroken
    <3>1. PICK r \in Makes : toolPc[r] = "run"
      BY <1>4, <1>5, <2>1 DEF IInv, ToolScript!IInv, ToolScript!EmptyVolumeIsInProgress
    <3>2. r = m
      BY <3>1, OnlyLastRuns
    <3> QED  BY <3>1, <3>2
  <2> QED  BY <1>3, <1>5, <2>1 DEF Content, IInv, ToolScript!IInv, ToolScript!TypeOK
<1>6. CASE toolVolume.content # Empty
  <2>1. toolVolume.content >= toolImage /\ toolVolume.content <= toolImage
    BY <1>3, <1>4, <1>6
       DEF IInv, ToolScript!IInv, ToolScript!ContentNotOlderThanLabel, ToolScript!FromPast
  <2>2. toolVolume.content \in 1 .. MaxImage
    BY <1>3, <1>6 DEF IInv, ToolScript!IInv, ToolScript!TypeOK, ToolScript!VolumeStates, ToolScript!Images
  <2> QED  BY <1>2, <1>3, <2>1, <2>2 DEF Content
<1> QED  BY <1>5, <1>6

\* A volume that command m would skip is the one it would make.
LEMMA LlvmSkipped ==
  ASSUME IInv, NEW m \in Makes, LastBegun(m), llvmPc[m] = "inspect_volume",
         Llvm!image_sha1_used_by_volume = llvmSha[m]
  PROVE  Content(llvmVolume) = llvmImage \/ (llvmBroken /\ Content(llvmVolume) = Empty)
<1>1. llvmSha[m] = llvmImage
  BY DEF IInv, LastInv
<1>2. llvmImage \in 1 .. MaxImage
  BY <1>1 DEF IInv, LlvmScript!IInv, LlvmScript!HoldsImage, LlvmScript!TypeOK, LlvmScript!Images
<1>3. llvmVolume # NoVolume /\ llvmVolume.label = llvmImage /\ llvmImage # Unlabelled
  BY <1>1, <1>2 DEF Llvm!image_sha1_used_by_volume
<1>4. LlvmScript!Labelled
  BY <1>3 DEF LlvmScript!Labelled
<1>5. CASE llvmVolume.content = Empty
  <2>1. CASE ~ llvmBroken
    <3>1. PICK r \in Makes : llvmPc[r] = "run"
      BY <1>4, <1>5, <2>1 DEF IInv, LlvmScript!IInv, LlvmScript!EmptyVolumeIsInProgress
    <3>2. r = m
      BY <3>1, OnlyLastRuns
    <3> QED  BY <3>1, <3>2
  <2> QED  BY <1>3, <1>5, <2>1 DEF Content, IInv, LlvmScript!IInv, LlvmScript!TypeOK
<1>6. CASE llvmVolume.content # Empty
  <2>1. llvmVolume.content >= llvmImage /\ llvmVolume.content <= llvmImage
    BY <1>3, <1>4, <1>6
       DEF IInv, LlvmScript!IInv, LlvmScript!ContentNotOlderThanLabel, LlvmScript!FromPast
  <2>2. llvmVolume.content \in 1 .. MaxImage
    BY <1>3, <1>6 DEF IInv, LlvmScript!IInv, LlvmScript!TypeOK, LlvmScript!VolumeStates, LlvmScript!Images
  <2> QED  BY <1>2, <1>3, <2>1, <2>2 DEF Content
<1> QED  BY <1>5, <1>6

\* A command whose script is not at its end is the last one.
LEMMA RunningIsLast ==
  ASSUME IInv, NEW m \in Makes,
         \/ Installing(m) /\ toolPc[m] \notin Tool!Ended
         \/ Exited0(toolPc[m]) /\ llvmPc[m] \notin Llvm!Ended
  PROVE  LastBegun(m)
<1>1. step[m] # "waiting" /\ ~ Ended(m)
  BY DEF IInv, OrderInv, ShapeInv, Installing, Ended, Exited0, Tool!Ended, Llvm!Ended
<1> QED  BY <1>1 DEF IInv, OrderInv, LastBegun

\* What one step of the first script leaves.
LEMMA ToolScriptRight ==
  ASSUME IInv, NEW m \in Makes, InstallTool(m)
  PROVE  LastInv(toolPc, toolSha, toolVolume, toolImage, toolBroken)'
<1>1. toolPc[m] \notin Tool!Ended /\ UNCHANGED << step, toolImage >>
  BY DEF InstallTool, images, toolImage, Tool!Script, Tool!Move, Tool!Ended, Tool!Refuse, Tool!InspectImage, Tool!InspectVolume, Tool!Remove, Tool!Create, Tool!Run, Tool!RunFails, Tool!Kill
<1>2. LastBegun(m)
  BY <1>1, RunningIsLast DEF InstallTool
<1> SUFFICES ASSUME NEW n \in Makes, LastBegun(n)'
             PROVE  /\ toolPc'[n] \notin {"inspect_image", "failed", "killed"}
                         => toolSha'[n] = toolImage'
                    /\ ~ refused' => DoneRight(toolPc[n], toolVolume, toolImage, toolBroken)'
  BY DEF LastInv
<1>3. n = m
  BY <1>1, <1>2 DEF LastBegun
<1>4. /\ toolPc \in [Makes -> Tool!Steps] /\ toolSha \in [Makes -> 0 .. MaxImage]
      /\ refused \in BOOLEAN /\ toolBroken \in BOOLEAN
  BY DEF IInv, ShapeInv, ToolScript!IInv, ToolScript!TypeOK, ToolScript!Images, Tool!Steps, Llvm!Steps
<1>5. /\ toolPc[m] \notin {"inspect_image", "failed", "killed"} => toolSha[m] = toolImage
      /\ ~ refused => DoneRight(toolPc[m], toolVolume, toolImage, toolBroken)
  BY <1>2 DEF IInv, LastInv
<1>6. ~ refused' => ~ refused /\ (toolPc[m] = "rm" => ~ toolInUse)
  BY <1>4 DEF InstallTool
<1> HIDE DEF Makes
<1>7. CASE Tool!Refuse(m)
  BY <1>1, <1>3, <1>4, <1>7 DEF DoneRight, Exited0, Tool!Refuse, Tool!Move
<1>8. CASE Tool!InspectImage(m)
  BY <1>1, <1>3, <1>4, <1>8 DEF DoneRight, Exited0, Tool!InspectImage, Tool!Move
<1>9. CASE Tool!InspectVolume(m)
  <2>1. CASE Tool!image_sha1_used_by_volume = toolSha[m]
    BY <1>1, <1>2, <1>3, <1>4, <1>5, <1>9, <2>1, ToolSkipped
       DEF DoneRight, Exited0, Content, Tool!InspectVolume, Tool!Move
  <2>2. CASE Tool!image_sha1_used_by_volume # toolSha[m]
    BY <1>1, <1>3, <1>4, <1>5, <1>9, <2>2
       DEF DoneRight, Exited0, Tool!InspectVolume, Tool!Move
  <2> QED  BY <2>1, <2>2
<1>10. CASE Tool!Remove(m)
  BY <1>1, <1>3, <1>4, <1>5, <1>6, <1>10
     DEF DoneRight, Exited0, Content, Tool!Remove, Tool!Move
<1>11. CASE Tool!Create(m)
  BY <1>1, <1>3, <1>4, <1>5, <1>6, <1>11
     DEF DoneRight, Exited0, Content, Tool!Create, Tool!Move
<1>12. CASE Tool!Run(m)
  <2>1. toolImage \in 1 .. MaxImage
    BY <1>12 DEF IInv, ToolScript!IInv, ToolScript!HoldsImage, ToolScript!TypeOK,
                 ToolScript!Images, Tool!Run, Tool!Move
  <2>2. toolVolume # NoVolume =>
          toolVolume \in [label : (1 .. MaxImage) \cup {Unlabelled},
                       content : (1 .. MaxImage) \cup {Empty}]
    BY DEF IInv, ToolScript!IInv, ToolScript!TypeOK, ToolScript!VolumeStates, ToolScript!Images
  <2>3. Content(toolVolume) = Empty =>
          /\ toolVolume' \in [label : (1 .. MaxImage) \cup {Unlabelled},
                           content : (1 .. MaxImage) \cup {Empty}]
          /\ toolVolume'.content = toolImage
    BY <1>12, <2>1, <2>2 DEF Content, Tool!Run, Tool!Mounted
  <2>4. Content(toolVolume) = Empty => Content(toolVolume') = toolImage
    BY <2>3, NoVolumeAssumption DEF Content
  <2> QED  BY <1>1, <1>3, <1>4, <1>5, <1>6, <1>12, <2>4 DEF DoneRight, Exited0, Tool!Run, Tool!Move
<1>13. CASE Tool!RunFails(m)
  BY <1>1, <1>3, <1>4, <1>5, <1>6, <1>13
     DEF DoneRight, Exited0, Tool!RunFails, Tool!Move
<1>14. CASE Tool!Kill(m)
  BY <1>1, <1>3, <1>4, <1>14 DEF DoneRight, Exited0, Tool!Kill
<1> QED  BY <1>7, <1>8, <1>9, <1>10, <1>11, <1>12, <1>13, <1>14 DEF InstallTool, Tool!Script

\* What one step of the second script leaves.
LEMMA LlvmScriptRight ==
  ASSUME IInv, NEW m \in Makes, InstallLlvm(m)
  PROVE  LastInv(llvmPc, llvmSha, llvmVolume, llvmImage, llvmBroken)'
<1>1. llvmPc[m] \notin Llvm!Ended /\ UNCHANGED << step, llvmImage >>
  BY DEF InstallLlvm, images, toolImage, Llvm!Script, Llvm!Move, Llvm!Ended, Llvm!Refuse, Llvm!InspectImage, Llvm!InspectVolume, Llvm!Remove, Llvm!Create, Llvm!Run, Llvm!RunFails, Llvm!Kill
<1>2. LastBegun(m)
  BY <1>1, RunningIsLast DEF InstallLlvm
<1> SUFFICES ASSUME NEW n \in Makes, LastBegun(n)'
             PROVE  /\ llvmPc'[n] \notin {"inspect_image", "failed", "killed"}
                         => llvmSha'[n] = llvmImage'
                    /\ ~ refused' => DoneRight(llvmPc[n], llvmVolume, llvmImage, llvmBroken)'
  BY DEF LastInv
<1>3. n = m
  BY <1>1, <1>2 DEF LastBegun
<1>4. /\ llvmPc \in [Makes -> Llvm!Steps] /\ llvmSha \in [Makes -> 0 .. MaxImage]
      /\ refused \in BOOLEAN /\ llvmBroken \in BOOLEAN
  BY DEF IInv, ShapeInv, LlvmScript!IInv, LlvmScript!TypeOK, LlvmScript!Images, Tool!Steps, Llvm!Steps
<1>5. /\ llvmPc[m] \notin {"inspect_image", "failed", "killed"} => llvmSha[m] = llvmImage
      /\ ~ refused => DoneRight(llvmPc[m], llvmVolume, llvmImage, llvmBroken)
  BY <1>2 DEF IInv, LastInv
<1>6. ~ refused' => ~ refused /\ (llvmPc[m] = "rm" => ~ llvmInUse)
  BY <1>4 DEF InstallLlvm
<1> HIDE DEF Makes
<1>7. CASE Llvm!Refuse(m)
  BY <1>1, <1>3, <1>4, <1>7 DEF DoneRight, Exited0, Llvm!Refuse, Llvm!Move
<1>8. CASE Llvm!InspectImage(m)
  BY <1>1, <1>3, <1>4, <1>8 DEF DoneRight, Exited0, Llvm!InspectImage, Llvm!Move
<1>9. CASE Llvm!InspectVolume(m)
  <2>1. CASE Llvm!image_sha1_used_by_volume = llvmSha[m]
    BY <1>1, <1>2, <1>3, <1>4, <1>5, <1>9, <2>1, LlvmSkipped
       DEF DoneRight, Exited0, Content, Llvm!InspectVolume, Llvm!Move
  <2>2. CASE Llvm!image_sha1_used_by_volume # llvmSha[m]
    BY <1>1, <1>3, <1>4, <1>5, <1>9, <2>2
       DEF DoneRight, Exited0, Llvm!InspectVolume, Llvm!Move
  <2> QED  BY <2>1, <2>2
<1>10. CASE Llvm!Remove(m)
  BY <1>1, <1>3, <1>4, <1>5, <1>6, <1>10
     DEF DoneRight, Exited0, Content, Llvm!Remove, Llvm!Move
<1>11. CASE Llvm!Create(m)
  BY <1>1, <1>3, <1>4, <1>5, <1>6, <1>11
     DEF DoneRight, Exited0, Content, Llvm!Create, Llvm!Move
<1>12. CASE Llvm!Run(m)
  <2>1. llvmImage \in 1 .. MaxImage
    BY <1>12 DEF IInv, LlvmScript!IInv, LlvmScript!HoldsImage, LlvmScript!TypeOK,
                 LlvmScript!Images, Llvm!Run, Llvm!Move
  <2>2. llvmVolume # NoVolume =>
          llvmVolume \in [label : (1 .. MaxImage) \cup {Unlabelled},
                       content : (1 .. MaxImage) \cup {Empty}]
    BY DEF IInv, LlvmScript!IInv, LlvmScript!TypeOK, LlvmScript!VolumeStates, LlvmScript!Images
  <2>3. Content(llvmVolume) = Empty =>
          /\ llvmVolume' \in [label : (1 .. MaxImage) \cup {Unlabelled},
                           content : (1 .. MaxImage) \cup {Empty}]
          /\ llvmVolume'.content = llvmImage
    BY <1>12, <2>1, <2>2 DEF Content, Llvm!Run, Llvm!Mounted
  <2>4. Content(llvmVolume) = Empty => Content(llvmVolume') = llvmImage
    BY <2>3, NoVolumeAssumption DEF Content
  <2> QED  BY <1>1, <1>3, <1>4, <1>5, <1>6, <1>12, <2>4 DEF DoneRight, Exited0, Llvm!Run, Llvm!Move
<1>13. CASE Llvm!RunFails(m)
  BY <1>1, <1>3, <1>4, <1>5, <1>6, <1>13
     DEF DoneRight, Exited0, Llvm!RunFails, Llvm!Move
<1>14. CASE Llvm!Kill(m)
  BY <1>1, <1>3, <1>4, <1>14 DEF DoneRight, Exited0, Llvm!Kill
<1> QED  BY <1>7, <1>8, <1>9, <1>10, <1>11, <1>12, <1>13, <1>14 DEF InstallLlvm, Llvm!Script

-------------------------------------------------------------------------------
(* The steps.                                                              *)

\* A command that has not ended is begun, and those after it are not.
LEMMA BuildingIsLast ==
  ASSUME ShapeInv, OrderInv, NEW m \in Makes, step[m] \in {"llvm", "tool"}
  PROVE  /\ LastBegun(m)
         /\ toolPc[m] = "inspect_image" /\ llvmPc[m] = "inspect_image"
<1>1. toolPc[m] = "inspect_image" /\ llvmPc[m] = "inspect_image"
  BY DEF OrderInv, Installing, Exited0
<1>2. ~ Ended(m)
  BY <1>1 DEF Ended, Tool!Ended
<1> QED  BY <1>1, <1>2 DEF OrderInv, LastBegun

\* The volumes and scripts do not change.
LEMMA SameVolumes ==
  ASSUME IInv, NEW m \in Makes,
         UNCHANGED << toolState, llvmState >>,
         \A n \in Makes : LastBegun(n)' => n = m,
         toolPc[m] = "inspect_image" /\ llvmPc[m] = "inspect_image"
  PROVE  /\ LastInv(toolPc, toolSha, toolVolume, toolImage, toolBroken)'
         /\ LastInv(llvmPc, llvmSha, llvmVolume, llvmImage, llvmBroken)'
BY DEF LastInv, DoneRight, Exited0, toolState, llvmState

LEMMA BeginStep ==
  ASSUME IInv, NEW m \in Makes, Begin(m), ToolScript!IInv', LlvmScript!IInv'
  PROVE  IInv'
<1>1. toolPc[m] = "inspect_image" /\ llvmPc[m] = "inspect_image" /\ ~ Ended(m)
  BY DEF IInv, OrderInv, Begin, Installing, Exited0, Ended, Tool!Ended
<1>2. \A n \in Makes : n > m => step[n] = "waiting"
  BY <1>1 DEF IInv, OrderInv
<1>3. /\ step'[m] \in {"llvm", "only_install"}
      /\ \A n \in Makes : n # m => step'[n] = step[n]
  BY DEF IInv, ShapeInv, Begin
<1>4. \A n \in Makes : LastBegun(n)' => n = m
  BY <1>2, <1>3 DEF LastBegun
<1>5. ShapeInv'
  BY DEF IInv, ShapeInv, StepNames, Begin, images, toolState, llvmState
<1>6. OrderInv'
  <2>1. \A n, k \in Makes : k < n /\ step'[n] # "waiting" => Ended(k)'
    <3> SUFFICES ASSUME NEW n \in Makes, NEW k \in Makes, k < n, step'[n] # "waiting"
                 PROVE  Ended(k)'
      OBVIOUS
    <3>1. k # m
      BY <1>2, <1>3
    <3>2. Ended(k)
      BY <1>3 DEF IInv, OrderInv, Begin
    <3> QED  BY <3>1, <3>2, <1>3 DEF Ended, Begin, toolState, llvmState
  <2>2. \A n \in Makes : /\ toolPc'[n] # "inspect_image" => Installing(n)'
                         /\ llvmPc'[n] # "inspect_image" => Exited0(toolPc[n])'
                         /\ step'[n] = "tool" => llvmImage' # 0
    BY <1>1, <1>3 DEF IInv, OrderInv, Installing, Begin, toolState, llvmState, images
  <2> QED  BY <2>1, <2>2 DEF OrderInv
<1>7. CopiedInv'
  BY <1>3, <1>4 DEF CopiedInv
<1>8. /\ LastInv(toolPc, toolSha, toolVolume, toolImage, toolBroken)'
      /\ LastInv(llvmPc, llvmSha, llvmVolume, llvmImage, llvmBroken)'
  BY <1>1, <1>4, SameVolumes DEF Begin
<1> QED  BY <1>5, <1>6, <1>7, <1>8 DEF IInv

\* The three steps of a build have this in common.
LEMMA BuildStep ==
  ASSUME IInv, NEW m \in Makes, BuildLlvm(m) \/ BuildTool(m) \/ BuildStops(m),
         ToolScript!IInv', LlvmScript!IInv'
  PROVE  IInv'
<1> USE DEF BuildLlvm, BuildTool, BuildStops
<1>1. /\ step[m] \in {"llvm", "tool"}
      /\ UNCHANGED << toolState, llvmState, refused, container >>
      /\ step'[m] \in StepNames \ {"waiting", "only_install"}
      /\ step' = [step EXCEPT ![m] = step'[m]]
  BY DEF IInv, ShapeInv, StepNames
<1>2. LastBegun(m) /\ toolPc[m] = "inspect_image" /\ llvmPc[m] = "inspect_image"
  BY <1>1, BuildingIsLast DEF IInv
<1>3. \A n \in Makes : n # m => step'[n] = step[n]
  BY <1>1 DEF IInv, ShapeInv
<1>4. \A n \in Makes : LastBegun(n)' => n = m
  BY <1>1, <1>2, <1>3 DEF LastBegun
<1>5. ShapeInv'
  <2>1. CASE BuildLlvm(m)
    <3>1. llvmImage' \in 0 .. MaxImage /\ llvmImage <= llvmImage'
      BY <2>1 DEF IInv, ShapeInv
    <3>2. builtWith' \in Seq(1 .. llvmImage')
      BY <2>1, <3>1 DEF IInv, ShapeInv
    <3> QED  BY <2>1, <3>1, <3>2 DEF IInv, ShapeInv, StepNames, toolState, llvmState
  <2>2. CASE BuildTool(m)
    <3>1. llvmImage \in 1 .. llvmImage
      BY <2>2 DEF IInv, ShapeInv, OrderInv
    <3>2. builtWith' \in Seq(1 .. llvmImage) /\ Len(builtWith') <= MaxImage
      <4>1. CASE UNCHANGED builtWith
        BY <4>1 DEF IInv, ShapeInv
      <4>2. CASE Len(builtWith) < MaxImage /\ builtWith' = Append(builtWith, llvmImage)
        <5>1. /\ builtWith' \in Seq(1 .. llvmImage)
              /\ Len(builtWith') = Len(builtWith) + 1
          BY <3>1, <4>2, AppendProperties DEF IInv, ShapeInv
        <5> QED  BY <4>2, <5>1 DEF IInv, ShapeInv
      <4> QED  BY <2>2, <4>1, <4>2
    <3> QED  BY <2>2, <3>2 DEF IInv, ShapeInv, StepNames, toolState, llvmState
  <2>3. CASE BuildStops(m)
    BY <2>3 DEF IInv, ShapeInv, StepNames, images, toolState, llvmState
  <2> QED  BY <2>1, <2>2, <2>3
<1>6. OrderInv'
  <2>1. \A n, k \in Makes : k < n /\ step'[n] # "waiting" => Ended(k)'
    <3> SUFFICES ASSUME NEW n \in Makes, NEW k \in Makes, k < n, step'[n] # "waiting"
                 PROVE  Ended(k)'
      OBVIOUS
    <3>1. step[n] # "waiting"
      BY <1>1, <1>3
    <3>2. k # m
      BY <1>2, <3>1 DEF LastBegun
    <3>3. Ended(k)
      BY <3>1 DEF IInv, OrderInv
    <3> QED  BY <3>2, <3>3, <1>1, <1>3 DEF Ended, toolState, llvmState
  <2>2. \A n \in Makes : /\ toolPc'[n] # "inspect_image" => Installing(n)'
                         /\ llvmPc'[n] # "inspect_image" => Exited0(toolPc[n])'
    BY <1>1, <1>2, <1>3 DEF IInv, OrderInv, Installing, toolState, llvmState
  <2>3. llvmImage' # llvmImage => llvmImage' = llvmImage + 1
    BY DEF images
  <2>4. step'[m] = "tool" => llvmImage' # 0
    BY <2>3 DEF IInv, ShapeInv
  <2>5. \A n \in Makes : step'[n] = "tool" => llvmImage' # 0
    BY <1>3, <2>3, <2>4 DEF IInv, OrderInv, ShapeInv
  <2> QED  BY <2>1, <2>2, <2>5 DEF OrderInv
<1>7. CopiedInv'
  <2>1. ASSUME step'[m] = "install"
        PROVE  builtWith' # <<>> /\ builtWith'[Len(builtWith')] = llvmImage'
    <3>1. BuildTool(m)
      BY <1>1, <2>1 DEF IInv, ShapeInv
    <3>2. CASE UNCHANGED builtWith
      BY <3>1, <3>2 DEF IInv, ShapeInv
    <3>3. CASE builtWith' = Append(builtWith, llvmImage)
      <4>1. builtWith \in Seq(Nat) /\ llvmImage \in Nat
        BY DEF IInv, ShapeInv
      <4>2. Len(builtWith') = Len(builtWith) + 1 /\ builtWith'[Len(builtWith) + 1] = llvmImage
        BY <3>3, <4>1
      <4> QED  BY <3>1, <4>1, <4>2
    <3> QED  BY <3>1, <3>2, <3>3
  <2> QED  BY <1>4, <2>1 DEF CopiedInv
<1>8. /\ LastInv(toolPc, toolSha, toolVolume, toolImage, toolBroken)'
      /\ LastInv(llvmPc, llvmSha, llvmVolume, llvmImage, llvmBroken)'
  BY <1>1, <1>2, <1>4, SameVolumes
<1> QED  BY <1>5, <1>6, <1>7, <1>8 DEF IInv

LEMMA InstallToolStep ==
  ASSUME IInv, NEW m \in Makes, InstallTool(m), ToolScript!IInv', LlvmScript!IInv'
  PROVE  IInv'
<1>1. /\ toolPc' = [toolPc EXCEPT ![m] = toolPc'[m]] /\ toolPc'[m] \in Tool!Steps
      /\ toolPc \in [Makes -> Tool!Steps]
  BY DEF IInv, ShapeInv, InstallTool, Tool!Steps, Tool!Script, Tool!Move, Tool!Refuse, Tool!InspectImage, Tool!InspectVolume, Tool!Remove, Tool!Create, Tool!Run, Tool!RunFails, Tool!Kill
<1>2. toolPc[m] \notin Tool!Ended
  BY DEF InstallTool, Tool!Ended, Tool!Script, Tool!Move, Tool!Refuse, Tool!InspectImage, Tool!InspectVolume, Tool!Remove, Tool!Create, Tool!Run, Tool!RunFails, Tool!Kill
<1>3. ShapeInv'
  BY <1>1 DEF IInv, ShapeInv, InstallTool, llvmState, images
<1>4. OrderInv'
  <2>1. Installing(m) /\ llvmPc[m] = "inspect_image"
    BY DEF IInv, OrderInv, InstallTool, Exited0, Tool!Script, Tool!Kill, Tool!Ended, Tool!Move,
           Tool!Refuse, Tool!InspectImage, Tool!InspectVolume, Tool!Remove, Tool!Create,
           Tool!Run, Tool!RunFails
  <2>2. \A n \in Makes : n # m => toolPc'[n] = toolPc[n]
    BY <1>1
  <2>3. \A n \in Makes : Ended(n) => Ended(n)'
    BY <1>1, <1>2, <2>1, <2>2 DEF Ended, InstallTool, llvmState, Tool!Ended
  <2>4. UNCHANGED << step, llvmPc, llvmImage >>
    BY DEF InstallTool, llvmState, images
  <2> QED  BY <1>1, <2>1, <2>2, <2>3, <2>4 DEF IInv, OrderInv, Installing
<1>5. LastInv(toolPc, toolSha, toolVolume, toolImage, toolBroken)'
  BY ToolScriptRight
<1>6. LastInv(llvmPc, llvmSha, llvmVolume, llvmImage, llvmBroken)'
  <2>1. UNCHANGED << step, llvmPc, llvmSha, llvmVolume, llvmImage, llvmBroken >>
    BY DEF InstallTool, llvmState, images, toolImage
  <2>2. refused => refused'
    BY DEF InstallTool
  <2> QED  BY <2>1, <2>2 DEF IInv, LastInv, LastBegun, DoneRight
<1>7. CopiedInv'
  BY DEF IInv, CopiedInv, LastBegun, InstallTool, images
<1> QED  BY <1>3, <1>4, <1>5, <1>6, <1>7 DEF IInv

LEMMA InstallLlvmStep ==
  ASSUME IInv, NEW m \in Makes, InstallLlvm(m), ToolScript!IInv', LlvmScript!IInv'
  PROVE  IInv'
<1>1. /\ llvmPc' = [llvmPc EXCEPT ![m] = llvmPc'[m]] /\ llvmPc'[m] \in Tool!Steps
      /\ llvmPc \in [Makes -> Tool!Steps]
  BY DEF IInv, ShapeInv, InstallLlvm, Tool!Steps, Llvm!Script, Llvm!Move, Llvm!Refuse, Llvm!InspectImage, Llvm!InspectVolume, Llvm!Remove, Llvm!Create, Llvm!Run, Llvm!RunFails, Llvm!Kill
<1>2. llvmPc[m] \notin Llvm!Ended
  BY DEF InstallLlvm, Llvm!Ended, Llvm!Script, Llvm!Move, Llvm!Refuse, Llvm!InspectImage, Llvm!InspectVolume, Llvm!Remove, Llvm!Create, Llvm!Run, Llvm!RunFails, Llvm!Kill
<1>3. ShapeInv'
  BY <1>1 DEF IInv, ShapeInv, InstallLlvm, toolState, images
<1>4. OrderInv'
  <2>1. Installing(m) /\ Exited0(toolPc[m])
    BY DEF IInv, OrderInv, InstallLlvm, Exited0
  <2>2. \A n \in Makes : n # m => llvmPc'[n] = llvmPc[n]
    BY <1>1
  <2>3. \A n \in Makes : Ended(n) => Ended(n)'
    BY <1>1, <1>2, <2>1, <2>2 DEF Ended, InstallLlvm, toolState, Llvm!Ended, Tool!Ended
  <2>4. UNCHANGED << step, toolPc, llvmImage >>
    BY DEF InstallLlvm, toolState, images
  <2> QED  BY <1>1, <2>1, <2>2, <2>3, <2>4 DEF IInv, OrderInv, Installing
<1>5. LastInv(llvmPc, llvmSha, llvmVolume, llvmImage, llvmBroken)'
  BY LlvmScriptRight
<1>6. LastInv(toolPc, toolSha, toolVolume, toolImage, toolBroken)'
  <2>1. UNCHANGED << step, toolPc, toolSha, toolVolume, toolImage, toolBroken >>
    BY DEF InstallLlvm, toolState, images, toolImage
  <2>2. refused => refused'
    BY DEF InstallLlvm
  <2> QED  BY <2>1, <2>2 DEF IInv, LastInv, LastBegun, DoneRight
<1>7. CopiedInv'
  BY DEF IInv, CopiedInv, LastBegun, InstallLlvm, images
<1> QED  BY <1>3, <1>4, <1>5, <1>6, <1>7 DEF IInv

\* A container, and a step of nobody, leave the content of both volumes.
LEMMA ContainerStep ==
  ASSUME IInv, Start \/ Check \/ Stop \/ UNCHANGED vars,
         ToolScript!IInv', LlvmScript!IInv'
  PROVE  IInv'
<1>1. UNCHANGED << step, images, toolPc, toolSha, toolBroken, llvmPc, llvmSha, llvmBroken, refused >>
  BY DEF Start, Check, Stop, vars, toolState, llvmState, Tool!Use, Llvm!Use
<1>2. /\ toolVolume' = toolVolume \/ Tool!Use
      /\ llvmVolume' = llvmVolume \/ Llvm!Use
  BY DEF Start, Check, Stop, vars, toolState, llvmState
<1>3. Content(toolVolume') = Content(toolVolume) /\ Content(llvmVolume') = Content(llvmVolume)
  <2>1. Content([label |-> Unlabelled, content |-> Empty]) = Empty
    BY DEF Content
  <2> QED  BY <1>2, <2>1 DEF Content, Tool!Use, Llvm!Use
<1>4. container' \in {"none", "checking", "opt", "failed"}
  BY DEF IInv, ShapeInv, Start, Check, Stop, vars
<1>5. ShapeInv'
  BY <1>1, <1>4 DEF IInv, ShapeInv, images
<1>6. OrderInv' /\ CopiedInv'
  BY <1>1 DEF IInv, OrderInv, CopiedInv, LastBegun, Installing, Exited0, Ended, images
<1>7. /\ LastInv(toolPc, toolSha, toolVolume, toolImage, toolBroken)'
      /\ LastInv(llvmPc, llvmSha, llvmVolume, llvmImage, llvmBroken)'
  BY <1>1, <1>3 DEF IInv, LastInv, LastBegun, DoneRight, toolImage, images
<1> QED  BY <1>5, <1>6, <1>7 DEF IInv

LEMMA InitIInv == Init => IInv
<1> SUFFICES ASSUME Init PROVE IInv
  OBVIOUS
<1>1. ToolScript!Init /\ LlvmScript!Init
  BY SameTool, SameLlvm DEF Init
<1>2. Empty \notin 1 .. MaxImage
  OBVIOUS
<1>3. ToolScript!IInv /\ LlvmScript!IInv
  BY <1>1, <1>2, ToolScript!InitIInv, LlvmScript!InitIInv
<1>4. ShapeInv
  <2>1. builtWith \in Seq(1 .. llvmImage) /\ Len(builtWith) <= MaxImage
    BY DEF Init
  <2>2. llvmImage \in 0 .. MaxImage
    BY DEF Init
  <2> QED  BY <2>1, <2>2 DEF Init, ShapeInv, StepNames, Tool!Init, Llvm!Init, Tool!Steps
<1>5. \A m \in Makes : /\ step[m] = "waiting"
                       /\ toolPc[m] = "inspect_image" /\ llvmPc[m] = "inspect_image"
  BY DEF Init, Tool!Init, Llvm!Init
<1>6. OrderInv
  BY <1>5 DEF OrderInv
<1>7. \A m \in Makes : ~ LastBegun(m)
  BY <1>5 DEF LastBegun
<1>8. /\ CopiedInv
      /\ LastInv(toolPc, toolSha, toolVolume, toolImage, toolBroken)
      /\ LastInv(llvmPc, llvmSha, llvmVolume, llvmImage, llvmBroken)
  BY <1>7 DEF CopiedInv, LastInv
<1> QED  BY <1>3, <1>4, <1>6, <1>8 DEF IInv

LEMMA NextIInv == IInv /\ [Next]_vars => IInv'
<1> SUFFICES ASSUME IInv, [Next]_vars PROVE IInv'
  OBVIOUS
<1>1. ToolScript!IInv' /\ LlvmScript!IInv'
  BY ScriptsKeep DEF IInv
<1> QED  BY <1>1, BeginStep, BuildStep, InstallToolStep, InstallLlvmStep, ContainerStep DEF Next

\* The scripts of a command run in order, on images that stay, and the last command's
\* volumes are as far as its script says, for any number of commands that stop anywhere.
THEOREM Invariance == Spec => []IInv
BY InitIInv, NextIInv, PTL DEF Spec

-------------------------------------------------------------------------------
(* What it shows.                                                          *)

\* Every variable keeps its shape, and plugins are built with an LLVM that exists.
THEOREM TypeCorrect == Spec => []TypeOK
<1>1. ASSUME IInv PROVE TypeOK
  <2>1. Tool!TypeOK /\ Llvm!TypeOK
    BY <1>1 DEF IInv, ToolScript!IInv, LlvmScript!IInv, Tool!TypeOK, Llvm!TypeOK,
       ToolScript!TypeOK, LlvmScript!TypeOK, Tool!Images, Llvm!Images, ToolScript!Images,
       LlvmScript!Images, Tool!Steps, Llvm!Steps, ToolScript!Steps, LlvmScript!Steps,
       Tool!VolumeStates, Llvm!VolumeStates, ToolScript!VolumeStates, LlvmScript!VolumeStates
  <2>2. \A n \in DOMAIN builtWith : builtWith[n] \in 1 .. llvmImage
    BY <1>1 DEF IInv, ShapeInv
  <2> QED  BY <1>1, <2>1, <2>2 DEF IInv, ShapeInv, StepNames, TypeOK
<1> QED  BY Invariance, <1>1, PTL

LEMMA LastIsRight ==
  ASSUME IInv
  PROVE  InstalledIsLatest
<1> SUFFICES ASSUME NEW m \in Makes, Done(m), ~ refused
             PROVE  /\ Content(toolVolume) = toolImage \/ (toolBroken /\ Content(toolVolume) = Empty)
                    /\ Content(llvmVolume) = llvmImage \/ (llvmBroken /\ Content(llvmVolume) = Empty)
  BY DEF InstalledIsLatest
<1>1. Exited0(llvmPc[m]) /\ Exited0(toolPc[m]) /\ Installing(m)
  BY DEF Done, Succeeded, Exited0, IInv, OrderInv
<1>2. LastBegun(m)
  BY <1>1 DEF Done, LastBegun, Installing
<1> QED  BY <1>1, <1>2 DEF IInv, LastInv, DoneRight

\* Whatever earlier commands left half done: the last one, if it exits with 0 and no
\* container has kept it from removing a volume, leaves both volumes with the
\* images of that time.
THEOREM LatestIsInstalled == Spec => []InstalledIsLatest
BY Invariance, LastIsRight, PTL

\* After a make install of that kind, the plugin in one volume was built with the LLVM
\* in the other.
THEOREM PluginIsOfItsLLVM == Spec => []PluginMatchesLLVM
<1>1. ASSUME IInv PROVE PluginMatchesLLVM
  <2> SUFFICES ASSUME NEW m \in Makes, Done(m), step[m] = "install", ~ refused,
                      Content(toolVolume) # Empty, Content(llvmVolume) # Empty
               PROVE  builtWith[Content(toolVolume)] = Content(llvmVolume)
    BY DEF PluginMatchesLLVM
  <2>1. Content(toolVolume) = toolImage /\ Content(llvmVolume) = llvmImage
    BY <1>1, LastIsRight DEF InstalledIsLatest
  <2>2. LastBegun(m)
    BY DEF Done, LastBegun
  <2> QED  BY <1>1, <2>1, <2>2 DEF IInv, CopiedInv, toolImage
<1> QED  BY Invariance, <1>1, PTL

\* Each of the volumes is one of ImageToVolume's: every step of an installation is a
\* step of a run of the script, of its world, or leaves the volume alone.
THEOREM VolumesAreThoseOfTheScript == Spec => VolumesAreImageToVolume
<1>1. Init => Tool!Init /\ Llvm!Init
  BY DEF Init
<1>2. IInv /\ [Next]_vars => [Tool!Next]_(Tool!vars) /\ [Llvm!Next]_(Llvm!vars)
  BY ToolSimulation, LlvmSimulation DEF IInv
<1> QED  BY Invariance, <1>1, <1>2, PTL DEF Spec, VolumesAreImageToVolume, Tool!Spec, Llvm!Spec
===============================================================================
