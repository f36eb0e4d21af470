------------------------------ MODULE Installation ------------------------------
(***************************************************************************)
(* docker/Makefile and docker/install: `make install` builds the image of  *)
(* LLVM, then that of llvmsupermutate, which copies LLVM out of the first, *)
(* and has image_to_volume lift each of the two into a volume; `./install` *)
(* does only the latter.  docker/llvmsupermutate, which is in the second   *)
(* image, uses both volumes in a container.  A command may fail or be      *)
(* killed at any step and be followed by another one; commands that overlap*)
(* are ImageToVolume's.                                                    *)
(***************************************************************************)
EXTENDS Naturals, Sequences

CONSTANTS MaxMakes, MaxImage, NoVolume, Unlabelled, Empty

ASSUME MaxMakesAssumption == MaxMakes \in Nat

ASSUME MaxImageAssumption == MaxImage \in Nat \ {0}

\* What stands for no content or for no label is no image's ID.
ASSUME MarksAssumption == {Empty, Unlabelled} \cap 1 .. MaxImage = {}

\* No volume is not a volume.
ASSUME NoVolumeAssumption ==
  NoVolume \notin [label   : (1 .. MaxImage) \cup {Unlabelled},
                   content : (1 .. MaxImage) \cup {Empty}]

VARIABLES
  step,       \* where each command is, up to its installing
  llvmImage,  \* the image of LLVM, 0 if none; newer images are higher
  builtWith,  \* for each image of llvmsupermutate, the LLVM that was copied
  toolVolume, toolInUse, toolPc, toolSha, toolBroken,
  llvmVolume, llvmInUse, llvmPc, llvmSha, llvmBroken,
  refused,    \* whether a volume could not be removed by the last command
  container   \* what docker/llvmsupermutate is doing

images    == << llvmImage, builtWith >>
toolState == << toolVolume, toolInUse, toolPc, toolSha, toolBroken >>
llvmState == << llvmVolume, llvmInUse, llvmPc, llvmSha, llvmBroken >>
vars      == << step, images, toolState, llvmState, refused, container >>

Makes == 1 .. MaxMakes

toolImage == Len(builtWith)

\* docker/install:10 and 11.
Tool == INSTANCE ImageToVolume WITH Runs <- Makes, image <- toolImage,
          volume <- toolVolume, inUse <- toolInUse, pc <- toolPc, sha <- toolSha,
          broken <- toolBroken

Llvm == INSTANCE ImageToVolume WITH Runs <- Makes, image <- llvmImage,
          volume <- llvmVolume, inUse <- llvmInUse, pc <- llvmPc, sha <- llvmSha,
          broken <- llvmBroken

Init ==
  /\ step = [m \in Makes |-> "waiting"]
  /\ llvmImage = 0 /\ builtWith = <<>>
  /\ Tool!Init /\ Llvm!Init
  /\ refused = FALSE
  /\ container = "none"

Exited0(pc) == pc \in {"skipped", "finished"}

Succeeded(m) == Exited0(llvmPc[m])

Ended(m) ==
  \/ step[m] \in {"failed", "killed"}
  \/ toolPc[m] \in {"failed", "killed"}
  \/ llvmPc[m] \in Tool!Ended

\* Mutant: the image of LLVM is no prerequisite.
BeginWithTool(m) ==
  /\ step[m] = "waiting" /\ \A n \in 1 .. m - 1 : Ended(n)
  /\ \E s \in {"tool", "only_install"} : step' = [step EXCEPT ![m] = s]
  /\ refused' = FALSE
  /\ UNCHANGED << images, toolState, llvmState, container >>

\* `make install` or `./install`.
Begin(m) ==
  /\ step[m] = "waiting" /\ \A n \in 1 .. m - 1 : Ended(n)
  /\ \E s \in {"llvm", "only_install"} : step' = [step EXCEPT ![m] = s]
  /\ refused' = FALSE
  /\ UNCHANGED << images, toolState, llvmState, container >>

\* docker build makes a new image, or finds it in its cache.
BuildLlvm(m) ==
  /\ step[m] = "llvm" /\ step' = [step EXCEPT ![m] = "tool"]
  /\ \/ llvmImage # 0 /\ UNCHANGED llvmImage
     \/ /\ llvmImage < MaxImage /\ Len(builtWith) < MaxImage
        /\ llvmImage' = llvmImage + 1
  /\ UNCHANGED << builtWith, toolState, llvmState, refused, container >>

\* Mutant: the cached image is good for any LLVM.
BuildToolCached(m) ==
  /\ step[m] = "tool" /\ step' = [step EXCEPT ![m] = "install"]
  /\ \/ builtWith # <<>> /\ UNCHANGED builtWith
     \/ Len(builtWith) < MaxImage /\ builtWith' = Append(builtWith, llvmImage)
  /\ UNCHANGED << llvmImage, toolState, llvmState, refused, container >>

\* The cache is no good once `COPY --from` would copy another LLVM.
BuildTool(m) ==
  /\ step[m] = "tool" /\ step' = [step EXCEPT ![m] = "install"]
  /\ \/ /\ builtWith # <<>> /\ builtWith[Len(builtWith)] = llvmImage
        /\ UNCHANGED builtWith
     \/ Len(builtWith) < MaxImage /\ builtWith' = Append(builtWith, llvmImage)
  /\ UNCHANGED << llvmImage, toolState, llvmState, refused, container >>

\* A build fails, and make gives up, or make is killed.
BuildStops(m) ==
  /\ step[m] \in {"llvm", "tool"}
  /\ \E s \in {"failed", "killed"} : step' = [step EXCEPT ![m] = s]
  /\ UNCHANGED << images, toolState, llvmState, refused, container >>

Installing(m) == step[m] \in {"install", "only_install"}

InstallTool(m) ==
  /\ Installing(m)
  /\ UNCHANGED << step, images, llvmState, container >>
  /\ refused' = (refused \/ (toolPc[m] = "rm" /\ toolInUse))
  /\ Tool!Script(m) \/ Tool!Kill(m)

\* Mutant: without `set -e`.
InstallLlvmRegardless(m) ==
  /\ toolPc[m] \in Tool!Ended
  /\ UNCHANGED << step, images, toolState, container >>
  /\ refused' = (refused \/ (llvmPc[m] = "rm" /\ llvmInUse))
  /\ Llvm!Script(m) \/ Llvm!Kill(m)

\* `set -e`: only once the first one has exited with 0.
InstallLlvm(m) ==
  /\ Exited0(toolPc[m])
  /\ UNCHANGED << step, images, toolState, container >>
  /\ refused' = (refused \/ (llvmPc[m] = "rm" /\ llvmInUse))
  /\ Llvm!Script(m) \/ Llvm!Kill(m)

\* The user starts a container with the volumes, or forgets that of LLVM.
Start ==
  /\ container = "none" /\ container' = "checking"
  /\ UNCHANGED << step, images, refused >>
  /\ Tool!Use
  /\ Llvm!Use \/ UNCHANGED llvmState

\* The script is in the volume of llvmsupermutate.  Its check of the mounts looks
\* for directories: `docker run -v` has made one, whatever is in the volume.
Check ==
  /\ container = "checking"
  /\ container' = IF toolVolume.content # Empty /\ llvmInUse THEN "opt" ELSE "failed"
  /\ UNCHANGED << step, images, toolState, llvmState, refused >>

\* Mutant: the volumes go with the container.
StopRemoving ==
  /\ container \in {"opt", "failed"} /\ container' = "none"
  /\ toolVolume' = NoVolume /\ toolInUse' = FALSE
  /\ UNCHANGED << step, images, refused, toolPc, toolSha, toolBroken >>
  /\ IF llvmInUse THEN Llvm!Use ELSE UNCHANGED llvmState

Stop ==
  /\ container \in {"opt", "failed"} /\ container' = "none"
  /\ UNCHANGED << step, images, refused >>
  /\ Tool!Use
  /\ IF llvmInUse THEN Llvm!Use ELSE UNCHANGED llvmState

Next ==
  \/ \E m \in Makes : \/ Begin(m) \/ BuildLlvm(m) \/ BuildTool(m) \/ BuildStops(m)
                      \/ InstallTool(m) \/ InstallLlvm(m)
  \/ Start \/ Check \/ Stop

Spec == Init /\ [][Next]_vars

-------------------------------------------------------------------------------
Content(volume) == IF volume = NoVolume THEN Empty ELSE volume.content

\* The shapes of the variables; a plugin is built with an LLVM that there is.
TypeOK ==
  /\ step \in [Makes -> {"waiting", "llvm", "tool", "install", "only_install",
                         "failed", "killed"}]
  /\ \A n \in DOMAIN builtWith : builtWith[n] \in 1 .. llvmImage
  /\ Tool!TypeOK /\ Llvm!TypeOK
  /\ refused \in BOOLEAN
  /\ container \in {"none", "checking", "opt", "failed"}

\* The last command that was begun, if it has exited with 0.
Done(m) == Succeeded(m) /\ \A n \in Makes : n > m => step[n] = "waiting"

\* A command that exits with 0, and that no container has kept from removing a
\* volume, leaves both volumes with the images of that time, whatever earlier
\* commands left behind; a volume may be empty only if one was killed in it.
InstalledIsLatest ==
  \A m \in Makes :
    Done(m) /\ ~ refused =>
      /\ Content(toolVolume) = toolImage \/ (toolBroken /\ Content(toolVolume) = Empty)
      /\ Content(llvmVolume) = llvmImage \/ (llvmBroken /\ Content(llvmVolume) = Empty)

\* After a `make install` of that kind the plugin and the opt that loads it belong
\* together, even if earlier ones stopped between the two images or volumes.
PluginMatchesLLVM ==
  \A m \in Makes :
    /\ Done(m) /\ step[m] = "install" /\ ~ refused
    /\ Empty \notin {Content(toolVolume), Content(llvmVolume)}
    => builtWith[Content(toolVolume)] = Content(llvmVolume)

\* Each volume is one that runs of image_to_volume, containers and a moving tag
\* work on, so that what is proved of ImageToVolume holds of both.
VolumesAreImageToVolume == Tool!Spec /\ Llvm!Spec
===============================================================================
