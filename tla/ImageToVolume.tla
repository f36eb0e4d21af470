----------------------------- MODULE ImageToVolume -----------------------------
(***************************************************************************)
(* docker/image_to_volume: copies a directory of a Docker image into a     *)
(* volume, and labels the volume with the image's ID so that the next run  *)
(* can skip the copy.  Several runs may overlap, any run may be killed at  *)
(* any step, the image's tag may be moved to a newer image while a run is  *)
(* under way, and containers of a user may be using the volume.  `set -eu` *)
(* is commented out, so a docker command that fails does not end a run.    *)
(***************************************************************************)
EXTENDS Naturals, FiniteSets

CONSTANTS
  Runs,      \* the runs of the script
  MaxImage,  \* how often the tag is moved
  NoVolume, Unlabelled, Empty

ASSUME MaxImageAssumption == MaxImage \in Nat \ {0}

ASSUME EmptyAssumption == Empty \notin 1 .. MaxImage

VARIABLES
  image,    \* the image the tag names, 0 if none; newer images are higher
  volume,   \* the volume's label and the image its content is of, or NoVolume
  inUse,    \* whether a user's container has the volume mounted
  pc,       \* where each run is
  sha,      \* image_sha1 of each run
  broken    \* whether a run has been killed or its `docker run` has failed

vars == << image, volume, inUse, pc, sha, broken >>

Images == 1 .. MaxImage

Steps == {"inspect_image", "inspect_volume", "rm", "create", "run", "skipped",
          "finished", "failed", "killed"}

Ended == {"skipped", "finished", "failed", "killed"}

Init ==
  /\ image = 0
  /\ volume = NoVolume
  /\ inUse = FALSE
  /\ pc = [r \in Runs |-> "inspect_image"]
  /\ sha = [r \in Runs |-> 0]
  /\ broken = FALSE

Move(r, from, to) == pc[r] = from /\ pc' = [pc EXCEPT ![r] = to]

\* Mutant: the ID is not kept.
InspectImageForgetting(r) ==
  /\ Move(r, "inspect_image", IF image = 0 THEN "failed" ELSE "inspect_volume")
  /\ UNCHANGED << image, volume, inUse, sha, broken >>

\* The script gives up if there is no image.
InspectImage(r) ==
  /\ Move(r, "inspect_image", IF image = 0 THEN "failed" ELSE "inspect_volume")
  /\ sha' = [sha EXCEPT ![r] = image]
  /\ UNCHANGED << image, volume, inUse, broken >>

\* The script checks its usage, and that docker and jq are there, before it starts.
Refuse(r) ==
  /\ Move(r, "inspect_image", "failed")
  /\ UNCHANGED << image, volume, inUse, sha, broken >>

\* The label of the volume; a volume that is not there has none.
image_sha1_used_by_volume == IF volume = NoVolume THEN Unlabelled ELSE volume.label

\* A volume made from this image is left alone.
InspectVolume(r) ==
  /\ Move(r, "inspect_volume",
          IF image_sha1_used_by_volume = sha[r] THEN "skipped" ELSE "rm")
  /\ UNCHANGED << image, volume, inUse, sha, broken >>

\* `docker volume rm -f` refuses to remove a volume that is in use.
Remove(r) ==
  /\ Move(r, "rm", "create")
  /\ volume' = IF inUse THEN volume ELSE NoVolume
  /\ UNCHANGED << image, inUse, sha, broken >>

\* Mutant: the label is written on a volume that is already there.
CreateRelabelling(r) ==
  /\ Move(r, "create", "run")
  /\ volume' = IF volume = NoVolume
               THEN [label |-> sha[r], content |-> Empty]
               ELSE [volume EXCEPT !.label = sha[r]]
  /\ UNCHANGED << image, inUse, sha, broken >>

\* `docker volume create` returns a volume that is already there as it is.
Create(r) ==
  /\ Move(r, "create", "run")
  /\ volume' = IF volume = NoVolume
               THEN [label |-> sha[r], content |-> Empty] ELSE volume
  /\ UNCHANGED << image, inUse, sha, broken >>

\* The volume after a container of the image has mounted it: Docker creates one
\* that is missing, and copies the image's directory into one that is empty.
Mounted ==
  CASE volume = NoVolume      -> [label |-> Unlabelled, content |-> image]
    [] volume # NoVolume /\ volume.content = Empty ->
                                 [volume EXCEPT !.content = image]
    [] OTHER                  -> volume

\* Mutant: the container runs without the volume.
RunWithoutVolume(r) ==
  /\ Move(r, "run", "finished")
  /\ UNCHANGED << image, volume, inUse, sha, broken >>

\* Mutant: the container copies its files into the volume, whatever is in it.
RunCopying(r) ==
  /\ Move(r, "run", "finished")
  /\ volume' = [Mounted EXCEPT !.content = image]
  /\ UNCHANGED << image, inUse, sha, broken >>

\* `docker run` resolves the tag again.
Run(r) ==
  /\ Move(r, "run", "finished")
  /\ volume' = Mounted
  /\ UNCHANGED << image, inUse, sha, broken >>

\* `docker run` fails before it mounts the volume, as when the container of an
\* overlapping run has the temporary name; the script goes on.
RunFails(r) ==
  /\ Move(r, "run", "finished")
  /\ broken' = TRUE
  /\ UNCHANGED << image, volume, inUse, sha >>

Kill(r) ==
  /\ pc[r] \notin Ended
  /\ pc' = [pc EXCEPT ![r] = "killed"]
  /\ broken' = TRUE
  /\ UNCHANGED << image, volume, inUse, sha >>

\* The world outside the script.
Pull ==
  /\ image < MaxImage
  /\ image' = image + 1
  /\ UNCHANGED << volume, inUse, pc, sha, broken >>

\* A container of another image mounts the volume, and creates one that is
\* missing, or leaves it.
Use ==
  /\ inUse' = ~ inUse
  /\ volume' = IF volume = NoVolume
               THEN [label |-> Unlabelled, content |-> Empty] ELSE volume
  /\ UNCHANGED << image, pc, sha, broken >>

\* A step the script itself takes.
Script(r) ==
  \/ Refuse(r) \/ InspectImage(r) \/ InspectVolume(r) \/ Remove(r) \/ Create(r)
  \/ Run(r) \/ RunFails(r)

Next ==
  \/ \E r \in Runs : Script(r) \/ Kill(r)
  \/ Pull
  \/ Use

Spec == Init /\ [][Next]_vars

-------------------------------------------------------------------------------
VolumeStates ==
  [label : Images \cup {Unlabelled}, content : Images \cup {Empty}] \cup {NoVolume}

TypeOK ==
  /\ image \in Images \cup {0}
  /\ volume \in VolumeStates
  /\ inUse \in BOOLEAN
  /\ pc \in [Runs -> Steps]
  /\ sha \in [Runs -> Images \cup {0}]
  /\ broken \in BOOLEAN

Labelled == volume # NoVolume /\ volume.label # Unlabelled

\* Runs that overlap, runs that are killed and a tag that moves in the middle of
\* a run may leave a volume whose content is newer than its label says, which a
\* later run redoes, but never one whose content is older, which it would keep.
ContentNotOlderThanLabel ==
  Labelled => volume.content = Empty \/ volume.content >= volume.label

\* A volume in use keeps its content and its label: the content a container has
\* read is never replaced or removed under it, whichever runs overlap.
VolumeInUseIsKept ==
  [][inUse /\ volume # NoVolume /\ volume.content # Empty => volume' = volume]_vars

\* As long as no run has been killed or has failed, a volume that is labelled
\* but not populated has a run at work that is about to populate it.
EmptyVolumeIsInProgress ==
  (Labelled /\ volume.content = Empty /\ ~ broken) => \E r \in Runs : pc[r] = "run"

\* Lines 4 to 6: "To avoid recreating volumes when the underlying image hasn't
\* changed, this script uses Docker labels to record the SHA1 of the image that
\* was used to build the volume."  So when every run has ended, a volume with
\* the label of an image has been built from that image.
LabelMeansBuilt ==
  (Labelled /\ \A r \in Runs : pc[r] \in Ended)
    => volume.content # Empty
===============================================================================
