-------------------------- MODULE ImageToVolume_proofs --------------------------
(***************************************************************************)
(* For any number of overlapping runs and any number of images: a volume   *)
(* is never older than its label says, and one in use is left alone.       *)
(***************************************************************************)
EXTENDS ImageToVolume, TLAPS

\* A run that is past its first step holds the ID of an image.
HoldsImage ==
  \A r \in Runs : pc[r] \notin {"inspect_image", "failed", "killed"} => sha[r] \in 1 .. image

\* IDs and content come from images that the tag has named.
FromPast ==
  volume # NoVolume =>
    /\ volume.label # Unlabelled => volume.label <= image
    /\ volume.content # Empty => volume.content <= image

IInv ==
  /\ TypeOK
  /\ HoldsImage
  /\ FromPast
  /\ ContentNotOlderThanLabel
  /\ EmptyVolumeIsInProgress

USE MaxImageAssumption DEF Images, Steps, Ended

LEMMA InitIInv == Init => IInv
BY DEF Init, IInv, TypeOK, VolumeStates, HoldsImage, FromPast,
       ContentNotOlderThanLabel, EmptyVolumeIsInProgress, Labelled

\* The four parts that a step which leaves volume and image alone preserves.
LEMMA SameVolume ==
  ASSUME IInv, UNCHANGED << image, volume >>
  PROVE  FromPast' /\ ContentNotOlderThanLabel'
BY DEF IInv, FromPast, ContentNotOlderThanLabel, Labelled

LEMMA InspectImageStep ==
  ASSUME IInv, NEW r \in Runs, InspectImage(r)
  PROVE  IInv'
<1>1. TypeOK'
  BY DEF IInv, TypeOK, VolumeStates, InspectImage, Move
<1>2. HoldsImage'
  BY DEF IInv, TypeOK, HoldsImage, InspectImage, Move
<1>3. FromPast' /\ ContentNotOlderThanLabel'
  BY SameVolume DEF InspectImage
<1>4. EmptyVolumeIsInProgress'
  BY DEF IInv, TypeOK, EmptyVolumeIsInProgress, Labelled, InspectImage, Move
<1> QED  BY <1>1, <1>2, <1>3, <1>4 DEF IInv

LEMMA InspectVolumeStep ==
  ASSUME IInv, NEW r \in Runs, InspectVolume(r)
  PROVE  IInv'
<1>1. TypeOK'
  BY DEF IInv, TypeOK, VolumeStates, InspectVolume, Move
<1>2. HoldsImage'
  BY DEF IInv, TypeOK, HoldsImage, InspectVolume, Move
<1>3. FromPast' /\ ContentNotOlderThanLabel'
  BY SameVolume DEF InspectVolume
<1>4. EmptyVolumeIsInProgress'
  BY DEF IInv, TypeOK, EmptyVolumeIsInProgress, Labelled, InspectVolume, Move
<1> QED  BY <1>1, <1>2, <1>3, <1>4 DEF IInv

LEMMA RemoveStep ==
  ASSUME IInv, NEW r \in Runs, Remove(r)
  PROVE  IInv'
<1>1. TypeOK'
  BY DEF IInv, TypeOK, VolumeStates, Remove, Move
<1>2. HoldsImage'
  BY DEF IInv, TypeOK, HoldsImage, Remove, Move
<1>3. FromPast' /\ ContentNotOlderThanLabel'
  BY DEF IInv, FromPast, ContentNotOlderThanLabel, Labelled, Remove
<1>4. EmptyVolumeIsInProgress'
  BY DEF IInv, TypeOK, EmptyVolumeIsInProgress, Labelled, Remove, Move
<1> QED  BY <1>1, <1>2, <1>3, <1>4 DEF IInv

LEMMA CreateStep ==
  ASSUME IInv, NEW r \in Runs, Create(r)
  PROVE  IInv'
<1>1. sha[r] \in 1 .. image /\ image \in Images
  BY DEF IInv, TypeOK, HoldsImage, Create, Move
<1>2. TypeOK'
  BY <1>1 DEF IInv, TypeOK, VolumeStates, Create, Move
<1>3. HoldsImage'
  BY DEF IInv, TypeOK, HoldsImage, Create, Move
<1>4. EmptyVolumeIsInProgress'
  BY DEF IInv, TypeOK, EmptyVolumeIsInProgress, Labelled, Create, Move
<1>5. CASE volume = NoVolume
  <2>1. volume' = [label |-> sha[r], content |-> Empty]
    BY <1>5 DEF Create
  <2>2. FromPast' /\ ContentNotOlderThanLabel'
    BY <1>1, <2>1 DEF FromPast, ContentNotOlderThanLabel, Create
  <2> QED  BY <1>2, <1>3, <1>4, <2>2 DEF IInv
<1>6. CASE volume # NoVolume
  <2>1. FromPast' /\ ContentNotOlderThanLabel'
    BY <1>6, SameVolume DEF Create
  <2> QED  BY <1>2, <1>3, <1>4, <2>1 DEF IInv
<1> QED  BY <1>5, <1>6

LEMMA RunStep ==
  ASSUME IInv, NEW r \in Runs, Run(r)
  PROVE  IInv'
<1>1. image \in Images
  BY DEF IInv, TypeOK, HoldsImage, Run, Move
<1>2. HoldsImage'
  BY DEF IInv, TypeOK, HoldsImage, Run, Move
<1>3. CASE volume = NoVolume
  <2>1. volume' = [label |-> Unlabelled, content |-> image]
    BY <1>3 DEF Run, Mounted
  <2>2. TypeOK'
    BY <1>1, <2>1 DEF IInv, TypeOK, VolumeStates, Run, Move
  <2>3. FromPast' /\ ContentNotOlderThanLabel'
    BY <1>1, <2>1 DEF FromPast, ContentNotOlderThanLabel, Labelled, Run
  <2>4. EmptyVolumeIsInProgress'
    BY <1>1, <2>1, EmptyAssumption DEF EmptyVolumeIsInProgress, Run
  <2> QED  BY <1>2, <2>2, <2>3, <2>4 DEF IInv
<1>4. CASE volume # NoVolume /\ volume.content = Empty
  <2>1. volume' = [volume EXCEPT !.content = image]
    BY <1>4 DEF Run, Mounted
  <2>2. volume \in [label : Images \cup {Unlabelled}, content : Images \cup {Empty}]
    BY <1>4 DEF IInv, TypeOK, VolumeStates
  <2>3. volume' \in [label : Images \cup {Unlabelled}, content : Images \cup {Empty}]
        /\ volume'.label = volume.label /\ volume'.content = image
    BY <1>1, <2>1, <2>2
  <2>4. TypeOK'
    BY <2>3 DEF IInv, TypeOK, VolumeStates, Run, Move
  <2>5. FromPast' /\ ContentNotOlderThanLabel'
    BY <1>1, <1>4, <2>2, <2>3
       DEF IInv, FromPast, ContentNotOlderThanLabel, Labelled, Run
  <2>6. EmptyVolumeIsInProgress'
    BY <1>1, <2>3, EmptyAssumption DEF EmptyVolumeIsInProgress, Run
  <2> QED  BY <1>2, <2>4, <2>5, <2>6 DEF IInv
<1>5. CASE volume # NoVolume /\ volume.content # Empty
  <2>1. volume' = volume
    BY <1>5 DEF Run, Mounted
  <2>2. TypeOK'
    BY <2>1 DEF IInv, TypeOK, VolumeStates, Run, Move
  <2>3. FromPast' /\ ContentNotOlderThanLabel'
    BY <2>1, SameVolume DEF Run
  <2>4. EmptyVolumeIsInProgress'
    BY <1>5, <2>1 DEF EmptyVolumeIsInProgress, Run
  <2> QED  BY <1>2, <2>2, <2>3, <2>4 DEF IInv
<1> QED  BY <1>3, <1>4, <1>5

LEMMA FailureStep ==
  ASSUME IInv, NEW r \in Runs, Refuse(r) \/ RunFails(r) \/ Kill(r)
  PROVE  IInv'
<1>1. TypeOK'
  BY DEF IInv, TypeOK, VolumeStates, Refuse, RunFails, Kill, Move
<1>2. HoldsImage'
  BY DEF IInv, TypeOK, HoldsImage, Refuse, RunFails, Kill, Move
<1>3. FromPast' /\ ContentNotOlderThanLabel'
  BY SameVolume DEF Refuse, RunFails, Kill
<1>4. EmptyVolumeIsInProgress'
  BY DEF IInv, TypeOK, EmptyVolumeIsInProgress, Labelled, Refuse, RunFails, Kill, Move
<1> QED  BY <1>1, <1>2, <1>3, <1>4 DEF IInv

LEMMA OutsideStep ==
  ASSUME IInv, Pull \/ Use \/ UNCHANGED vars
  PROVE  IInv'
<1>1. EmptyVolumeIsInProgress'
  BY DEF IInv, EmptyVolumeIsInProgress, Labelled, Pull, Use, vars
<1>2. CASE Pull
  <2>1. TypeOK'
    BY <1>2 DEF IInv, TypeOK, VolumeStates, Pull
  <2>2. HoldsImage'
    BY <1>2 DEF IInv, TypeOK, HoldsImage, Pull
  <2>3. FromPast' /\ ContentNotOlderThanLabel'
    BY <1>2 DEF IInv, TypeOK, VolumeStates, FromPast,
                ContentNotOlderThanLabel, Labelled, Pull
  <2> QED  BY <1>1, <2>1, <2>2, <2>3 DEF IInv
<1>3. CASE Use
  <2>1. volume' = IF volume = NoVolume
                  THEN [label |-> Unlabelled, content |-> Empty] ELSE volume
    BY <1>3 DEF Use
  <2>2. TypeOK' /\ HoldsImage'
    BY <1>3 DEF IInv, TypeOK, VolumeStates, HoldsImage, Use
  <2>3. FromPast' /\ ContentNotOlderThanLabel'
    BY <1>3, <2>1 DEF IInv, FromPast, ContentNotOlderThanLabel, Labelled, Use
  <2> QED  BY <1>1, <2>2, <2>3 DEF IInv
<1>4. CASE UNCHANGED vars
  <2>1. TypeOK' /\ HoldsImage'
    BY <1>4 DEF IInv, TypeOK, VolumeStates, HoldsImage, vars
  <2>2. FromPast' /\ ContentNotOlderThanLabel'
    BY <1>4, SameVolume DEF vars
  <2> QED  BY <1>1, <2>1, <2>2 DEF IInv
<1> QED  BY <1>2, <1>3, <1>4

LEMMA NextIInv == IInv /\ [Next]_vars => IInv'
BY InspectImageStep, InspectVolumeStep, RemoveStep, CreateStep, RunStep,
   FailureStep, OutsideStep DEF Next, Script

THEOREM Invariance == Spec => []IInv
<1>1. Init => IInv
  BY InitIInv
<1> QED  BY <1>1, NextIInv, PTL DEF Spec

\* Every variable keeps its shape, for any set of runs and any bound on images.
THEOREM TypeCorrect == Spec => []TypeOK
<1>1. IInv => TypeOK
  BY DEF IInv
<1> QED  BY Invariance, <1>1, PTL

\* However many runs overlap or are killed, and however often the tag moves,
\* the content of the volume is never older than the label a later run trusts.
THEOREM NeverOlder == Spec => []ContentNotOlderThanLabel
<1>1. IInv => ContentNotOlderThanLabel
  BY DEF IInv
<1> QED  BY Invariance, <1>1, PTL

\* Unless a run was killed or failed, a labelled volume without content has a run
\* about to fill it: a label is never left over a volume nobody populates.
THEOREM EmptyIsInProgress == Spec => []EmptyVolumeIsInProgress
<1>1. IInv => EmptyVolumeIsInProgress
  BY DEF IInv
<1> QED  BY Invariance, <1>1, PTL

\* No step of any run changes a populated volume while it is in use.
THEOREM InUseIsKept == Spec => VolumeInUseIsKept
<1>1. [Next]_vars =>
        [inUse /\ volume # NoVolume /\ volume.content # Empty => volume' = volume]_vars
  BY DEF Next, Script, Refuse, InspectImage, InspectVolume, Remove, Create, Run, Mounted,
         RunFails, Kill, Pull, Use, vars
<1> QED  BY <1>1, PTL DEF Spec, VolumeInUseIsKept
===============================================================================
