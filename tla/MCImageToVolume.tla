---------------------------- MODULE MCImageToVolume ----------------------------
EXTENDS ImageToVolume, TLC

\* The runs differ only in name.
RunSymmetry == Permutations(Runs)
===============================================================================
