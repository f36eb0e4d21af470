---------------------------- MODULE MCSupermutantRun ----------------------------
EXTENDS SupermutantRun, MCPrograms

MCPrograms_ == {Straight, Diamond, Loop, Helper(Straight)}
===============================================================================
