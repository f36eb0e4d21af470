---------------------------- MODULE MCInstallation -----------------------------
(* Up to three commands, one after the other, and two images of each kind. *)
EXTENDS Installation
===============================================================================
