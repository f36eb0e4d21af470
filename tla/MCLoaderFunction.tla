--------------------------- MODULE MCLoaderFunction ----------------------------
(* Up to four checks, for two instructions. *)
EXTENDS LoaderFunction
===============================================================================
