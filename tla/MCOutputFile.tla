---------------------------- MODULE MCOutputFile ----------------------------
(* Model checking of OutputFile.                                           *)
EXTENDS OutputFile, TLC
=============================================================================
