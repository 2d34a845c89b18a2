---------------------------- MODULE MCTsoEngine ----------------------------
(* Model checking of TsoEngine.                                            *)
EXTENDS TsoEngine
=============================================================================
