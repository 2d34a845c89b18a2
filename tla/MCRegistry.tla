---------------------------- MODULE MCRegistry ----------------------------
(* Model checking of Registry. The runs check liveness, so they use no     *)
(* symmetry.                                                               *)
EXTENDS Registry
=============================================================================
