----------------------------- MODULE MCRingBuf -----------------------------
(* Model checking of RingBuf: the writers are interchangeable.             *)
EXTENDS RingBuf, TLC

WriterSymmetry == Permutations(Writers)
=============================================================================
