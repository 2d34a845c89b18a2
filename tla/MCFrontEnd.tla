----------------------------- MODULE MCFrontEnd -----------------------------
(* Two threads, two sections in a word, a shared and a reusable ring. The  *)
(* masks enable everything but one section (".*", "!app:DEBUG"), or only   *)
(* that ("!app:", "DEBUG", "!:INFO"). The expressions also match a section *)
(* that the area does not have.                                            *)
EXTENDS FrontEnd, TLC

MaskString(not, area, sect) == [not |-> not, area |-> area, sect |-> sect]
Debug == {"DEBUG", "DEBUG2"}
MCMasks == {<<MaskString(FALSE, Null, Null), MaskString(TRUE, AreaNames, Debug)>>,
            <<MaskString(TRUE, AreaNames, Null), MaskString(FALSE, Null, Debug),
              MaskString(TRUE, Null, {"INFO"})>>}
MCSectionLists == {<<"INFO", "DEBUG">>, <<"DEBUG">>}
ThreadSymmetry == Permutations(Threads)
=============================================================================
