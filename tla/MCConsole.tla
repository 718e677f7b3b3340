------------------------------ MODULE MCConsole ------------------------------
(* A screen of 2 x 2 characters, or of one at the larger font scale.       *)
EXTENDS Console

MCLetters == {"a"}
MCColors  == {116}
MCScales  == {0, 1, 3}
=============================================================================
