------------------------------- MODULE MCStrings -------------------------------
(* Twelve bytes and chunks of four: distinct bytes to see where each byte    *)
(* goes, and two short strings of any contents to compare and to search.     *)
EXTENDS Strings

Distinct(zeros) == [i \in Addr |-> IF i \in zeros THEN 0 ELSE i]
Short(a, b, c) == [i \in Addr |->
    CASE i = FIRST -> a [] i = FIRST + 1 -> b [] i = FIRST + 6 -> c
      [] i \in {FIRST + 3, LAST} -> 0 [] OTHER -> 200]

MCMemories ==
    {Distinct({}), Distinct({LAST - 6}), Distinct({LAST})}
      \cup {Short(a, b, c) : a, b, c \in {0, 1, 200}}
MCPointers == {FIRST, FIRST + 1, FIRST + 2, FIRST + 4, FIRST + 6, FIRST + 7}
MCCounts == {0, 1, 3, 4, 6, 9, 11}
MCValues == {0, 1, 456}
================================================================================
