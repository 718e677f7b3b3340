------------------------------- MODULE MCPrintf -------------------------------
(* Formats over the conversions of the kernel's printers, with 4-bit chars, *)
(* 8-bit ints and 12-bit long longs.                                        *)
EXTENDS Printf

MCAlphabet == {"%", "0", "3", "h", "l", "c", "s", "d", "u", "X", "x", "p", "o", "f", "z"}

(* Small values, the edges of short, int and long long, -5 as an int and   *)
(* as a long long, and an int above which the slot has rubbish.            *)
MCWords == {0, 5, 8, 31, 127, 128, 251, 2048, 4091, 4095}
MCTexts == {<<"A">>, <<"o", "k">>}
MCDoubles == {-13, 0, 3, 20}
===============================================================================
