----------------------------- MODULE MCLiballoc -----------------------------
(* Chunks of two small pages, and sizes that split them in both classes.   *)
EXTENDS Liballoc

MCSizes        == {0, 40, 300, 560}
MCCounts       == {25}
MCPoolRequests == {2}
=============================================================================
