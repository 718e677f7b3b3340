------------------------------- MODULE MCHeap -------------------------------
(* A heap of one small page, so that a few blocks fill it.                 *)
EXTENDS Heap

MCSizes        == {0, 1, 33, 80, 168}
MCAlignments   == {0, 12, 32}
MCPoolRequests == {1}
=============================================================================
