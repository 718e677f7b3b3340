----------------------------- MODULE MCPagePool -----------------------------
(* The page pool with six pages and requests from none to one too many.   *)
EXTENDS PagePool

MCRequests == 0..7
=============================================================================
