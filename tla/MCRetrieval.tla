---------------------------- MODULE MCRetrieval ----------------------------
(* Three files, of which the full-text search returns two. *)
EXTENDS Retrieval

MCFiles  == 1 .. 3
MCDims   == {1, 2}
MCLimits == {1, 3}
=============================================================================
