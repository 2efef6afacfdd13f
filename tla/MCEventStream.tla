--------------------------- MODULE MCEventStream ---------------------------
(***************************************************************************)
(* Instances of EventStream for TLC.  Ids are drawn in any order, so the   *)
(* tie-break by id is exercised whenever two rows share a stamp.           *)
(***************************************************************************)
EXTENDS EventStream

CONSTANTS e1, e2

TwoEmitters == {e1, e2}

=============================================================================
