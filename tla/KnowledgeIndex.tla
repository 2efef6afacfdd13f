--------------------------- MODULE KnowledgeIndex ---------------------------
(***************************************************************************)
(* The index of the knowledge base as those see it who only read it: each  *)
(* file has one row or none, and a row is put in its place, or a set of    *)
(* rows is removed, in one instant.  There is no moment at which half of a *)
(* row is there, or the row of a file is gone because it is being written. *)
(*                                                                         *)
(* KnowledgeSync implements this, with a row that is spread over two       *)
(* tables.  Retrieval relies on it: to a search, a row is what its query   *)
(* makes of it.                                                            *)
(***************************************************************************)
CONSTANTS
    Files,   \* the file ids
    Rows,    \* what may stand in the index for a file
    NoRow    \* what stands there for a file that is not indexed

VARIABLE rows

Init == rows \in [Files -> Rows \cup {NoRow}]

UpsertDocument(f) == \E row \in Rows : rows' = [rows EXCEPT ![f] = row]

DeleteDocuments(orphans) ==
    rows' = [f \in Files |-> IF f \in orphans THEN NoRow ELSE rows[f]]

Next ==
    \/ \E f \in Files : UpsertDocument(f)
    \/ \E orphans \in SUBSET Files : DeleteDocuments(orphans)

Spec == Init /\ [][Next]_rows

=============================================================================
