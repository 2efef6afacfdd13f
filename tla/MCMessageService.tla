-------------------------- MODULE MCMessageService --------------------------
(* Instances of MessageService for TLC. *)
EXTENDS MessageService

CONSTANTS r1, r2, f1, f2

OneRequest  == {r1}
TwoRequests == {r1, r2}
OneFile     == {f1}
TwoFiles    == {f1, f2}

=============================================================================
