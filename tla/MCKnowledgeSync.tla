-------------------------- MODULE MCKnowledgeSync --------------------------
(* Instances of KnowledgeSync for TLC. *)
EXTENDS KnowledgeSync

CONSTANTS w1, w2, m1, m2

OneWorker  == {w1}
TwoWorkers == {w1, w2}
OneModel   == {m1}
TwoModels  == {m1, m2}
TwoFiles   == 1 .. 2

=============================================================================
