------------------------ MODULE KnowledgeSync_proofs ------------------------
(***************************************************************************)
(* Proofs about KnowledgeSync, for any number of processes on one          *)
(* database, of files and of models, any size of batch, and whatever       *)
(* faults: types, that the two tables of the index agree, that its readers *)
(* see whole rows only (KnowledgeIndex), that a sync no other overlaps     *)
(* repairs the index and embeds only what changed, and that a startup      *)
(* takes a bounded number of steps.  When the provider keeps the order of  *)
(* its inputs, every vector is of the file it is stored for; when it       *)
(* answers for every file, nothing is left out, and the index serves       *)
(* lexical search.                                                         *)
(*                                                                         *)
(* TablesAgree is not inductive: a commit installs the private copy of the *)
(* open transaction.  So the invariant says what that copy is at each step *)
(* of the transaction (StagedAgrees), that only the holder of the lock is  *)
(* at such a step (OneWriter), and that the vectors of a batch that is     *)
(* being written are those of its files (BatchIsEmbedded).  The code pairs *)
(* the two by position, so this rests on where a file stands in a batch    *)
(* (PlaceIsTyped, FirstIsIn) and on what an answer may be (AnswerIsPaired).*)
(*                                                                         *)
(* For a sync alone, the invariant says what its plan still owes the index *)
(* (PlanHolds): every file it has neither to embed, to write nor to delete *)
(* has its row already, and those it is to embed have another one.         *)
(*                                                                         *)
(* That a commit is one step of KnowledgeIndex needs that the copy it      *)
(* installs is the committed table but for what its transaction wrote      *)
(* (CopyInv): the lock keeps every other commit out since it was taken.    *)
(***************************************************************************)
EXTENDS KnowledgeSync, FiniteSetTheorems, WellFoundedInduction, TLAPS

OneWriter == \A w \in Workers : pc[w] \in InTransaction => lock = w

BatchIsEmbedded ==
    \A w \in Workers :
        /\ \A f \in batch[w] : vectors[w][f] \in Embeddings
        /\ "order" \notin Faults =>
              \A f \in batch[w] : vectors[w][f] = Embedding(f, documents[w][f])
        /\ pc[w] \in {"down", "initialize_database", "list_documents"} => batch[w] = {}
        /\ pc[w] = "replace_kb_documents" => batch[w] # {}

(* The rows of docs have vectors of their own. *)
Belong(docs) ==
    "order" \notin Faults =>
        \A f \in Files : docs[f] # NoRow => docs[f].vector = Embedding(f, docs[f].content)

(* What the private copy of the open transaction lacks, at each step of it. *)
Staged(w) ==
    /\ Belong(txnDocs)
    /\ pc[w] = "delete_kb_fts" =>
          \A f \in Files : IF f \in orphans[w] THEN txnDocs[f] = NoRow
                           ELSE txnFts[f] = txnDocs[f].content
    /\ pc[w] = "refresh_kb_fts" =>
          \A f \in Files : IF f = File(w) THEN txnDocs[f].content = documents[w][f]
                           ELSE txnFts[f] = txnDocs[f].content
    /\ pc[w] \in {"commit_delete", "commit_upsert"} =>
          \A f \in Files : txnFts[f] = txnDocs[f].content

StagedAgrees == \A w \in Workers : pc[w] \in InTransaction => Staged(w)

IndexInv ==
    /\ TypeOK
    /\ OneWriter
    /\ BatchIsEmbedded
    /\ StagedAgrees
    /\ TablesAgree
    /\ Belong(kbDocs)

-----------------------------------------------------------------------------
(* Facts about the helpers. *)

LEMMA LabelsAreTyped ==
    /\ InTransaction \subseteq PCs
    /\ {"down", "initialize_database", "serving", "list_documents", "get_cached_metadata",
        "delete_kb_documents", "create_embeddings", "replace_kb_documents"} \subseteq PCs \ InTransaction
  BY DEF InTransaction, PCs

LEMMA RowsAreTyped ==
    /\ NoRow \in Rows /\ NoRow.content = 0
    /\ \A c \in Contents, v \in Embeddings \cup {NoVector}, m \in Models \cup {NoModel} :
          /\ Row(c, v, m) \in Rows
          /\ Row(c, v, m).content = c
          /\ Row(c, v, m).vector = v
    /\ \A row \in Rows : row.content \in Contents
    /\ \A f \in Files, c \in Contents : Embedding(f, c) \in Embeddings
    /\ 0 \in Contents /\ Nothing \in [Files -> Contents]
    /\ NoVectors \in [Files -> Embeddings \cup {NoVector}]
  BY KnowledgeSyncAssumption
     DEF Rows, Row, NoRow, Contents, Nothing, NoVectors, Embedding, Embeddings

(***************************************************************************)
(* Batches and their answers.  The files of a set stand in it at places    *)
(* from 1 to its size; so the first one, whatever the batch size, is in    *)
(* the next batch, and an answer to every input leaves no file without.    *)
(***************************************************************************)
LEMMA PlaceIsTyped ==
  ASSUME NEW S \in SUBSET Files, NEW f \in S
  PROVE  Place(S, f) \in 1 .. Cardinality(S)
  <1> DEFINE below == {g \in S : g <= f}
  <1>1. IsFiniteSet(S)
    BY KnowledgeSyncAssumption, FS_Subset
  <1>2. IsFiniteSet(below) /\ Cardinality(below) <= Cardinality(S)
    BY <1>1, FS_Subset
  <1>3. Cardinality(below) \in Nat /\ Cardinality(S) \in Nat
    BY <1>1, <1>2, FS_CardinalityType
  <1>4. f \in below
    BY KnowledgeSyncAssumption
  <1>5. Cardinality(below) # 0
    BY <1>2, <1>4, FS_EmptySet
  <1>6. Place(S, f) = Cardinality(below)
    BY DEF Place
  <1> HIDE DEF below
  <1> QED  BY <1>2, <1>3, <1>5, <1>6

LEMMA FirstIsIn ==
  ASSUME NEW S \in SUBSET Files, S # {}
  PROVE  First(S) \in S /\ \A g \in S : First(S) <= g
  <1> DEFINE less == {p \in Nat \X Nat : p[1] < p[2]}
  <1>1. S \in SUBSET Nat
    BY KnowledgeSyncAssumption
  <1>2. IsWellFoundedOn(less, Nat)
    BY NatLessThanWellFounded DEF OpToRel
  <1>3. PICK f \in S : \A g \in S : <<g, f>> \notin less
    <2> HIDE DEF less
    <2> QED  BY <1>1, <1>2, WFMin
  <1>4. ASSUME NEW g \in S PROVE f <= g
    <2>1. f \in Nat /\ g \in Nat
      BY <1>1
    <2>2. g < f => <<g, f>> \in less
      BY <2>1
    <2> HIDE DEF less
    <2> QED  BY <1>3, <2>1, <2>2
  <1> QED  BY <1>4, Zenon DEF First

LEMMA NextBatchIsSome ==
  ASSUME NEW w \in Workers, toEmbed[w] \in SUBSET Files
  PROVE  /\ NextBatch(w) \in SUBSET toEmbed[w]
         /\ toEmbed[w] # {} => NextBatch(w) # {}
  <1>1. ASSUME toEmbed[w] # {} PROVE First(toEmbed[w]) \in NextBatch(w)
    <2> DEFINE f == First(toEmbed[w])
    <2>1. f \in toEmbed[w] /\ \A g \in toEmbed[w] : f <= g /\ f \in Nat /\ g \in Nat
      BY <1>1, FirstIsIn, KnowledgeSyncAssumption
    <2>2. {g \in toEmbed[w] : g <= f} = {f}
      BY <2>1
    <2>3. Place(toEmbed[w], f) = 1
      BY <2>2, FS_Singleton DEF Place
    <2>4. Place(toEmbed[w], f) <= BatchSize
      BY <2>3, KnowledgeSyncAssumption
    <2> QED  BY <2>1, <2>4, Zenon DEF NextBatch
  <1> QED  BY <1>1 DEF NextBatch

LEMMA AnswerIsPaired ==
  ASSUME TypeOK, NEW w \in Workers, NEW b \in SUBSET Files, NEW data \in Answers(w, b)
  PROVE  /\ Zipped(b, data) \in SUBSET b
         /\ Vectors(b, data) \in [Files -> Embeddings \cup {NoVector}]
         /\ \A f \in Zipped(b, data) : Vectors(b, data)[f] \in Embeddings
         /\ "provider" \notin Faults => Zipped(b, data) = b
         /\ "order" \notin Faults =>
               \A f \in Zipped(b, data) : Vectors(b, data)[f] = Embedding(f, documents[w][f])
  <1>1. PICK n \in 0 .. Cardinality(b) : data \in [1 .. n -> {Embedding(f, documents[w][f]) : f \in b}]
    BY DEF Answers
  <1>2. /\ "provider" \notin Faults => Len(data) = Cardinality(b)
        /\ "order" \notin Faults => InOrder(w, b, data)
    BY DEF Answers
  <1>3. IsFiniteSet(b) /\ Cardinality(b) \in Nat
    BY KnowledgeSyncAssumption, FS_Subset, FS_CardinalityType
  <1>4. n \in Nat /\ Len(data) = n
    BY <1>1, <1>3
  <1>5. \A f \in b : Place(b, f) \in 1 .. Cardinality(b)
    BY PlaceIsTyped
  <1>6. Zipped(b, data) \in SUBSET b
    BY DEF Zipped
  <1>7. \A f \in b : Embedding(f, documents[w][f]) \in Embeddings
    BY RowsAreTyped DEF TypeOK
  <1>8. ASSUME NEW f \in Zipped(b, data) PROVE data[Place(b, f)] \in Embeddings
    <2>1. f \in b /\ Place(b, f) \in 1 .. n
      BY <1>3, <1>4, <1>5 DEF Zipped
    <2> QED  BY <1>1, <1>7, <2>1
  <1>9. Vectors(b, data) \in [Files -> Embeddings \cup {NoVector}]
    BY <1>8 DEF Vectors
  <1>10. \A f \in Zipped(b, data) : Vectors(b, data)[f] \in Embeddings
    BY <1>6, <1>8 DEF Vectors
  <1>11. "provider" \notin Faults => Zipped(b, data) = b
    BY <1>2, <1>3, <1>5 DEF Zipped
  <1>12. ASSUME "order" \notin Faults, NEW f \in Zipped(b, data)
         PROVE  Vectors(b, data)[f] = Embedding(f, documents[w][f])
    <2>1. f \in b /\ f \in Files /\ Place(b, f) <= Len(data)
      BY DEF Zipped
    <2>2. Vectors(b, data)[f] = data[Place(b, f)]
      BY <2>1 DEF Vectors
    <2> QED  BY <1>2, <1>12, <2>1, <2>2 DEF InOrder
  <1> QED  BY <1>6, <1>9, <1>11, <1>12, <1>10

(* Between two transactions no sync holds the lock. *)
LEMMA NextStepLands ==
  ASSUME NEW w \in Workers, NEW b, NEW e, TypeOK, NextStep(w, b, e)
  PROVE  /\ tools' \in [Workers -> BOOLEAN]
         /\ \E label \in {"replace_kb_documents", "create_embeddings", "serving"} :
               pc' = [pc EXCEPT ![w] = label] /\ (label = "replace_kb_documents" => b # {})
  BY DEF NextStep, Serve, Goto, TypeOK

-----------------------------------------------------------------------------
(***************************************************************************)
(* Type correctness, and with it that the write lock is held only inside a *)
(* transaction.  A step that leaves a transaction must release the lock it *)
(* holds, hence OneWriter.                                                 *)
(***************************************************************************)
LEMMA TypeStep ==
  ASSUME TypeOK, OneWriter, [Next]_vars
  PROVE  TypeOK' /\ OneWriter'
  <1> USE LabelsAreTyped, KnowledgeSyncAssumption DEF TypeOK, OneWriter, Goto
  <1>1. ASSUME NEW f \in Files, Edit(f) PROVE TypeOK' /\ OneWriter'
    <2>1. disk[f] \in Contents /\ (disk[f] < MaxVersion => disk[f] + 1 \in Contents) /\ 0 \in Contents
      BY DEF Contents
    <2>2. disk' \in [Files -> Contents]
      BY ZenonT(40), <1>1, <2>1 DEF Edit
    <2> QED  BY <1>1, <2>2 DEF Edit, index, txn, plan, upsert
  <1>2. ASSUME NEW w \in Workers, Boot(w) PROVE TypeOK' /\ OneWriter'
    <2>1. alone' \in [Workers -> BOOLEAN]
      BY <1>2, Zenon DEF Boot
    <2>2. pc' = [pc EXCEPT ![w] = "initialize_database"] /\ pc[w] = "down"
      BY <1>2 DEF Boot
    <2> QED  BY <1>2, <2>1, <2>2 DEF Boot, index, txn, plan, upsert
  <1>3. ASSUME NEW w \in Workers, BuildAppContext(w) PROVE TypeOK' /\ OneWriter'
    <2>1. model' \in [Workers -> Models \cup {NoModel}]
      <3>1. model \in [Workers -> Models \cup {NoModel}]
        OBVIOUS
      <3> QED  BY ONLY <1>3, <3>1 DEF BuildAppContext
    <2>2. \E label \in PCs \ InTransaction : pc' = [pc EXCEPT ![w] = label]
      <3>1. \E label \in {"list_documents", "serving", "down"} : pc' = [pc EXCEPT ![w] = label]
        BY ONLY <1>3 DEF BuildAppContext, Goto
      <3>2. {"list_documents", "serving", "down"} \subseteq PCs \ InTransaction
        BY ONLY DEF PCs, InTransaction
      <3> QED  BY ONLY <3>1, <3>2
    <2> QED  BY <1>3, <2>1, <2>2 DEF BuildAppContext, index, txn, upsert
  <1>4. ASSUME NEW w \in Workers, ListDocuments(w) PROVE TypeOK' /\ OneWriter'
    BY <1>4 DEF ListDocuments, index, txn, upsert
  <1>5. ASSUME NEW w \in Workers, GetCachedMetadata(w) PROVE TypeOK' /\ OneWriter'
    <2>1. /\ tools' \in [Workers -> BOOLEAN]
          /\ \E label \in PCs \ InTransaction : pc' = [pc EXCEPT ![w] = label]
      BY <1>5, NextStepLands DEF GetCachedMetadata
    <2> QED  BY <1>5, <2>1 DEF GetCachedMetadata, index, txn, upsert
  <1>6. ASSUME NEW w \in Workers, DeleteKbDocuments(w) PROVE TypeOK' /\ OneWriter'
    BY SMTT(30), <1>6, RowsAreTyped DEF DeleteKbDocuments, Begin, index, plan, upsert, InTransaction
  <1>7. ASSUME NEW w \in Workers, DeleteKbFts(w) PROVE TypeOK' /\ OneWriter'
    BY <1>7, RowsAreTyped DEF DeleteKbFts, index, plan, upsert, InTransaction
  <1>8. ASSUME NEW w \in Workers, CommitDelete(w) PROVE TypeOK' /\ OneWriter'
    <2>1. /\ tools' \in [Workers -> BOOLEAN]
          /\ \E label \in PCs \ InTransaction : pc' = [pc EXCEPT ![w] = label]
      BY <1>8, NextStepLands DEF CommitDelete
    <2> QED  BY <1>8, <2>1 DEF CommitDelete, Commit, plan, upsert, InTransaction
  <1>9. ASSUME NEW w \in Workers, CreateEmbeddings(w) PROVE TypeOK' /\ OneWriter'
    <2> DEFINE b == NextBatch(w)
    <2>1. /\ toEmbed' = [toEmbed EXCEPT ![w] = @ \ b]
          /\ TakeVectors(w, b) \/ SkipBatch(w, b)
      BY <1>9 DEF CreateEmbeddings
    <2>2. /\ tools' \in [Workers -> BOOLEAN]
          /\ \E label \in PCs \ InTransaction : pc' = [pc EXCEPT ![w] = label]
      BY <2>1, NextStepLands DEF TakeVectors, SkipBatch
    <2>3. b \in SUBSET Files
      BY NextBatchIsSome
    <2> HIDE DEF b
    <2>4. toEmbed' \in [Workers -> SUBSET Files]
      BY <2>1
    <2>5. /\ batch' \in [Workers -> SUBSET Files]
          /\ skipped' \in [Workers -> SUBSET Files]
          /\ vectors' \in [Workers -> [Files -> Embeddings \cup {NoVector}]]
      <3>1. CASE SkipBatch(w, b)
        BY <3>1, <2>3 DEF SkipBatch
      <3>2. CASE TakeVectors(w, b)
        <4>1. PICK data \in Answers(w, b) :
                 /\ vectors' = [vectors EXCEPT ![w] = Vectors(b, data)]
                 /\ batch' = [batch EXCEPT ![w] = Zipped(b, data)]
                 /\ skipped' = [skipped EXCEPT ![w] = @ \cup (b \ Zipped(b, data))]
          BY <3>2 DEF TakeVectors
        <4>2. /\ Zipped(b, data) \in SUBSET b
              /\ Vectors(b, data) \in [Files -> Embeddings \cup {NoVector}]
          BY <2>3, AnswerIsPaired
        <4>3. Zipped(b, data) \in SUBSET Files /\ skipped[w] \cup (b \ Zipped(b, data)) \in SUBSET Files
          BY <2>3, <4>2
        <4> QED  BY <4>1, <4>2, <4>3
      <3> QED  BY <2>1, <3>1, <3>2
    <2>6. UNCHANGED <<disk, kbDocs, kbFts, lock, txnDocs, txnFts, model, documents, orphans, alone>>
      BY <1>9 DEF CreateEmbeddings, index, txn
    <2>7. pc[w] \notin InTransaction
      BY <1>9 DEF CreateEmbeddings
    <2>8. PICK label \in PCs \ InTransaction : pc' = [pc EXCEPT ![w] = label]
      BY <2>2
    <2>9. pc' \in [Workers -> PCs] /\ (lock' # NoWorker => pc'[lock'] \in InTransaction) /\ OneWriter'
      BY <2>6, <2>7, <2>8
    <2> QED  BY <2>2, <2>4, <2>5, <2>6, <2>9
  <1>10. ASSUME NEW w \in Workers, ReplaceKbDocuments(w) PROVE TypeOK' /\ OneWriter'
    <2> DEFINE f == File(w)
    <2>1. txnDocs' = [kbDocs EXCEPT ![f] = Row(documents[w][f], vectors[w][f], model[w])]
      BY <1>10 DEF ReplaceKbDocuments
    <2> HIDE DEF f
    <2>2. f \in Files => Row(documents[w][f], vectors[w][f], model[w]) \in Rows
      <3>1. /\ documents[w] \in [Files -> Contents] /\ model[w] \in Models \cup {NoModel}
            /\ vectors[w] \in [Files -> Embeddings \cup {NoVector}]
        OBVIOUS
      <3> QED  BY ONLY <3>1, RowsAreTyped
    <2>3. txnDocs' \in [Files -> Rows]
      <3>1. kbDocs \in [Files -> Rows]
        OBVIOUS
      <3> QED  BY ONLY <2>1, <2>2, <3>1
    <2> QED  BY <1>10, <2>3 DEF ReplaceKbDocuments, Begin, index, plan, upsert, InTransaction
  <1>11. ASSUME NEW w \in Workers, RefreshKbFts(w) PROVE TypeOK' /\ OneWriter'
    <2> DEFINE f == File(w)
    <2>1. txnFts' = [txnFts EXCEPT ![f] = documents[w][f]]
      BY <1>11 DEF RefreshKbFts
    <2> HIDE DEF f
    <2>2. txnFts' \in [Files -> Contents]
      <3>1. txnFts \in [Files -> Contents] /\ documents[w] \in [Files -> Contents]
        OBVIOUS
      <3>2. f \in Files => documents[w][f] \in Contents
        BY ONLY <3>1
      <3> QED  BY ONLY <2>1, <3>1, <3>2
    <2> QED  BY <1>11, <2>2 DEF RefreshKbFts, index, plan, upsert, InTransaction
  <1>12. ASSUME NEW w \in Workers, CommitUpsert(w) PROVE TypeOK' /\ OneWriter'
    <2>1. /\ tools' \in [Workers -> BOOLEAN]
          /\ \E label \in PCs \ InTransaction : pc' = [pc EXCEPT ![w] = label]
      BY <1>12, NextStepLands DEF CommitUpsert
    <2> QED  BY <1>12, <2>1 DEF CommitUpsert, Commit, plan, InTransaction
  <1>13. ASSUME NEW w \in Workers, SyncFails(w) PROVE TypeOK' /\ OneWriter'
    BY <1>13 DEF SyncFails, SyncRaises, index, plan, upsert
  <1>14. ASSUME NEW w \in Workers, Stop(w) PROVE TypeOK' /\ OneWriter'
    BY <1>14, RowsAreTyped DEF Stop, index
  <1>15. CASE UNCHANGED vars
    BY <1>15 DEF vars, index, txn, plan, upsert
  <1> QED
    BY <1>1, <1>2, <1>4, <1>5, <1>6, <1>7, <1>8, <1>9, <1>10, <1>11, <1>12, <1>13, <1>14, <1>15,
       <1>3 DEF Next, Sync

(***************************************************************************)
(* For any number of processes that sync one database, with any faults,    *)
(* the state keeps its type, and the write lock is held only by a process  *)
(* that is inside a transaction and so will release it.                    *)
(***************************************************************************)
THEOREM TypeCorrect == Spec => []TypeOK
  <1>1. ASSUME Init PROVE TypeOK /\ OneWriter
    <2>1. disk \in [Files -> Contents]
      <3>1. {0, 1} \subseteq Contents
        BY KnowledgeSyncAssumption DEF Contents
      <3> QED  BY <1>1, <3>1 DEF Init
    <2>2. kbDocs \in [Files -> Rows] /\ txnDocs \in [Files -> Rows]
      BY <1>1, RowsAreTyped DEF Init
    <2>3. tools \in [Workers -> BOOLEAN] /\ alone \in [Workers -> BOOLEAN]
      BY <1>1 DEF Init
    <2> QED  BY <1>1, <2>1, <2>2, <2>3, RowsAreTyped, LabelsAreTyped, KnowledgeSyncAssumption
             DEF Init, TypeOK, OneWriter
  <1>2. TypeOK /\ OneWriter /\ [Next]_vars => TypeOK' /\ OneWriter'
    BY TypeStep
  <1> QED  BY <1>1, <1>2, PTL DEF Spec

-----------------------------------------------------------------------------
(* The two tables. *)

LEMMA OneTransaction ==
  ASSUME TypeOK, OneWriter, NEW w \in Workers
  PROVE  /\ lock = NoWorker => pc[w] \notin InTransaction
         /\ lock = w => \A v \in Workers \ {w} : pc[v] \notin InTransaction
  BY KnowledgeSyncAssumption DEF TypeOK, OneWriter

(* A step that changes neither table nor the open transaction, and leaves   *)
(* its worker outside of one.                                               *)
LEMMA OutsideTransaction ==
  ASSUME NEW w \in Workers, TypeOK, TypeOK', StagedAgrees, TablesAgree, Belong(kbDocs),
         UNCHANGED <<kbDocs, kbFts, txnDocs, txnFts>>, pc'[w] \notin InTransaction,
         \A v \in Workers \ {w} :
            /\ pc'[v] = pc[v] /\ documents'[v] = documents[v]
            /\ orphans'[v] = orphans[v] /\ batch'[v] = batch[v]
  PROVE  StagedAgrees' /\ TablesAgree' /\ Belong(kbDocs)'
  <1>1. TablesAgree' /\ Belong(kbDocs)'
    BY DEF TablesAgree, Belong
  <1>2. Belong(txnDocs) => Belong(txnDocs)'
    BY DEF Belong
  <1>3. ASSUME NEW v \in Workers, pc'[v] \in InTransaction PROVE Staged(v)'
    <2>1. v # w /\ Staged(v)
      BY <1>3 DEF StagedAgrees
    <2>2. File(v)' = File(v)
      BY <2>1 DEF File
    <2> QED  BY <1>2, <2>1, <2>2 DEF Staged
  <1> QED  BY <1>1, <1>3 DEF StagedAgrees

(* A commit installs a copy in which the two tables agree. *)
LEMMA CommitKeepsTables ==
  ASSUME NEW w \in Workers, TypeOK, OneWriter, StagedAgrees,
         pc[w] \in {"commit_delete", "commit_upsert"}, Commit(w),
         NEW label \in PCs \ InTransaction, pc' = [pc EXCEPT ![w] = label]
  PROVE  StagedAgrees' /\ TablesAgree' /\ Belong(kbDocs)'
  <1>1. pc[w] \in InTransaction /\ lock = w
    BY DEF InTransaction, OneWriter
  <1>2. \A v \in Workers : pc'[v] \notin InTransaction
    BY <1>1, OneTransaction DEF TypeOK
  <1>3. TablesAgree' /\ Belong(kbDocs)'
    BY <1>1 DEF StagedAgrees, Staged, TablesAgree, Belong, Commit
  <1> QED  BY <1>2, <1>3 DEF StagedAgrees

(***************************************************************************)
(* One step of one process.  Inside a transaction it changes only the      *)
(* private copy, which nobody else is in a position to touch.              *)
(***************************************************************************)
LEMMA IndexStep ==
  ASSUME IndexInv, [Next]_vars
  PROVE  IndexInv'
  <1> DEFINE Goal == BatchIsEmbedded' /\ StagedAgrees' /\ TablesAgree' /\ Belong(kbDocs)'
  <1> SUFFICES Goal
    BY TypeStep DEF IndexInv
  <1>1. TypeOK /\ OneWriter /\ BatchIsEmbedded /\ StagedAgrees /\ TablesAgree /\ Belong(kbDocs)
        /\ TypeOK' /\ OneWriter'
    BY TypeStep DEF IndexInv
  <1>2. ASSUME NEW f \in Files, Edit(f) PROVE Goal
    BY <1>1, <1>2 DEF Edit, index, txn, plan, upsert, BatchIsEmbedded, StagedAgrees,
       Staged, File, TablesAgree, Belong
  <1>3. ASSUME NEW w \in Workers, Boot(w) PROVE Goal
    <2>1. BatchIsEmbedded'
      BY <1>1, <1>3 DEF Boot, Goto, plan, upsert, BatchIsEmbedded, TypeOK
    <2> QED  BY <1>1, <1>3, <2>1, LabelsAreTyped, OutsideTransaction
             DEF Boot, Goto, index, txn, plan, upsert, TypeOK
  <1>4. ASSUME NEW w \in Workers, BuildAppContext(w) PROVE Goal
    <2>1. PICK label \in {"list_documents", "serving", "down"} : pc' = [pc EXCEPT ![w] = label]
      BY <1>4 DEF BuildAppContext, Goto
    <2>2. BatchIsEmbedded'
      BY <1>1, <1>4, <2>1 DEF BuildAppContext, upsert, BatchIsEmbedded, TypeOK
    <2> QED  BY ZenonT(40), <1>1, <1>4, <2>1, <2>2, LabelsAreTyped, OutsideTransaction
             DEF BuildAppContext, index, txn, upsert, TypeOK
  <1>5. ASSUME NEW w \in Workers, ListDocuments(w) PROVE Goal
    <2>1. BatchIsEmbedded'
      BY <1>1, <1>5 DEF ListDocuments, Goto, upsert, BatchIsEmbedded, TypeOK
    <2> QED  BY <1>1, <1>5, <2>1, LabelsAreTyped, OutsideTransaction
             DEF ListDocuments, Goto, index, txn, upsert, TypeOK
  <1>6. ASSUME NEW w \in Workers, GetCachedMetadata(w) PROVE Goal
    <2>1. PICK label \in {"delete_kb_documents", "create_embeddings", "serving"} :
             pc' = [pc EXCEPT ![w] = label]
      BY <1>6 DEF GetCachedMetadata, NextStep, Serve, Goto
    <2>2. BatchIsEmbedded'
      BY <1>1, <1>6, <2>1 DEF GetCachedMetadata, upsert, BatchIsEmbedded, TypeOK
    <2>3. UNCHANGED <<kbDocs, kbFts, txnDocs, txnFts>> /\ pc'[w] \notin InTransaction
      BY <1>1, <1>6, <2>1, LabelsAreTyped DEF GetCachedMetadata, index, txn, upsert, TypeOK
    <2>4. \A v \in Workers \ {w} :
             /\ pc'[v] = pc[v] /\ documents'[v] = documents[v]
             /\ orphans'[v] = orphans[v] /\ batch'[v] = batch[v]
      <3>1. UNCHANGED <<documents, batch>> /\ \E s : orphans' = [orphans EXCEPT ![w] = s]
        BY <1>6, Zenon DEF GetCachedMetadata, upsert
      <3> QED  BY <1>1, <2>1, <3>1 DEF TypeOK
    <2> QED  BY <1>1, <2>2, <2>3, <2>4, OutsideTransaction
  <1>7. ASSUME NEW w \in Workers, DeleteKbDocuments(w) PROVE Goal
    <2>1. lock = NoWorker /\ \A v \in Workers : pc[v] \notin InTransaction
      BY <1>1, <1>7, OneTransaction DEF DeleteKbDocuments, Begin
    <2>2. /\ pc' = [pc EXCEPT ![w] = "delete_kb_fts"]
          /\ txnDocs' = [f \in Files |-> IF f \in orphans[w] THEN NoRow ELSE kbDocs[f]]
          /\ txnFts' = kbFts
          /\ UNCHANGED <<kbDocs, kbFts, documents, orphans, batch, vectors>>
      BY <1>7 DEF DeleteKbDocuments, Goto, index, plan, upsert
    <2>3. \A f \in Files :
             /\ txnDocs'[f] = IF f \in orphans'[w] THEN NoRow ELSE kbDocs[f]
             /\ f \notin orphans'[w] => txnFts'[f] = txnDocs'[f].content
      BY <1>1, <2>2, RowsAreTyped DEF TablesAgree
    <2>4. Belong(txnDocs)'
      BY <1>1, <2>3 DEF Belong
    <2>5. pc'[w] = "delete_kb_fts" /\ \A v \in Workers \ {w} : pc'[v] \notin InTransaction
      BY <1>1, <2>1, <2>2 DEF TypeOK
    <2>6. Staged(w)'
      BY <2>3, <2>5, <2>4 DEF Staged
    <2>7. StagedAgrees'
      BY <2>5, <2>6 DEF StagedAgrees
    <2> QED  BY <1>1, <2>2, <2>7 DEF BatchIsEmbedded, TablesAgree, Belong, TypeOK
  <1>8. ASSUME NEW w \in Workers, DeleteKbFts(w) PROVE Goal
    <2>1. pc[w] \in InTransaction /\ lock = w /\ \A v \in Workers \ {w} : pc[v] \notin InTransaction
      BY <1>1, <1>8, OneTransaction DEF DeleteKbFts, OneWriter, InTransaction
    <2>2. /\ pc[w] = "delete_kb_fts" /\ pc' = [pc EXCEPT ![w] = "commit_delete"]
          /\ txnFts' = [f \in Files |-> IF f \in orphans[w] THEN 0 ELSE txnFts[f]]
          /\ UNCHANGED <<txnDocs, kbDocs, kbFts, documents, orphans, batch, vectors>>
      BY <1>8 DEF DeleteKbFts, Goto, index, plan, upsert
    <2>3. Staged(w)'
      BY <1>1, <2>1, <2>2, RowsAreTyped DEF StagedAgrees, Staged, Belong, TypeOK
    <2>4. StagedAgrees'
      BY <1>1, <2>1, <2>2, <2>3 DEF StagedAgrees, TypeOK
    <2> QED  BY <1>1, <2>2, <2>4 DEF BatchIsEmbedded, TablesAgree, Belong, TypeOK
  <1>9. ASSUME NEW w \in Workers, CommitDelete(w) PROVE Goal
    <2>1. PICK label \in {"create_embeddings", "serving"} :
             pc' = [pc EXCEPT ![w] = label]
      BY <1>9 DEF CommitDelete, NextStep, Serve, Goto
    <2>2. BatchIsEmbedded'
      BY <1>1, <1>9, <2>1 DEF CommitDelete, plan, upsert, BatchIsEmbedded, TypeOK
    <2> QED  BY <1>1, <1>9, <2>1, <2>2, LabelsAreTyped, CommitKeepsTables DEF CommitDelete
  <1>10. ASSUME NEW w \in Workers, CreateEmbeddings(w) PROVE Goal
    <2> DEFINE b == NextBatch(w)
    <2>1. TakeVectors(w, b) \/ SkipBatch(w, b)
      BY <1>10 DEF CreateEmbeddings
    <2>2. b \in SUBSET Files
      BY <1>1, NextBatchIsSome DEF TypeOK
    <2>3. UNCHANGED <<kbDocs, kbFts, txnDocs, txnFts, documents, orphans>>
      BY <1>10 DEF CreateEmbeddings, index, txn
    <2> HIDE DEF b
    <2>4. CASE SkipBatch(w, b)
      <3>1. PICK label \in {"create_embeddings", "serving"} : pc' = [pc EXCEPT ![w] = label]
        BY <2>4 DEF SkipBatch, NextStep, Serve, Goto
      <3>2. BatchIsEmbedded'
        BY <1>1, <2>3, <2>4, <3>1 DEF SkipBatch, BatchIsEmbedded, TypeOK
      <3> QED  BY ZenonT(40), <1>1, <2>3, <2>4, <3>1, <3>2, LabelsAreTyped, OutsideTransaction
               DEF SkipBatch, TypeOK
    <2>5. CASE TakeVectors(w, b)
      <3>1. PICK data \in Answers(w, b) :
               /\ vectors' = [vectors EXCEPT ![w] = Vectors(b, data)]
               /\ batch' = [batch EXCEPT ![w] = Zipped(b, data)]
               /\ NextStep(w, Zipped(b, data), toEmbed'[w])
        BY <2>5 DEF TakeVectors
      <3>2. PICK label \in {"replace_kb_documents", "create_embeddings", "serving"} :
               /\ pc' = [pc EXCEPT ![w] = label]
               /\ label = "replace_kb_documents" => Zipped(b, data) # {}
        BY <1>1, <3>1, NextStepLands
      <3>3. /\ batch'[w] = Zipped(b, data) /\ vectors'[w] = Vectors(b, data) /\ pc'[w] = label
            /\ \A v \in Workers \ {w} :
                  batch'[v] = batch[v] /\ vectors'[v] = vectors[v] /\ pc'[v] = pc[v]
        BY <1>1, <3>1, <3>2 DEF TypeOK
      <3>4. /\ \A f \in Zipped(b, data) : Vectors(b, data)[f] \in Embeddings
            /\ "order" \notin Faults =>
                  \A f \in Zipped(b, data) : Vectors(b, data)[f] = Embedding(f, documents[w][f])
        BY <1>1, <2>2, AnswerIsPaired
      <3>5. BatchIsEmbedded'
        BY <1>1, <2>3, <3>2, <3>3, <3>4 DEF BatchIsEmbedded
      <3>6. pc'[w] \notin InTransaction
        BY <3>3, LabelsAreTyped
      <3> QED  BY ZenonT(40), <1>1, <2>3, <3>3, <3>5, <3>6, OutsideTransaction
    <2> QED  BY <2>1, <2>4, <2>5
  <1>11. ASSUME NEW w \in Workers, ReplaceKbDocuments(w) PROVE Goal
    <2>1. lock = NoWorker /\ \A v \in Workers : pc[v] \notin InTransaction
      BY <1>1, <1>11, OneTransaction DEF ReplaceKbDocuments, Begin
    <2> DEFINE f == File(w)
    <2>2. txnDocs' = [kbDocs EXCEPT ![f] = Row(documents[w][f], vectors[w][f], model[w])]
      BY <1>11 DEF ReplaceKbDocuments
    <2>3. /\ pc[w] = "replace_kb_documents" /\ pc' = [pc EXCEPT ![w] = "refresh_kb_fts"]
          /\ txnFts' = kbFts
          /\ UNCHANGED <<kbDocs, kbFts, documents, orphans, batch, vectors>>
      BY <1>11 DEF ReplaceKbDocuments, Goto, index, plan, upsert
    <2>4. f \in batch[w] /\ f \in Files /\ f = File(w)'
      <3>1. batch[w] \in SUBSET Files /\ batch[w] # {}
        BY <1>1, <2>3 DEF BatchIsEmbedded, TypeOK
      <3>2. First(batch[w]) \in batch[w]
        BY <3>1, FirstIsIn
      <3>3. f = First(batch[w]) /\ File(w)' = First(batch'[w])
        BY DEF File
      <3> QED  BY <2>3, <3>1, <3>2, <3>3
    <2> HIDE DEF f
    <2>5. /\ vectors[w][f] \in Embeddings
          /\ "order" \notin Faults => vectors[w][f] = Embedding(f, documents[w][f])
      BY <1>1, <2>4 DEF BatchIsEmbedded
    <2>6. /\ txnDocs'[f].content = documents[w][f] /\ txnDocs'[f].vector = vectors[w][f]
          /\ \A g \in Files \ {f} : txnDocs'[g] = kbDocs[g]
      BY <1>1, <2>2, <2>4, <2>5, RowsAreTyped DEF TypeOK
    <2>7. Belong(txnDocs)'
      BY <1>1, <2>5, <2>6 DEF Belong
    <2>8. Staged(w)'
      BY <1>1, <2>3, <2>4, <2>6, <2>7 DEF Staged, TablesAgree, TypeOK
    <2>9. StagedAgrees'
      BY <1>1, <2>1, <2>3, <2>8 DEF StagedAgrees, TypeOK
    <2> QED  BY <1>1, <2>3, <2>9 DEF BatchIsEmbedded, TablesAgree, Belong, TypeOK
  <1>12. ASSUME NEW w \in Workers, RefreshKbFts(w) PROVE Goal
    <2>1. pc[w] \in InTransaction /\ lock = w /\ \A v \in Workers \ {w} : pc[v] \notin InTransaction
      BY <1>1, <1>12, OneTransaction DEF RefreshKbFts, OneWriter, InTransaction
    <2>2. /\ pc[w] = "refresh_kb_fts" /\ pc' = [pc EXCEPT ![w] = "commit_upsert"]
          /\ txnFts' = [txnFts EXCEPT ![File(w)] = documents[w][File(w)]]
          /\ UNCHANGED <<txnDocs, kbDocs, kbFts, documents, orphans, batch, vectors>>
      BY <1>12 DEF RefreshKbFts, Goto, index, plan, upsert
    <2>3. Staged(w)'
      BY <1>1, <2>1, <2>2 DEF StagedAgrees, Staged, File, Belong, TypeOK
    <2>4. StagedAgrees'
      BY <1>1, <2>1, <2>2, <2>3 DEF StagedAgrees, TypeOK
    <2> QED  BY <1>1, <2>2, <2>4 DEF BatchIsEmbedded, TablesAgree, Belong, TypeOK
  <1>13. ASSUME NEW w \in Workers, CommitUpsert(w) PROVE Goal
    <2>1. PICK label \in {"replace_kb_documents", "create_embeddings", "serving"} :
             /\ pc' = [pc EXCEPT ![w] = label]
             /\ label = "replace_kb_documents" => batch'[w] # {}
      BY <1>1, <1>13, NextStepLands DEF CommitUpsert
    <2>2. /\ batch'[w] \subseteq batch[w] /\ \A v \in Workers \ {w} : batch'[v] = batch[v]
          /\ UNCHANGED <<documents, vectors>>
      BY <1>1, <1>13 DEF CommitUpsert, plan, TypeOK
    <2>3. BatchIsEmbedded'
      BY <1>1, <2>1, <2>2 DEF BatchIsEmbedded, TypeOK
    <2> QED  BY <1>1, <1>13, <2>1, <2>3, LabelsAreTyped, CommitKeepsTables DEF CommitUpsert
  <1>14. ASSUME NEW w \in Workers, SyncFails(w) PROVE Goal
    <2>1. pc[w] \notin {"down"} /\ pc' = [pc EXCEPT ![w] = "serving"]
      BY <1>14 DEF SyncFails, SyncRaises, Goto
    <2>2. BatchIsEmbedded'
      BY <1>1, <1>14, <2>1 DEF SyncFails, plan, upsert, BatchIsEmbedded, TypeOK
    <2> QED  BY <1>1, <1>14, <2>1, <2>2, LabelsAreTyped, OutsideTransaction
             DEF SyncFails, index, plan, upsert, TypeOK
  <1>15. ASSUME NEW w \in Workers, Stop(w) PROVE Goal
    <2>1. BatchIsEmbedded'
      BY <1>1, <1>15 DEF Stop, Goto, BatchIsEmbedded, TypeOK
    <2> QED  BY <1>1, <1>15, <2>1, LabelsAreTyped, OutsideTransaction
             DEF Stop, Goto, index, TypeOK
  <1>16. CASE UNCHANGED vars
    BY <1>1, <1>16 DEF vars, index, txn, plan, upsert, BatchIsEmbedded, StagedAgrees, Staged,
       File, TablesAgree, Belong
  <1> QED
    BY <1>2, <1>3, <1>5, <1>6, <1>7, <1>8, <1>9, <1>10, <1>11, <1>12, <1>13, <1>14, <1>15, <1>16,
       <1>4 DEF Next, Sync, IndexInv

LEMMA IndexAlways == Spec => []IndexInv
  <1>1. TypeOK /\ Init => IndexInv
    BY LabelsAreTyped, RowsAreTyped
       DEF Init, IndexInv, TypeOK, OneWriter, BatchIsEmbedded, StagedAgrees, TablesAgree,
           Belong, Nothing
  <1>2. IndexInv /\ [Next]_vars => IndexInv'
    BY IndexStep
  <1> QED  BY <1>1, <1>2, TypeCorrect, PTL DEF Spec

(***************************************************************************)
(* However many processes sync at once, and wherever each of them fails or *)
(* dies, kb_documents and kb_fts hold the same files with the same         *)
(* content.                                                                *)
(***************************************************************************)
THEOREM IndexIsConsistent == Spec => []TablesAgree
  <1>1. IndexInv => TablesAgree
    BY DEF IndexInv
  <1> QED  BY <1>1, IndexAlways, PTL

(***************************************************************************)
(* If the provider keeps the order of its inputs, whatever part of a batch *)
(* it answers, a stored vector was computed from the file and the content  *)
(* it is stored with: the position it comes at is the place of that file   *)
(* in the batch, for any size of batch.  If the provider does not keep the *)
(* order, TLC finds two files with one another's vectors (run              *)
(* vectors_change_places).                                                 *)
(***************************************************************************)
THEOREM VectorsAreOfTheirContent ==
  ASSUME "order" \notin Faults
  PROVE  Spec => []VectorsBelong
  <1>1. IndexInv => VectorsBelong
    BY DEF IndexInv, Belong, VectorsBelong
  <1> QED  BY <1>1, IndexAlways, PTL

-----------------------------------------------------------------------------
(* A sync that nobody overlaps. *)

Deleting  == {"delete_kb_documents", "delete_kb_fts", "commit_delete"}
Upserting == {"replace_kb_documents", "refresh_kb_fts", "commit_upsert"}
Planned   == Deleting \cup {"create_embeddings"} \cup Upserting

IsInLine(w, f) ==
    /\ kbDocs[f].content = documents[w][f]
    /\ documents[w][f] # 0 => kbDocs[f].model = model[w]

(* The files whose row the sync has yet to write, delete or give up. *)
Left(w) == toEmbed[w] \cup batch[w] \cup skipped[w] \cup IF pc[w] \in Deleting THEN orphans[w] ELSE {}

(***************************************************************************)
(* What the plan of a sync owes, and what its open transaction holds.      *)
(***************************************************************************)
PlanHolds(w) ==
    /\ \A f \in Files \ Left(w) : IsInLine(w, f)
    /\ \A f \in toEmbed[w] : documents[w][f] # 0 /\ ~IsCached(w, f) /\ f \notin batch[w]
    /\ pc[w] \in Deleting => \A f \in orphans[w] : documents[w][f] = 0
    /\ pc[w] \in {"delete_kb_fts", "commit_delete"} =>
          \A f \in Files : txnDocs[f] = IF f \in orphans[w] THEN NoRow ELSE kbDocs[f]
    /\ pc[w] \in {"refresh_kb_fts", "commit_upsert"} =>
          \A f \in Files : txnDocs[f] = IF f = File(w)
                                          THEN Row(documents[w][f], vectors[w][f], model[w])
                                          ELSE kbDocs[f]

Alone(w) ==
    /\ alone[w] => \A u \in Workers \ {w} : pc[u] \in {"down", "serving"}
    /\ tools[w] => pc[w] = "serving" /\ toEmbed[w] = {} /\ batch[w] = {}
    /\ pc[w] \in Upserting => batch[w] # {}
    /\ pc[w] \notin Upserting \cup {"serving"} => batch[w] = {}
    /\ alone[w] /\ (pc[w] \in Planned \/ tools[w]) => PlanHolds(w)

(* A worker nothing of whose own state, nor the index, has changed. *)
LEMMA AloneStill ==
  ASSUME NEW w \in Workers, Alone(w),
         pc'[w] = pc[w], model'[w] = model[w], documents'[w] = documents[w],
         toEmbed'[w] = toEmbed[w], orphans'[w] = orphans[w], batch'[w] = batch[w],
         vectors'[w] = vectors[w], skipped'[w] = skipped[w],
         tools'[w] = tools[w],
         alone'[w] => /\ alone[w] /\ UNCHANGED <<kbDocs, txnDocs>>
                      /\ \A u \in Workers \ {w} : pc'[u] \in {"down", "serving"}
  PROVE  Alone(w)'
  <1>1. ASSUME alone'[w], PlanHolds(w) PROVE PlanHolds(w)'
    <2>1. UNCHANGED <<kbDocs, txnDocs>>
      BY <1>1
    <2>2. Left(w)' = Left(w)
      BY DEF Left
    <2>3. \A f : (IsInLine(w, f)' <=> IsInLine(w, f)) /\ (IsCached(w, f)' <=> IsCached(w, f))
      BY <2>1 DEF IsInLine, IsCached
    <2>4. File(w)' = File(w)
      BY DEF File
    <2> QED  BY <1>1, <2>1, <2>2, <2>3, <2>4 DEF PlanHolds
  <1> QED  BY <1>1 DEF Alone

(* A step of v leaves another worker alone, or it no longer is. *)
LEMMA AloneOthers ==
  ASSUME TypeOK, \A w \in Workers : Alone(w), NEW v \in Workers,
         NEW label, pc' = [pc EXCEPT ![v] = label],
         \A w \in Workers \ {v} :
            /\ model'[w] = model[w] /\ documents'[w] = documents[w]
            /\ toEmbed'[w] = toEmbed[w] /\ orphans'[w] = orphans[w]
            /\ batch'[w] = batch[w] /\ vectors'[w] = vectors[w]
            /\ skipped'[w] = skipped[w] /\ tools'[w] = tools[w],
         UNCHANGED alone,
         \/ pc[v] \notin {"down", "serving"}
         \/ UNCHANGED <<kbDocs, txnDocs>> /\ label \in {"down", "serving"}
  PROVE  pc'[v] = label /\ \A w \in Workers \ {v} : Alone(w)'
  <1>1. pc'[v] = label /\ \A w \in Workers \ {v} : pc'[w] = pc[w]
    BY DEF TypeOK
  <1>2. ASSUME NEW w \in Workers \ {v} PROVE Alone(w)'
    <2>1. alone[w] => pc[v] \in {"down", "serving"} /\ \A u \in Workers \ {w} : pc[u] \in {"down", "serving"}
      BY DEF Alone
    <2>2. alone'[w] => /\ alone[w] /\ UNCHANGED <<kbDocs, txnDocs>>
                       /\ \A u \in Workers \ {w} : pc'[u] \in {"down", "serving"}
      BY <1>1, <2>1
    <2> QED  BY <1>1, <2>2, AloneStill
  <1> QED  BY <1>1, <1>2

(* What a sync that has done something goes on with, and that it owes no less. *)
LEMMA AloneNext ==
  ASSUME TypeOK, \A u \in Workers : Alone(u), NEW w \in Workers,
         pc[w] \notin {"down", "serving"}, NextStep(w, batch'[w], toEmbed'[w]), UNCHANGED alone,
         \A u \in Workers \ {w} :
            /\ model'[u] = model[u] /\ documents'[u] = documents[u]
            /\ toEmbed'[u] = toEmbed[u] /\ orphans'[u] = orphans[u]
            /\ batch'[u] = batch[u] /\ vectors'[u] = vectors[u]
            /\ skipped'[u] = skipped[u],
         alone[w] =>
            /\ \A f \in Files \ (toEmbed'[w] \cup batch'[w] \cup skipped'[w]) : IsInLine(w, f)'
            /\ \A f \in toEmbed'[w] : documents'[w][f] # 0 /\ ~IsCached(w, f)' /\ f \notin batch'[w]
  PROVE  \A u \in Workers : Alone(u)'
  <1>1. PICK label \in {"replace_kb_documents", "create_embeddings", "serving"} :
           /\ pc' = [pc EXCEPT ![w] = label]
           /\ label = "serving" => batch'[w] = {} /\ toEmbed'[w] = {}
           /\ label = "create_embeddings" => batch'[w] = {}
           /\ label = "replace_kb_documents" => batch'[w] # {}
           /\ label # "serving" => UNCHANGED tools
           /\ UNCHANGED tools \/ tools' = [tools EXCEPT ![w] = TRUE]
    BY DEF NextStep, Serve, Goto
  <1>2. \A u \in Workers \ {w} : tools'[u] = tools[u]
    BY <1>1 DEF TypeOK
  <1>3. pc'[w] = label /\ \A u \in Workers \ {w} : Alone(u)'
    BY ZenonT(40), <1>1, <1>2, AloneOthers
  <1>4. tools'[w] => label = "serving"
    <2>1. ~tools[w]
      BY DEF Alone
    <2> QED  BY <1>1, <2>1
  <1>5. label \notin Deleting /\ label \notin {"delete_kb_fts", "commit_delete", "refresh_kb_fts", "commit_upsert"}
        /\ "create_embeddings" \notin Upserting /\ "serving" \notin Upserting
    BY DEF Deleting, Upserting
  <1>6. ASSUME alone'[w] PROVE PlanHolds(w)'
    <2>1. Left(w)' = toEmbed'[w] \cup batch'[w] \cup skipped'[w]
      BY <1>3, <1>5 DEF Left
    <2> QED  BY <1>3, <1>5, <1>6, <2>1 DEF PlanHolds
  <1>7. alone'[w] => \A u \in Workers \ {w} : pc'[u] \in {"down", "serving"}
    BY <1>1 DEF Alone, TypeOK
  <1>8. label = "replace_kb_documents" => label \in Upserting
    BY DEF Upserting
  <1>9. Alone(w)'
    BY <1>1, <1>3, <1>4, <1>5, <1>6, <1>7, <1>8 DEF Alone
  <1> QED  BY <1>3, <1>9

(* A step of the plan inside a transaction, or into one. *)
LEMMA AloneInTransaction ==
  ASSUME TypeOK, \A u \in Workers : Alone(u), NEW w \in Workers,
         UNCHANGED <<kbDocs, model, documents, toEmbed, orphans, batch, vectors, skipped, tools, alone>>,
         NEW label, pc' = [pc EXCEPT ![w] = label],
         \/ pc[w] \in Deleting /\ label \in Deleting
         \/ pc[w] \in Upserting /\ label \in Upserting,
         alone[w] /\ PlanHolds(w) =>
            /\ label \in {"delete_kb_fts", "commit_delete"} =>
                  \A f \in Files : txnDocs'[f] = IF f \in orphans[w] THEN NoRow ELSE kbDocs[f]
            /\ label \in {"refresh_kb_fts", "commit_upsert"} =>
                  \A f \in Files : txnDocs'[f] = IF f = File(w)
                                                   THEN Row(documents[w][f], vectors[w][f], model[w])
                                                   ELSE kbDocs[f]
  PROVE  \A u \in Workers : Alone(u)'
  <1>1. /\ pc[w] \notin {"down", "serving"} /\ label \notin {"down", "serving"}
        /\ pc[w] \in Planned /\ label \in Planned
        /\ pc[w] \in Deleting <=> label \in Deleting
        /\ pc[w] \in Upserting <=> label \in Upserting
    BY DEF Planned, Deleting, Upserting
  <1>2. pc'[w] = label /\ \A u \in Workers \ {w} : Alone(u)'
    BY <1>1, AloneOthers
  <1>3. ASSUME alone[w] PROVE PlanHolds(w)'
    <2>1. PlanHolds(w)
      BY <1>1, <1>3 DEF Alone
    <2>2. Left(w)' = Left(w)
      BY <1>1, <1>2 DEF Left
    <2>3. \A f : (IsInLine(w, f)' <=> IsInLine(w, f)) /\ (IsCached(w, f)' <=> IsCached(w, f))
      BY DEF IsInLine, IsCached
    <2>4. File(w)' = File(w)
      BY DEF File
    <2> QED  BY <1>1, <1>2, <1>3, <2>1, <2>2, <2>3, <2>4 DEF PlanHolds
  <1>4. alone[w] => \A u \in Workers \ {w} : pc'[u] \in {"down", "serving"}
    BY DEF Alone, TypeOK
  <1>5. Alone(w)'
    BY <1>1, <1>2, <1>3, <1>4 DEF Alone
  <1> QED  BY <1>2, <1>5

LEMMA AloneStart ==
  ASSUME TypeOK, \A u \in Workers : Alone(u), NEW w \in Workers, Boot(w)
  PROVE  \A u \in Workers : Alone(u)'
  <1>1. /\ pc[w] = "down" /\ ~tools[w] /\ batch[w] = {}
        /\ UNCHANGED <<kbDocs, txnDocs, model, documents, toEmbed, orphans, batch, vectors, skipped, tools>>
    BY DEF Boot, index, txn, plan, upsert, Alone, Upserting
  <1>2. /\ pc'[w] = "initialize_database"
        /\ \A u \in Workers \ {w} : pc'[u] = pc[u] /\ ~alone'[u]
        /\ alone'[w] => \A u \in Workers \ {w} : pc[u] \in {"down", "serving"}
    BY DEF Boot, Goto, TypeOK
  <1>3. "initialize_database" \notin Planned \cup Upserting
    BY DEF Planned, Deleting, Upserting
  <1>4. Alone(w)'
    BY <1>1, <1>2, <1>3 DEF Alone
  <1>5. \A u \in Workers \ {w} : Alone(u)'
    BY <1>1, <1>2, AloneStill
  <1> QED  BY <1>4, <1>5

LEMMA AloneBuilds ==
  ASSUME TypeOK, \A u \in Workers : Alone(u), NEW w \in Workers, BuildAppContext(w)
  PROVE  \A u \in Workers : Alone(u)'
  <1>1. /\ pc[w] = "initialize_database" /\ ~tools[w] /\ batch[w] = {}
        /\ UNCHANGED <<kbDocs, txnDocs, documents, toEmbed, orphans, batch, vectors, skipped, tools, alone>>
        /\ \A u \in Workers \ {w} : model'[u] = model[u]
    BY DEF BuildAppContext, index, txn, upsert, Alone, Upserting, TypeOK
  <1>2. PICK label \in {"list_documents", "serving", "down"} : pc' = [pc EXCEPT ![w] = label]
    BY DEF BuildAppContext, Goto
  <1>3. pc'[w] = label /\ \A u \in Workers \ {w} : Alone(u)'
    BY <1>1, <1>2, AloneOthers
  <1>4. label \notin Planned \cup Upserting
    BY DEF Planned, Deleting, Upserting
  <1>5. alone[w] => \A u \in Workers \ {w} : pc'[u] \in {"down", "serving"}
    BY <1>2 DEF Alone, TypeOK
  <1>6. Alone(w)'
    BY <1>1, <1>3, <1>4, <1>5 DEF Alone
  <1> QED  BY <1>3, <1>6

LEMMA AloneMetadata ==
  ASSUME TypeOK, \A u \in Workers : Alone(u), NEW w \in Workers, GetCachedMetadata(w)
  PROVE  \A u \in Workers : Alone(u)'
  <1>1. /\ pc[w] = "get_cached_metadata" /\ ~tools[w] /\ batch[w] = {}
        /\ UNCHANGED <<kbDocs, txnDocs, model, documents, batch, vectors, skipped, alone>>
    BY DEF GetCachedMetadata, index, txn, upsert, Alone, Upserting
  <1>2. /\ toEmbed'[w] = {f \in Files : documents[w][f] # 0 /\ ~IsCached(w, f)}
        /\ orphans'[w] = {f \in Files : kbDocs[f] # NoRow /\ documents[w][f] = 0}
    BY DEF GetCachedMetadata, TypeOK
  <1>3. \A u \in Workers \ {w} : toEmbed'[u] = toEmbed[u] /\ orphans'[u] = orphans[u]
    BY DEF GetCachedMetadata, TypeOK
  <1>4. \A f : (IsInLine(w, f)' <=> IsInLine(w, f)) /\ (IsCached(w, f)' <=> IsCached(w, f))
    BY <1>1 DEF IsInLine, IsCached
  <1>5. \A f \in Files \ (toEmbed'[w] \cup orphans'[w]) : IsInLine(w, f)'
    BY <1>2, <1>4, RowsAreTyped DEF IsInLine, IsCached
  <1>6. \A f \in toEmbed'[w] : documents'[w][f] # 0 /\ ~IsCached(w, f)' /\ f \notin batch'[w]
    BY <1>1, <1>2, <1>4
  <1>7. CASE orphans'[w] = {}
    <2>1. NextStep(w, batch'[w], toEmbed'[w])
      BY <1>1, <1>7 DEF GetCachedMetadata
    <2>2. \A f \in Files \ (toEmbed'[w] \cup batch'[w] \cup skipped'[w]) : IsInLine(w, f)'
      BY <1>5, <1>7
    <2> HIDE DEF IsInLine, IsCached
    <2> QED  BY <1>1, <1>3, <1>6, <2>1, <2>2, AloneNext
  <1>8. CASE orphans'[w] # {}
    <2>1. pc' = [pc EXCEPT ![w] = "delete_kb_documents"] /\ UNCHANGED tools
      BY <1>8 DEF GetCachedMetadata, Goto
    <2>2. pc'[w] = "delete_kb_documents" /\ \A u \in Workers \ {w} : Alone(u)'
      BY <1>1, <1>3, <2>1, AloneOthers
    <2>3. "delete_kb_documents" \in Deleting /\ "delete_kb_documents" \notin Upserting
      BY DEF Deleting, Upserting
    <2>4. Left(w)' = toEmbed'[w] \cup batch'[w] \cup skipped'[w] \cup orphans'[w]
      BY <2>2, <2>3 DEF Left
    <2>5. PlanHolds(w)'
      BY <1>1, <1>2, <1>5, <1>6, <2>2, <2>4 DEF PlanHolds
    <2>6. alone[w] => \A u \in Workers \ {w} : pc'[u] \in {"down", "serving"}
      BY <2>1 DEF Alone, TypeOK
    <2>7. Alone(w)'
      BY <1>1, <2>1, <2>2, <2>3, <2>5, <2>6 DEF Alone
    <2> QED  BY <2>2, <2>7
  <1> QED  BY <1>7, <1>8

LEMMA AloneCommit ==
  ASSUME TypeOK, \A u \in Workers : Alone(u), NEW w \in Workers, CommitDelete(w) \/ CommitUpsert(w)
  PROVE  \A u \in Workers : Alone(u)'
  <1>1. /\ pc[w] \in Planned /\ pc[w] \notin {"down", "serving"}
        /\ kbDocs' = txnDocs
        /\ UNCHANGED <<txnDocs, model, documents, toEmbed, orphans, vectors, skipped, alone>>
    BY DEF CommitDelete, CommitUpsert, Commit, plan, upsert, Planned, Deleting, Upserting
  <1>2. alone[w] => PlanHolds(w)
    BY <1>1 DEF Alone
  <1>3. CASE CommitDelete(w)
    <2>1. pc[w] = "commit_delete" /\ batch' = batch /\ NextStep(w, {}, toEmbed[w])
      BY <1>3 DEF CommitDelete, upsert
    <2>2. batch[w] = {} /\ pc[w] \in Deleting
      BY <2>1 DEF Alone, Upserting, Deleting
    <2>3. NextStep(w, batch'[w], toEmbed'[w])
      BY <1>1, <2>1, <2>2
    <2>4. ASSUME alone[w]
          PROVE  /\ \A f \in Files \ (toEmbed'[w] \cup batch'[w] \cup skipped'[w]) : IsInLine(w, f)'
                 /\ \A f \in toEmbed'[w] : documents'[w][f] # 0 /\ ~IsCached(w, f)' /\ f \notin batch'[w]
      <3>1. PlanHolds(w)
        BY <1>2, <2>4
      <3>2. \A f \in Files : kbDocs'[f] = IF f \in orphans[w] THEN NoRow ELSE kbDocs[f]
        BY <1>1, <2>1, <3>1 DEF PlanHolds
      <3>3. ASSUME NEW f \in Files, f \notin toEmbed[w] \cup batch[w] \cup skipped[w]
            PROVE  IsInLine(w, f)'
        <4>1. CASE f \in orphans[w]
          BY <1>1, <2>2, <3>1, <3>2, <4>1, RowsAreTyped DEF PlanHolds, IsInLine
        <4>2. CASE f \notin orphans[w]
          <5>1. IsInLine(w, f)
            BY <3>1, <3>3, <4>2 DEF PlanHolds, Left
          <5> QED  BY <1>1, <3>2, <4>2, <5>1 DEF IsInLine
        <4> QED  BY <4>1, <4>2
      <3>4. ASSUME NEW f \in toEmbed[w] PROVE documents[w][f] # 0 /\ ~IsCached(w, f)'
        <4>1. documents[w][f] # 0 /\ ~IsCached(w, f) /\ f \notin orphans[w] /\ f \in Files
          BY <2>2, <3>1 DEF PlanHolds, TypeOK
        <4> QED  BY <1>1, <3>2, <4>1 DEF IsCached
      <3> QED  BY <1>1, <2>1, <2>2, <3>3, <3>4
    <2> QED  BY <1>1, <2>1, <2>3, <2>4, AloneNext
  <1>4. CASE CommitUpsert(w)
    <2>1. /\ pc[w] = "commit_upsert" /\ batch' = [batch EXCEPT ![w] = @ \ {File(w)}]
          /\ NextStep(w, batch'[w], toEmbed[w])
      BY <1>4 DEF CommitUpsert
    <2>2. File(w) \in batch[w]
      <3>1. batch[w] \in SUBSET Files /\ batch[w] # {}
        BY <2>1 DEF Alone, Upserting, TypeOK
      <3> QED  BY <3>1, FirstIsIn DEF File
    <2>3. /\ pc[w] \notin Deleting /\ batch'[w] = batch[w] \ {File(w)}
          /\ \A u \in Workers \ {w} : batch'[u] = batch[u]
      BY <2>1 DEF Deleting, TypeOK
    <2>4. NextStep(w, batch'[w], toEmbed'[w])
      BY <1>1, <2>1
    <2>5. ASSUME alone[w]
          PROVE  /\ \A f \in Files \ (toEmbed'[w] \cup batch'[w] \cup skipped'[w]) : IsInLine(w, f)'
                 /\ \A f \in toEmbed'[w] : documents'[w][f] # 0 /\ ~IsCached(w, f)' /\ f \notin batch'[w]
      <3>1. PlanHolds(w)
        BY <1>2, <2>5
      <3>2. \A f \in Files : kbDocs'[f] = IF f = File(w)
                                            THEN Row(documents[w][f], vectors[w][f], model[w])
                                            ELSE kbDocs[f]
        BY <1>1, <2>1, <3>1 DEF PlanHolds
      <3>3. ASSUME NEW f \in Files, f \notin toEmbed[w] \cup (batch[w] \ {File(w)}) \cup skipped[w]
            PROVE  IsInLine(w, f)'
        <4>1. CASE f = File(w)
          <5>1. kbDocs'[f] = Row(documents[w][f], vectors[w][f], model[w])
            BY <3>2, <4>1
          <5>2. kbDocs'[f].content = documents[w][f] /\ kbDocs'[f].model = model[w]
            BY <5>1 DEF Row
          <5>3. documents' = documents /\ model' = model
            BY <1>1
          <5> QED  BY <5>2, <5>3 DEF IsInLine
        <4>2. CASE f # File(w)
          <5>1. IsInLine(w, f)
            BY <2>3, <3>1, <3>3, <4>2 DEF PlanHolds, Left
          <5> QED  BY <1>1, <3>2, <4>2, <5>1 DEF IsInLine
        <4> QED  BY <4>1, <4>2
      <3>4. ASSUME NEW f \in toEmbed[w] PROVE documents[w][f] # 0 /\ ~IsCached(w, f)' /\ f \notin batch[w]
        <4>1. documents[w][f] # 0 /\ ~IsCached(w, f) /\ f \notin batch[w] /\ f # File(w) /\ f \in Files
          BY <2>2, <3>1 DEF PlanHolds, TypeOK
        <4> QED  BY <1>1, <3>2, <4>1 DEF IsCached
      <3> QED  BY <1>1, <2>3, <3>3, <3>4
    <2> QED  BY <1>1, <2>3, <2>4, <2>5, AloneNext
  <1> QED  BY <1>3, <1>4

LEMMA AloneEmbeds ==
  ASSUME TypeOK, \A u \in Workers : Alone(u), NEW w \in Workers, CreateEmbeddings(w)
  PROVE  /\ \A u \in Workers : Alone(u)'
         /\ batch'[w] \subseteq toEmbed[w]
  <1>1. /\ pc[w] = "create_embeddings" /\ pc[w] \in Planned /\ pc[w] \notin Deleting /\ batch[w] = {}
        /\ UNCHANGED <<kbDocs, txnDocs, model, documents, orphans, alone>>
    BY DEF CreateEmbeddings, index, txn, Planned, Deleting, Upserting, Alone
  <1> DEFINE b == NextBatch(w)
  <1>2. /\ toEmbed' = [toEmbed EXCEPT ![w] = @ \ b]
        /\ TakeVectors(w, b) \/ SkipBatch(w, b)
    BY DEF CreateEmbeddings
  <1>3. b \in SUBSET toEmbed[w] /\ b \in SUBSET Files
    BY NextBatchIsSome DEF TypeOK
  <1> HIDE DEF b
  <1>4. b \subseteq toEmbed[w] /\ toEmbed'[w] = toEmbed[w] \ b
        /\ \A u \in Workers \ {w} : toEmbed'[u] = toEmbed[u]
    BY <1>2, <1>3 DEF TypeOK
  <1>5. /\ NextStep(w, batch'[w], toEmbed'[w])
        /\ batch'[w] \subseteq b
        /\ skipped'[w] = skipped[w] \cup (b \ batch'[w])
        /\ \A u \in Workers \ {w} :
              batch'[u] = batch[u] /\ vectors'[u] = vectors[u] /\ skipped'[u] = skipped[u]
    <2>1. CASE SkipBatch(w, b)
      BY <1>1, <2>1 DEF SkipBatch, TypeOK
    <2>2. CASE TakeVectors(w, b)
      <3>1. PICK data \in Answers(w, b) :
               /\ vectors' = [vectors EXCEPT ![w] = Vectors(b, data)]
               /\ batch' = [batch EXCEPT ![w] = Zipped(b, data)]
               /\ skipped' = [skipped EXCEPT ![w] = @ \cup (b \ Zipped(b, data))]
               /\ NextStep(w, Zipped(b, data), toEmbed'[w])
        BY <2>2 DEF TakeVectors
      <3>2. Zipped(b, data) \subseteq b
        BY DEF Zipped
      <3>3. batch'[w] = Zipped(b, data)
        BY <3>1 DEF TypeOK
      <3> QED  BY <3>1, <3>2, <3>3 DEF TypeOK
    <2> QED  BY <1>2, <2>1, <2>2
  <1>6. ASSUME alone[w]
        PROVE  /\ \A f \in Files \ (toEmbed'[w] \cup batch'[w] \cup skipped'[w]) : IsInLine(w, f)'
               /\ \A f \in toEmbed'[w] : documents'[w][f] # 0 /\ ~IsCached(w, f)' /\ f \notin batch'[w]
    <2>1. PlanHolds(w) /\ Left(w) = toEmbed[w] \cup skipped[w]
      BY <1>1, <1>6 DEF Alone, Left
    <2>2. \A f : (IsInLine(w, f)' <=> IsInLine(w, f)) /\ (IsCached(w, f)' <=> IsCached(w, f))
      BY <1>1 DEF IsInLine, IsCached
    <2>3. \A f \in Files \ (toEmbed'[w] \cup batch'[w] \cup skipped'[w]) : f \notin Left(w)
      BY <1>4, <1>5, <2>1
    <2>4. \A f \in toEmbed'[w] : f \in toEmbed[w] /\ f \notin batch'[w]
      BY <1>4, <1>5
    <2> QED  BY <1>1, <2>1, <2>2, <2>3, <2>4 DEF PlanHolds
  <1> QED  BY <1>1, <1>4, <1>5, <1>6, AloneNext

(* A step outside the syncs and the index. *)
LEMMA AloneStays ==
  ASSUME \A u \in Workers : Alone(u), UNCHANGED <<index, txn, pc, plan, upsert, tools, alone>>
  PROVE  \A u \in Workers : Alone(u)'
  <1>1. UNCHANGED <<kbDocs, txnDocs, pc, model, documents, toEmbed, orphans, batch, vectors,
                    skipped, tools, alone>>
    BY DEF index, txn, plan, upsert
  <1>2. ASSUME NEW u \in Workers PROVE Alone(u)'
    <2>1. alone'[u] => \A v \in Workers \ {u} : pc'[v] \in {"down", "serving"}
      BY <1>1 DEF Alone
    <2> QED  BY <1>1, <2>1, AloneStill
  <1> QED  BY <1>2

(* A sync that waits for the provider gets a batch from its answer only. *)
LEMMA OnlyItsStepsFillABatch ==
  ASSUME TypeOK, [Next]_vars, NEW w \in Workers,
         pc[w] = "create_embeddings", batch[w] = {}, ~CreateEmbeddings(w)
  PROVE  batch'[w] = {}
  <1>1. ASSUME NEW v \in Workers, v # w, CreateEmbeddings(v) PROVE batch'[w] = batch[w]
    <2>1. batch' = batch \/ \E a : batch' = [batch EXCEPT ![v] = a]
      BY <1>1, Zenon DEF CreateEmbeddings, TakeVectors, SkipBatch
    <2> QED  BY <1>1, <2>1 DEF TypeOK
  <1>2. ASSUME NEW v \in Workers, CommitUpsert(v) PROVE batch'[w] = {}
    BY <1>2 DEF CommitUpsert, TypeOK
  <1>3. ASSUME NEW v \in Workers, Stop(v) PROVE batch'[w] = {}
    BY <1>3 DEF Stop, TypeOK
  <1>4. ASSUME NEW v \in Workers,
               \/ Boot(v) \/ BuildAppContext(v) \/ ListDocuments(v) \/ GetCachedMetadata(v)
               \/ DeleteKbDocuments(v) \/ DeleteKbFts(v) \/ CommitDelete(v) \/ ReplaceKbDocuments(v)
               \/ RefreshKbFts(v) \/ SyncFails(v)
        PROVE  batch' = batch
    BY <1>4 DEF Boot, BuildAppContext, ListDocuments, GetCachedMetadata, DeleteKbDocuments, DeleteKbFts,
                CommitDelete, ReplaceKbDocuments, RefreshKbFts, SyncFails, upsert
  <1>5. ASSUME NEW f \in Files, Edit(f) PROVE batch' = batch
    BY <1>5 DEF Edit, upsert
  <1>6. ASSUME UNCHANGED vars PROVE batch' = batch
    BY <1>6 DEF vars, upsert
  <1> QED  BY <1>1, <1>2, <1>3, <1>4, <1>5, <1>6 DEF Next, Sync

LEMMA AloneStep ==
  ASSUME TypeOK, \A u \in Workers : Alone(u), [Next]_vars
  PROVE  \A u \in Workers : Alone(u)'
  <1>1. ASSUME NEW f \in Files, Edit(f) PROVE \A u \in Workers : Alone(u)'
    <2>1. UNCHANGED <<index, txn, pc, plan, upsert, tools, alone>>
      BY <1>1 DEF Edit
    <2> QED  BY <2>1, AloneStays
  <1>2. ASSUME NEW w \in Workers, ListDocuments(w) PROVE \A u \in Workers : Alone(u)'
    <2>1. /\ pc[w] = "list_documents" /\ ~tools[w] /\ batch[w] = {}
          /\ pc' = [pc EXCEPT ![w] = "get_cached_metadata"]
          /\ \A u \in Workers \ {w} : documents'[u] = documents[u]
          /\ UNCHANGED <<kbDocs, txnDocs, model, toEmbed, orphans, batch, vectors, skipped, tools, alone>>
      BY <1>2 DEF ListDocuments, Goto, index, txn, upsert, TypeOK, Alone, Upserting
    <2>2. pc'[w] = "get_cached_metadata" /\ \A u \in Workers \ {w} : Alone(u)'
      BY <2>1, AloneOthers
    <2>3. "get_cached_metadata" \notin Planned \cup Upserting
      BY DEF Planned, Deleting, Upserting
    <2>4. alone[w] => \A u \in Workers \ {w} : pc'[u] \in {"down", "serving"}
      BY <2>1 DEF Alone, TypeOK
    <2>5. Alone(w)'
      BY <2>1, <2>2, <2>3, <2>4 DEF Alone
    <2> QED  BY <2>2, <2>5
  <1>3. ASSUME NEW w \in Workers, DeleteKbDocuments(w) PROVE \A u \in Workers : Alone(u)'
    <2>1. /\ pc[w] \in Deleting /\ "delete_kb_fts" \in Deleting
          /\ pc' = [pc EXCEPT ![w] = "delete_kb_fts"]
          /\ UNCHANGED <<kbDocs, model, documents, toEmbed, orphans, batch, vectors, skipped, tools, alone>>
          /\ txnDocs' = [f \in Files |-> IF f \in orphans[w] THEN NoRow ELSE kbDocs[f]]
      BY <1>3 DEF DeleteKbDocuments, Goto, index, plan, upsert, Deleting
    <2>2. \A f \in Files : txnDocs'[f] = IF f \in orphans[w] THEN NoRow ELSE kbDocs[f]
      BY <2>1
    <2> QED  BY <2>1, <2>2, AloneInTransaction
  <1>4. ASSUME NEW w \in Workers, DeleteKbFts(w) PROVE \A u \in Workers : Alone(u)'
    <2>1. /\ pc[w] \in Deleting /\ "commit_delete" \in Deleting /\ pc[w] = "delete_kb_fts"
          /\ pc' = [pc EXCEPT ![w] = "commit_delete"]
          /\ UNCHANGED <<kbDocs, txnDocs, model, documents, toEmbed, orphans, batch, vectors, skipped, tools, alone>>
      BY <1>4 DEF DeleteKbFts, Goto, index, plan, upsert, Deleting
    <2>2. PlanHolds(w) => \A f \in Files : txnDocs'[f] = IF f \in orphans[w] THEN NoRow ELSE kbDocs[f]
      BY <2>1 DEF PlanHolds
    <2> QED  BY <2>1, <2>2, AloneInTransaction
  <1>5. ASSUME NEW w \in Workers, ReplaceKbDocuments(w) PROVE \A u \in Workers : Alone(u)'
    <2>1. txnDocs' = [kbDocs EXCEPT ![File(w)] =
                         Row(documents[w][File(w)], vectors[w][File(w)], model[w])]
      BY <1>5 DEF ReplaceKbDocuments
    <2>2. /\ pc[w] \in Upserting /\ "refresh_kb_fts" \in Upserting
          /\ pc' = [pc EXCEPT ![w] = "refresh_kb_fts"]
          /\ UNCHANGED <<kbDocs, model, documents, toEmbed, orphans, batch, vectors, skipped, tools, alone>>
      BY <1>5 DEF ReplaceKbDocuments, Goto, index, plan, upsert, Upserting
    <2>3. \A g \in Files : txnDocs'[g] = IF g = File(w)
                                          THEN Row(documents[w][g], vectors[w][g], model[w])
                                          ELSE kbDocs[g]
      BY <2>1 DEF TypeOK
    <2> QED  BY <2>2, <2>3, AloneInTransaction
  <1>6. ASSUME NEW w \in Workers, RefreshKbFts(w) PROVE \A u \in Workers : Alone(u)'
    <2>1. /\ pc[w] \in Upserting /\ "commit_upsert" \in Upserting /\ pc[w] = "refresh_kb_fts"
          /\ pc' = [pc EXCEPT ![w] = "commit_upsert"]
          /\ UNCHANGED <<kbDocs, txnDocs, model, documents, toEmbed, orphans, batch, vectors, skipped, tools, alone>>
      BY <1>6 DEF RefreshKbFts, Goto, index, plan, upsert, Upserting
    <2>2. PlanHolds(w) =>
             \A f \in Files : txnDocs'[f] = IF f = File(w)
                                                THEN Row(documents[w][f], vectors[w][f], model[w])
                                                ELSE kbDocs[f]
      BY <2>1 DEF PlanHolds
    <2>3. "commit_upsert" \notin {"delete_kb_fts", "commit_delete"}
      OBVIOUS
    <2> QED  BY <2>1, <2>2, <2>3, AloneInTransaction
  <1>7. ASSUME NEW w \in Workers, SyncFails(w) PROVE \A u \in Workers : Alone(u)'
    <2>1. /\ pc[w] \notin {"down", "serving"}
          /\ pc' = [pc EXCEPT ![w] = "serving"]
          /\ UNCHANGED <<kbDocs, txnDocs, model, documents, toEmbed, orphans, batch, vectors, skipped, tools, alone>>
      BY <1>7 DEF SyncFails, SyncRaises, Goto, index, plan, upsert
    <2>2. pc'[w] = "serving" /\ \A u \in Workers \ {w} : Alone(u)'
      BY <2>1, AloneOthers
    <2>3. "serving" \notin Planned \cup Upserting
      BY DEF Planned, Deleting, Upserting
    <2>4. ~tools'[w]
      BY <2>1 DEF Alone
    <2>5. alone[w] => \A u \in Workers \ {w} : pc'[u] \in {"down", "serving"}
      BY <2>1 DEF Alone, TypeOK
    <2>6. Alone(w)'
      BY <2>1, <2>2, <2>3, <2>4, <2>5 DEF Alone
    <2> QED  BY <2>2, <2>6
  <1>8. ASSUME NEW w \in Workers, Stop(w) PROVE \A u \in Workers : Alone(u)'
    <2>1. /\ pc' = [pc EXCEPT ![w] = "down"]
          /\ UNCHANGED <<kbDocs, txnDocs, alone>>
          /\ batch'[w] = {} /\ ~tools'[w]
          /\ \A u \in Workers \ {w} :
                /\ model'[u] = model[u] /\ documents'[u] = documents[u]
                /\ toEmbed'[u] = toEmbed[u] /\ orphans'[u] = orphans[u]
                /\ batch'[u] = batch[u] /\ vectors'[u] = vectors[u]
                /\ skipped'[u] = skipped[u] /\ tools'[u] = tools[u]
      BY <1>8 DEF Stop, Goto, index, TypeOK
    <2>2. pc'[w] = "down" /\ \A u \in Workers \ {w} : Alone(u)'
      BY <2>1, AloneOthers
    <2>3. "down" \notin Planned \cup Upserting
      BY DEF Planned, Deleting, Upserting
    <2>4. alone[w] => \A u \in Workers \ {w} : pc'[u] \in {"down", "serving"}
      BY <2>1 DEF Alone, TypeOK
    <2>5. Alone(w)'
      BY <2>1, <2>2, <2>3, <2>4 DEF Alone
    <2> QED  BY <2>2, <2>5
  <1>9. ASSUME UNCHANGED vars PROVE \A u \in Workers : Alone(u)'
    <2>1. UNCHANGED <<index, txn, pc, plan, upsert, tools, alone>>
      BY <1>9 DEF vars
    <2> QED  BY <2>1, AloneStays
  <1> QED
    BY <1>1, <1>2, <1>3, <1>4, <1>5, <1>6, <1>7, <1>8, <1>9,
       AloneStart, AloneBuilds, AloneMetadata, AloneCommit, AloneEmbeds DEF Next, Sync

LEMMA InitAlone == ASSUME Init PROVE \A u \in Workers : Alone(u)
  BY DEF Init, Alone, Planned, Deleting, Upserting

AloneInv == \A w \in Workers : Alone(w)

LEMMA AloneAlways == Spec => [](TypeOK /\ AloneInv)
  <1>1. Init => AloneInv
    BY InitAlone DEF AloneInv
  <1>2. TypeOK /\ AloneInv /\ [Next]_vars => AloneInv'
    BY AloneStep DEF AloneInv
  <1> QED  BY <1>1, <1>2, TypeCorrect, PTL DEF Spec

(***************************************************************************)
(* A restart repairs: a process that serves with tools, and whose sync no  *)
(* other overlapped, has the index of the files it found, but for those it *)
(* got no vector for, whatever the processes before it left behind.        *)
(***************************************************************************)
THEOREM RestartRepairs == Spec => []IndexIsWhatWasFound
  <1>1. AloneInv => IndexIsWhatWasFound
    <2> SUFFICES ASSUME \A u \in Workers : Alone(u), NEW w \in Workers, tools[w], alone[w],
                        NEW f \in Files \ skipped[w]
                 PROVE  IsInLine(w, f)
      BY DEF IndexIsWhatWasFound, IsInLine, AloneInv
    <2>1. pc[w] = "serving" /\ toEmbed[w] = {} /\ batch[w] = {} /\ PlanHolds(w)
      BY DEF Alone
    <2>2. f \notin Left(w)
      BY <2>1 DEF Left, Deleting
    <2> QED  BY <2>1, <2>2 DEF PlanHolds
  <1> QED  BY <1>1, AloneAlways, PTL

(***************************************************************************)
(* "unchanged files are never re-embedded": whatever a crash or an error   *)
(* left behind, a sync that no other overlaps embeds a file only if its    *)
(* row is not the one of its content and model.                            *)
(***************************************************************************)
THEOREM OnlyChangesAreEmbedded == Spec => EmbedsOnlyWhatChanged
  <1>1. TypeOK /\ AloneInv /\ [Next]_vars =>
           [\A w \in Workers : pc[w] = "create_embeddings" /\ alone[w] =>
               \A f \in batch'[w] :
                   kbDocs[f].content # documents[w][f] \/ kbDocs[f].model # model[w]]_vars
    <2> SUFFICES ASSUME TypeOK, \A u \in Workers : Alone(u), [Next]_vars, NEW w \in Workers,
                        pc[w] = "create_embeddings", alone[w], NEW f \in batch'[w]
                 PROVE  kbDocs[f].content # documents[w][f] \/ kbDocs[f].model # model[w]
      BY DEF AloneInv
    <2>1. PlanHolds(w) /\ batch[w] = {}
      BY DEF Alone, Planned, Upserting
    <2>2. f \in toEmbed[w]
      <3>1. CASE CreateEmbeddings(w)
        BY <3>1, AloneEmbeds
      <3>2. CASE ~CreateEmbeddings(w)
        BY <2>1, <3>2, OnlyItsStepsFillABatch
      <3> QED  BY <3>1, <3>2
    <2>3. ~IsCached(w, f)
      BY <2>1, <2>2 DEF PlanHolds
    <2> QED  BY <2>3 DEF IsCached
  <1> QED  BY <1>1, AloneAlways, PTL DEF Spec, EmbedsOnlyWhatChanged

-----------------------------------------------------------------------------
(* Any sync, whoever overlaps it. *)

(***************************************************************************)
(* What a sync has in hand at each of its awaits: a model while it runs,   *)
(* files to embed while it embeds, files to write while it writes, each    *)
(* with a content.                                                         *)
(***************************************************************************)
InHand(w) ==
    /\ pc[w] \notin {"down", "initialize_database", "serving"} => model[w] \in Models
    /\ pc[w] = "create_embeddings" => toEmbed[w] # {}
    /\ pc[w] \in Upserting => batch[w] # {}
    /\ pc[w] \notin Upserting \cup {"serving"} => batch[w] = {}
    /\ pc[w] \in Planned => \A f \in toEmbed[w] \cup batch[w] : documents[w][f] # 0

Own(w) == <<pc[w], model[w], documents[w], toEmbed[w], orphans[w], batch[w], vectors[w]>>

Step(w) == Boot(w) \/ Sync(w) \/ SyncFails(w) \/ Stop(w)

LEMMA LabelSets ==
    /\ Planned \cap {"down", "initialize_database", "serving", "list_documents", "get_cached_metadata"} = {}
    /\ Deleting \cap Upserting = {} /\ "create_embeddings" \notin Deleting \cup Upserting
    /\ Upserting \cap {"down", "initialize_database", "serving", "list_documents", "get_cached_metadata"} = {}
    /\ "delete_kb_documents" \in Deleting /\ "delete_kb_fts" \in Deleting
    /\ "commit_delete" \in Deleting /\ "replace_kb_documents" \in Upserting
    /\ "refresh_kb_fts" \in Upserting /\ "commit_upsert" \in Upserting
    /\ Deleting \subseteq Planned /\ Upserting \subseteq Planned /\ "create_embeddings" \in Planned
  BY DEF Planned, Deleting, Upserting

LEMMA OthersStand ==
  ASSUME TypeOK, NEW v \in Workers, Step(v), NEW w \in Workers \ {v}
  PROVE  Own(w)' = Own(w)
  <1>1. pc'[w] = pc[w]
    <2>1. \E l : pc' = [pc EXCEPT ![v] = l]
      BY ZenonT(40) DEF Step, Boot, Sync, BuildAppContext, SyncFails, SyncRaises, Stop, ListDocuments,
         GetCachedMetadata, DeleteKbDocuments, DeleteKbFts, CommitDelete, CreateEmbeddings, TakeVectors, SkipBatch,
         ReplaceKbDocuments, RefreshKbFts, CommitUpsert, NextStep, Serve, Goto
    <2> QED  BY <2>1 DEF TypeOK
  <1>2. CASE Boot(v) \/ BuildAppContext(v) \/ Stop(v)
    BY <1>1, <1>2 DEF Boot, BuildAppContext, Stop, plan, upsert, TypeOK, Own
  <1>3. CASE SyncFails(v) \/ DeleteKbDocuments(v) \/ DeleteKbFts(v) \/ RefreshKbFts(v) \/ CommitDelete(v)
    BY <1>1, <1>3 DEF SyncFails, DeleteKbDocuments, DeleteKbFts, RefreshKbFts, CommitDelete,
       plan, upsert, Own
  <1>4. CASE ListDocuments(v) \/ GetCachedMetadata(v)
    <2>1. /\ UNCHANGED <<model, batch, vectors>>
          /\ UNCHANGED documents \/ \E s : documents' = [documents EXCEPT ![v] = s]
          /\ UNCHANGED toEmbed \/ \E s : toEmbed' = [toEmbed EXCEPT ![v] = s]
          /\ UNCHANGED orphans \/ \E s : orphans' = [orphans EXCEPT ![v] = s]
      BY <1>4, Zenon DEF ListDocuments, GetCachedMetadata, upsert
    <2> QED  BY <1>1, <2>1 DEF TypeOK, Own
  <1>5. CASE CreateEmbeddings(v)
    <2> DEFINE b == NextBatch(v)
    <2>1. toEmbed' = [toEmbed EXCEPT ![v] = @ \ b] /\ (TakeVectors(v, b) \/ SkipBatch(v, b))
      BY <1>5 DEF CreateEmbeddings
    <2> HIDE DEF b
    <2>2. /\ UNCHANGED batch \/ \E s : batch' = [batch EXCEPT ![v] = s]
          /\ UNCHANGED vectors \/ \E s : vectors' = [vectors EXCEPT ![v] = s]
      BY <2>1, Zenon DEF TakeVectors, SkipBatch
    <2>3. UNCHANGED <<model, documents, orphans>>
      BY <1>5 DEF CreateEmbeddings
    <2> QED  BY <1>1, <2>1, <2>2, <2>3 DEF TypeOK, Own
  <1>6. CASE ReplaceKbDocuments(v) \/ CommitUpsert(v)
    BY <1>1, <1>6 DEF ReplaceKbDocuments, CommitUpsert, plan, upsert, TypeOK, Own
  <1> QED  BY <1>2, <1>3, <1>4, <1>5, <1>6 DEF Step, Sync

LEMMA InHandStill ==
  ASSUME NEW w \in Workers, InHand(w), Own(w)' = Own(w)
  PROVE  InHand(w)'
  BY DEF InHand, Own

(* What a sync goes on with after a batch or a transaction, it has in hand. *)
LEMMA InHandNext ==
  ASSUME TypeOK, NEW w \in Workers, pc[w] \in Planned \cup {"get_cached_metadata"}, InHand(w),
         NextStep(w, batch'[w], toEmbed'[w]), UNCHANGED <<model, documents>>,
         \A f \in toEmbed'[w] \cup batch'[w] : documents[w][f] # 0
  PROVE  InHand(w)'
  <1>1. PICK label \in {"replace_kb_documents", "create_embeddings", "serving"} :
           /\ pc' = [pc EXCEPT ![w] = label]
           /\ label = "replace_kb_documents" <=> batch'[w] # {}
           /\ label = "create_embeddings" => toEmbed'[w] # {}
    BY DEF NextStep, Serve, Goto
  <1>2. pc'[w] = label
    BY <1>1 DEF TypeOK
  <1>3. model[w] \in Models
    BY LabelSets DEF InHand
  <1> QED  BY <1>1, <1>2, <1>3, LabelSets DEF InHand

(* Of the batch it sent, a sync goes on with the files it got an answer for. *)
LEMMA GoesOnWithAnswered ==
  ASSUME TypeOK, NEW w \in Workers, NEW b \in SUBSET Files, batch[w] = {},
         TakeVectors(w, b) \/ SkipBatch(w, b)
  PROVE  batch'[w] \in SUBSET b /\ NextStep(w, batch'[w], toEmbed'[w])
  <1>1. CASE SkipBatch(w, b)
    BY <1>1 DEF SkipBatch
  <1>2. CASE TakeVectors(w, b)
    <2>1. PICK data \in Answers(w, b) :
             /\ batch' = [batch EXCEPT ![w] = Zipped(b, data)]
             /\ NextStep(w, Zipped(b, data), toEmbed'[w])
      BY <1>2 DEF TakeVectors
    <2>2. batch'[w] = Zipped(b, data)
      BY <2>1 DEF TypeOK
    <2>3. Zipped(b, data) \in SUBSET b
      BY DEF Zipped
    <2> QED  BY <2>1, <2>2, <2>3
  <1> QED  BY <1>1, <1>2

LEMMA InHandStep ==
  ASSUME TypeOK, NEW w \in Workers, InHand(w), Step(w)
  PROVE  InHand(w)'
  <1>1. CASE Boot(w)
    <2>1. pc[w] = "down" /\ batch[w] = {} /\ UNCHANGED batch
      BY <1>1, LabelSets DEF Boot, upsert, InHand
    <2>2. pc'[w] = "initialize_database"
      BY <1>1 DEF Boot, Goto, TypeOK
    <2> QED  BY <2>1, <2>2, LabelSets DEF InHand
  <1>2. CASE BuildAppContext(w)
    <2>1. pc[w] = "initialize_database" /\ batch[w] = {} /\ UNCHANGED batch
      BY <1>2, LabelSets DEF BuildAppContext, upsert, InHand
    <2>2. \/ pc'[w] \in {"serving", "down"}
          \/ pc'[w] = "list_documents" /\ model'[w] \in Models
      BY <1>2 DEF BuildAppContext, Goto, TypeOK
    <2> QED  BY <2>1, <2>2, LabelSets DEF InHand
  <1>3. CASE ListDocuments(w)
    <2>1. /\ pc[w] = "list_documents" /\ pc'[w] = "get_cached_metadata"
          /\ UNCHANGED <<model, batch>>
      BY <1>3 DEF ListDocuments, Goto, upsert, TypeOK
    <2> QED  BY <2>1, LabelSets DEF InHand
  <1>4. CASE GetCachedMetadata(w)
    <2>1. /\ pc[w] = "get_cached_metadata" /\ batch[w] = {} /\ model[w] \in Models
          /\ UNCHANGED <<model, documents, batch>>
          /\ toEmbed'[w] = {f \in Files : documents[w][f] # 0 /\ ~IsCached(w, f)}
      BY <1>4, LabelSets DEF GetCachedMetadata, upsert, InHand, TypeOK
    <2>2. \A f \in toEmbed'[w] \cup batch'[w] : documents[w][f] # 0
      BY <2>1
    <2>3. CASE NextStep(w, {}, toEmbed'[w])
      BY <2>1, <2>2, <2>3, InHandNext
    <2>4. CASE Goto(w, "delete_kb_documents")
      <3>1. pc'[w] = "delete_kb_documents"
        BY <2>4 DEF Goto, TypeOK
      <3> QED  BY <2>1, <2>2, <3>1, LabelSets DEF InHand
    <2> QED  BY <1>4, <2>3, <2>4 DEF GetCachedMetadata
  <1>5. CASE DeleteKbDocuments(w) \/ DeleteKbFts(w) \/ RefreshKbFts(w)
    <2>1. /\ UNCHANGED <<model, documents, toEmbed, batch>>
          /\ \/ pc[w] \in Deleting /\ pc'[w] \in {"delete_kb_fts", "commit_delete"}
             \/ pc[w] = "refresh_kb_fts" /\ pc'[w] = "commit_upsert"
      BY <1>5 DEF DeleteKbDocuments, DeleteKbFts, RefreshKbFts, plan, upsert, Goto, Deleting, TypeOK
    <2> QED  BY <2>1, LabelSets DEF InHand, Planned
  <1>6. CASE CommitDelete(w)
    <2>1. /\ pc[w] = "commit_delete" /\ batch[w] = {} /\ NextStep(w, {}, toEmbed[w])
          /\ UNCHANGED <<model, documents, toEmbed, batch>>
      BY <1>6, LabelSets DEF CommitDelete, plan, upsert, InHand
    <2>2. \A f \in toEmbed'[w] \cup batch'[w] : documents[w][f] # 0
      BY <2>1, LabelSets DEF InHand
    <2> QED  BY <2>1, <2>2, InHandNext, LabelSets
  <1>7. CASE CreateEmbeddings(w)
    <2> DEFINE b == NextBatch(w)
    <2>1. toEmbed' = [toEmbed EXCEPT ![w] = @ \ b] /\ (TakeVectors(w, b) \/ SkipBatch(w, b))
      BY <1>7 DEF CreateEmbeddings
    <2>2. pc[w] = "create_embeddings" /\ batch[w] = {} /\ UNCHANGED <<model, documents>>
      BY <1>7, LabelSets DEF CreateEmbeddings, InHand
    <2>3. b \in SUBSET toEmbed[w]
      BY NextBatchIsSome DEF TypeOK
    <2> HIDE DEF b
    <2>4. b \subseteq toEmbed[w] /\ toEmbed'[w] \subseteq toEmbed[w]
      BY <2>1, <2>3 DEF TypeOK
    <2>5. batch'[w] \subseteq b /\ NextStep(w, batch'[w], toEmbed'[w])
      <3>1. b \in SUBSET Files
        BY <2>3 DEF TypeOK
      <3> QED  BY <2>1, <2>2, <3>1, GoesOnWithAnswered
    <2>6. \A f \in toEmbed'[w] \cup batch'[w] : documents[w][f] # 0
      BY <2>2, <2>4, <2>5, LabelSets DEF InHand
    <2> QED  BY <2>2, <2>5, <2>6, InHandNext, LabelSets
  <1>8. CASE ReplaceKbDocuments(w)
    <2>1. /\ pc[w] = "replace_kb_documents" /\ pc'[w] = "refresh_kb_fts"
          /\ UNCHANGED <<model, documents, toEmbed, batch>>
      BY <1>8 DEF ReplaceKbDocuments, Goto, plan, upsert, TypeOK
    <2> QED  BY <2>1, LabelSets DEF InHand
  <1>9. CASE CommitUpsert(w)
    <2>1. /\ pc[w] = "commit_upsert" /\ batch'[w] = batch[w] \ {File(w)}
          /\ NextStep(w, batch'[w], toEmbed[w])
          /\ UNCHANGED <<model, documents, toEmbed>>
      BY <1>9 DEF CommitUpsert, plan, TypeOK
    <2>2. \A f \in toEmbed'[w] \cup batch'[w] : documents[w][f] # 0
      BY <2>1, LabelSets DEF InHand
    <2> QED  BY <2>1, <2>2, InHandNext, LabelSets
  <1>10. CASE SyncFails(w)
    <2>1. pc'[w] = "serving"
      BY <1>10 DEF SyncFails, SyncRaises, Goto, TypeOK
    <2> QED  BY <2>1, LabelSets DEF InHand
  <1>11. CASE Stop(w)
    <2>1. pc'[w] = "down" /\ batch'[w] = {}
      BY <1>11 DEF Stop, Goto, TypeOK
    <2> QED  BY <2>1, LabelSets DEF InHand
  <1> QED
    BY <1>1, <1>3, <1>4, <1>5, <1>6, <1>7, <1>8, <1>9, <1>10, <1>11, <1>2 DEF Step, Sync

InHandInv == \A w \in Workers : InHand(w)

LEMMA NothingElseMoves ==
  ASSUME [Next]_vars, ~(\E v \in Workers : Step(v))
  PROVE  UNCHANGED <<index, txn, pc, plan, upsert>>
  BY DEF Next, Step, vars, Edit

LEMMA InHandAlways == Spec => [](TypeOK /\ InHandInv)
  <1>1. Init => InHandInv
    BY LabelSets DEF Init, InHandInv, InHand
  <1>2. ASSUME TypeOK, InHandInv, [Next]_vars PROVE InHandInv'
    <2> SUFFICES ASSUME NEW w \in Workers PROVE InHand(w)'
      BY DEF InHandInv
    <2>1. CASE Step(w)
      BY <1>2, <2>1, InHandStep DEF InHandInv
    <2>2. ASSUME NEW v \in Workers \ {w}, Step(v) PROVE InHand(w)'
      BY <1>2, <2>2, OthersStand, InHandStill DEF InHandInv
    <2>3. CASE ~(\E v \in Workers : Step(v))
      <3>1. Own(w)' = Own(w)
        BY <1>2, <2>3, NothingElseMoves DEF Own, plan, upsert
      <3> QED  BY <1>2, <3>1, InHandStill DEF InHandInv
    <2> QED  BY <2>1, <2>2, <2>3
  <1> QED  BY <1>1, <1>2, TypeCorrect, PTL DEF Spec

-----------------------------------------------------------------------------
(* The bound on a startup. *)

(* StepsLeft as a function of the await, the files to embed and those to write. *)
StepsAt(l, e, b) ==
    CASE l \in {"down", "serving"}     -> 0
      [] l = "initialize_database"     -> 4 * Cardinality(Files) + 6
      [] l = "list_documents"          -> 4 * Cardinality(Files) + 5
      [] l = "get_cached_metadata"     -> 4 * Cardinality(Files) + 4
      [] l = "delete_kb_documents"     -> 4 * e + 3 * b + 3
      [] l = "delete_kb_fts"           -> 4 * e + 3 * b + 2
      [] l = "commit_delete"           -> 4 * e + 3 * b + 1
      [] l \in {"create_embeddings", "replace_kb_documents"} -> 4 * e + 3 * b
      [] l = "refresh_kb_fts"          -> 4 * e + 3 * b - 1
      [] l = "commit_upsert"           -> 4 * e + 3 * b - 2

LEMMA StepsLeftIsStepsAt ==
  ASSUME NEW w \in Workers
  PROVE  StepsLeft(w) = StepsAt(pc[w], Cardinality(toEmbed[w]), Cardinality(batch[w]))
  BY DEF StepsLeft, StepsAt

LEMMA StepsAtIs ==
  ASSUME NEW e, NEW b
  PROVE  /\ StepsAt("down", e, b) = 0
         /\ StepsAt("serving", e, b) = 0
         /\ StepsAt("initialize_database", e, b) = 4 * Cardinality(Files) + 6
         /\ StepsAt("list_documents", e, b) = 4 * Cardinality(Files) + 5
         /\ StepsAt("get_cached_metadata", e, b) = 4 * Cardinality(Files) + 4
         /\ StepsAt("delete_kb_documents", e, b) = 4 * e + 3 * b + 3
         /\ StepsAt("delete_kb_fts", e, b) = 4 * e + 3 * b + 2
         /\ StepsAt("commit_delete", e, b) = 4 * e + 3 * b + 1
         /\ StepsAt("create_embeddings", e, b) = 4 * e + 3 * b
         /\ StepsAt("replace_kb_documents", e, b) = 4 * e + 3 * b
         /\ StepsAt("refresh_kb_fts", e, b) = 4 * e + 3 * b - 1
         /\ StepsAt("commit_upsert", e, b) = 4 * e + 3 * b - 2
  BY DEF StepsAt

LEMMA SizeOfFiles ==
  ASSUME NEW S \in SUBSET Files
  PROVE  /\ IsFiniteSet(S)
         /\ Cardinality(S) \in Nat /\ Cardinality(Files) \in Nat
         /\ Cardinality(S) <= Cardinality(Files)
         /\ S # {} <=> Cardinality(S) > 0
  <1>1. IsFiniteSet(Files)
    BY KnowledgeSyncAssumption
  <1>2. IsFiniteSet(S) /\ Cardinality(S) <= Cardinality(Files)
    BY <1>1, FS_Subset
  <1>3. Cardinality(S) \in Nat /\ Cardinality(Files) \in Nat
    BY <1>1, <1>2, FS_CardinalityType
  <1>4. S = {} <=> Cardinality(S) = 0
    BY <1>2, FS_EmptySet
  <1> QED  BY <1>2, <1>3, <1>4

LEMMA SizeOfDifference ==
  ASSUME NEW S \in SUBSET Files, NEW T \in SUBSET S
  PROVE  Cardinality(S \ T) = Cardinality(S) - Cardinality(T)
  <1>1. IsFiniteSet(S) /\ S \cap T = T
    BY SizeOfFiles
  <1> QED  BY <1>1, FS_Difference

(* What is left where a sync goes on to, and that none is left is where it ends. *)
LEMMA StepsAtNext ==
  ASSUME TypeOK, NEW w \in Workers, NextStep(w, batch'[w], toEmbed'[w]),
         NEW e \in Nat, NEW b \in Nat,
         e = Cardinality(toEmbed'[w]), b = Cardinality(batch'[w])
  PROVE  StepsLeft(w)' \in Nat /\ StepsLeft(w)' <= 4 * e + 3 * b
  <1>1. pc'[w] \in {"replace_kb_documents", "create_embeddings", "serving"}
    BY DEF NextStep, Serve, Goto, TypeOK
  <1>2. StepsLeft(w)' = StepsAt(pc'[w], e, b)
    BY DEF StepsLeft, StepsAt
  <1> QED  BY <1>1, <1>2, StepsAtIs

(* While it runs, a sync has something left. *)
LEMMA SomethingLeft ==
  ASSUME TypeOK, NEW w \in Workers, InHand(w), pc[w] \notin {"down", "serving"}
  PROVE  StepsLeft(w) \in Nat /\ StepsLeft(w) > 0
  <1> DEFINE e == Cardinality(toEmbed[w])
             b == Cardinality(batch[w])
  <1>1. StepsLeft(w) = StepsAt(pc[w], e, b)
    BY StepsLeftIsStepsAt
  <1>2. e \in Nat /\ b \in Nat /\ Cardinality(Files) \in Nat
    BY SizeOfFiles DEF TypeOK
  <1>3. /\ pc[w] = "create_embeddings" => e > 0
        /\ pc[w] \in Upserting => b > 0
    BY SizeOfFiles DEF InHand, TypeOK
  <1> HIDE DEF e, b
  <1>4. CASE pc[w] \in Upserting
    BY <1>1, <1>2, <1>3, <1>4, StepsAtIs DEF Upserting
  <1>5. CASE pc[w] = "create_embeddings"
    BY <1>1, <1>2, <1>3, <1>5, StepsAtIs
  <1>6. CASE pc[w] \in Deleting \cup {"initialize_database", "list_documents", "get_cached_metadata"}
    BY <1>1, <1>2, <1>6, StepsAtIs DEF Deleting
  <1> QED  BY <1>4, <1>5, <1>6 DEF TypeOK, PCs, Deleting, Upserting

LEMMA StartupShrinks ==
  ASSUME TypeOK, NEW w \in Workers, InHand(w), Step(w), pc[w] \notin {"down", "serving"}
  PROVE  StepsLeft(w)' \in Nat /\ StepsLeft(w)' < StepsLeft(w)
  <1> DEFINE Goal == StepsLeft(w)' \in Nat /\ StepsLeft(w)' < StepsLeft(w)
             n == Cardinality(Files)
             e == Cardinality(toEmbed[w])
             b == Cardinality(batch[w])
  <1>1. /\ StepsLeft(w) = StepsAt(pc[w], e, b) /\ StepsLeft(w) \in Nat /\ StepsLeft(w) > 0
        /\ n \in Nat /\ e \in Nat /\ b \in Nat /\ e <= n
        /\ toEmbed[w] \in SUBSET Files /\ batch[w] \in SUBSET Files
    BY StepsLeftIsStepsAt, SomethingLeft, SizeOfFiles DEF TypeOK
  <1>2. CASE SyncFails(w) \/ Stop(w)
    <2>1. pc'[w] \in {"serving", "down"}
      BY <1>2 DEF SyncFails, SyncRaises, Stop, Goto, TypeOK
    <2>2. StepsLeft(w)' = StepsAt(pc'[w], Cardinality(toEmbed'[w]), Cardinality(batch'[w]))
      BY DEF StepsLeft, StepsAt
    <2>3. StepsLeft(w)' = 0
      BY <2>1, <2>2, StepsAtIs
    <2> QED  BY <1>1, <2>3
  <1>3. CASE BuildAppContext(w)
    <2>1. pc[w] = "initialize_database" /\ pc'[w] \in {"list_documents", "serving", "down"}
      BY <1>3 DEF BuildAppContext, Goto, TypeOK
    <2>2. StepsLeft(w)' \in {0, 4 * n + 5}
      BY <2>1 DEF StepsLeft
    <2>3. StepsLeft(w) = 4 * n + 6
      BY <2>1 DEF StepsLeft
    <2> HIDE DEF n
    <2> QED  BY <1>1, <2>2, <2>3
  <1>4. CASE ListDocuments(w)
    <2>1. pc[w] = "list_documents" /\ pc'[w] = "get_cached_metadata"
      BY <1>4 DEF ListDocuments, Goto, TypeOK
    <2>2. StepsLeft(w)' = 4 * n + 4
      BY <2>1 DEF StepsLeft
    <2>3. StepsLeft(w) = 4 * n + 5
      BY <2>1 DEF StepsLeft
    <2> HIDE DEF n
    <2> QED  BY <1>1, <2>2, <2>3
  <1>5. CASE GetCachedMetadata(w)
    <2> DEFINE d == Cardinality(toEmbed'[w])
    <2>1. pc[w] = "get_cached_metadata" /\ batch' = batch /\ batch[w] = {} /\ b = 0
      BY <1>5, LabelSets, FS_EmptySet DEF GetCachedMetadata, upsert, InHand
    <2>2. toEmbed'[w] \in SUBSET Files
      BY <1>5 DEF GetCachedMetadata, TypeOK
    <2>3. d \in Nat /\ d <= n
      BY <2>2, SizeOfFiles
    <2>4. StepsLeft(w) = 4 * n + 4
      BY <2>1 DEF StepsLeft
    <2>5. CASE NextStep(w, {}, toEmbed'[w])
      <3>1. Cardinality(batch'[w]) = 0 /\ batch'[w] = {}
        BY <2>1
      <3>2. StepsLeft(w)' \in Nat /\ StepsLeft(w)' <= 4 * d + 3 * 0
        BY <2>3, <2>5, <3>1, StepsAtNext
      <3> HIDE DEF d, n
      <3> QED  BY <1>1, <2>3, <2>4, <3>2
    <2>6. CASE Goto(w, "delete_kb_documents")
      <3>1. pc'[w] = "delete_kb_documents"
        BY <2>6 DEF Goto, TypeOK
      <3>2. StepsLeft(w)' = StepsAt("delete_kb_documents", d, 0)
        BY <2>1, <3>1 DEF StepsLeft, StepsAt
      <3> HIDE DEF d, n
      <3> QED  BY <1>1, <2>3, <2>4, <3>2, StepsAtIs
    <2> QED  BY <1>5, <2>5, <2>6 DEF GetCachedMetadata
  <1>6. CASE DeleteKbDocuments(w) \/ DeleteKbFts(w) \/ ReplaceKbDocuments(w) \/ RefreshKbFts(w)
    <2>1. /\ UNCHANGED <<toEmbed, batch>>
          /\ \/ pc[w] = "delete_kb_documents" /\ pc'[w] = "delete_kb_fts"
             \/ pc[w] = "delete_kb_fts" /\ pc'[w] = "commit_delete"
             \/ pc[w] = "replace_kb_documents" /\ pc'[w] = "refresh_kb_fts"
             \/ pc[w] = "refresh_kb_fts" /\ pc'[w] = "commit_upsert"
      BY <1>6 DEF DeleteKbDocuments, DeleteKbFts, ReplaceKbDocuments, RefreshKbFts, plan, upsert,
         Goto, TypeOK
    <2>2. StepsLeft(w)' = StepsAt(pc'[w], e, b)
      BY <2>1 DEF StepsLeft, StepsAt
    <2>3. pc[w] \in Upserting => b > 0
      BY <1>1, SizeOfFiles DEF InHand
    <2> HIDE DEF e, b
    <2> QED  BY <1>1, <2>1, <2>2, <2>3, StepsAtIs DEF Upserting
  <1>7. CASE CommitDelete(w)
    <2>1. /\ pc[w] = "commit_delete" /\ batch[w] = {} /\ NextStep(w, {}, toEmbed[w])
          /\ UNCHANGED <<toEmbed, batch>>
      BY <1>7, LabelSets DEF CommitDelete, plan, upsert, InHand
    <2>2. StepsLeft(w)' \in Nat /\ StepsLeft(w)' <= 4 * e + 3 * b
      BY <1>1, <2>1, StepsAtNext
    <2> HIDE DEF e, b
    <2> QED  BY <1>1, <2>1, <2>2, StepsAtIs
  <1>8. CASE CreateEmbeddings(w)
    <2> DEFINE s == NextBatch(w)
    <2>1. toEmbed' = [toEmbed EXCEPT ![w] = @ \ s] /\ (TakeVectors(w, s) \/ SkipBatch(w, s))
      BY <1>8 DEF CreateEmbeddings
    <2>2. pc[w] = "create_embeddings" /\ batch[w] = {} /\ toEmbed[w] # {}
      BY <1>8, LabelSets DEF CreateEmbeddings, InHand
    <2>3. s \in SUBSET toEmbed[w] /\ s # {}
      BY <1>1, <2>2, NextBatchIsSome
    <2> HIDE DEF s
    <2>4. s \in SUBSET toEmbed[w] /\ toEmbed'[w] = toEmbed[w] \ s
      BY <2>1, <2>3 DEF TypeOK
    <2>5. batch'[w] \in SUBSET s /\ NextStep(w, batch'[w], toEmbed'[w])
      <3>1. s \in SUBSET Files
        BY <1>1, <2>3
      <3> QED  BY <2>1, <2>2, <3>1, GoesOnWithAnswered
    <2> DEFINE k == Cardinality(s)
               c == Cardinality(batch'[w])
               d == Cardinality(toEmbed'[w])
    <2>6. k \in Nat /\ c \in Nat /\ c <= k /\ d \in Nat /\ d = e - k
      <3>1. IsFiniteSet(s) /\ k \in Nat
        BY <1>1, <2>4, SizeOfFiles
      <3>2. c <= k
        BY <2>5, <3>1, FS_Subset
      <3>3. batch'[w] \in SUBSET Files /\ toEmbed'[w] \in SUBSET Files
        BY <1>1, <2>4, <2>5
      <3>4. c \in Nat /\ d \in Nat
        BY <3>3, SizeOfFiles
      <3>5. d = e - k
        BY <1>1, <2>4, SizeOfDifference
      <3> QED  BY <3>1, <3>2, <3>4, <3>5
    <2>7. k > 0
      <3>1. s \in SUBSET Files
        BY <1>1, <2>3
      <3> QED  BY <2>3, <3>1, SizeOfFiles
    <2>8. StepsLeft(w)' \in Nat /\ StepsLeft(w)' <= 4 * d + 3 * c
      BY <2>5, <2>6, StepsAtNext
    <2>9. StepsLeft(w) = 4 * e + 3 * b /\ b = 0
      BY <1>1, <2>2, StepsAtIs, FS_EmptySet
    <2> HIDE DEF e, b, k, c, d
    <2> QED  BY <1>1, <2>6, <2>7, <2>8, <2>9
  <1>9. CASE CommitUpsert(w)
    <2>1. /\ pc[w] = "commit_upsert" /\ batch'[w] = batch[w] \ {File(w)}
          /\ NextStep(w, batch'[w], toEmbed[w]) /\ UNCHANGED toEmbed
      BY <1>9 DEF CommitUpsert, plan, TypeOK
    <2>2. File(w) \in batch[w]
      <3>1. batch[w] # {}
        BY <2>1, LabelSets DEF InHand
      <3> QED  BY <1>1, <3>1, FirstIsIn DEF File
    <2> DEFINE c == Cardinality(batch'[w])
    <2>3. c = b - 1
      <3>1. IsFiniteSet(batch[w])
        BY <1>1, SizeOfFiles
      <3> QED  BY <2>1, <2>2, <3>1, FS_RemoveElement
    <2>4. c \in Nat
      <3>1. batch'[w] \in SUBSET Files
        BY <1>1, <2>1
      <3> QED  BY <3>1, SizeOfFiles
    <2>5. StepsLeft(w)' \in Nat /\ StepsLeft(w)' <= 4 * e + 3 * c
      BY <1>1, <2>1, <2>4, StepsAtNext
    <2>6. StepsLeft(w) = 4 * e + 3 * b - 2
      BY <1>1, <2>1, StepsAtIs
    <2> HIDE DEF e, b, c
    <2> QED  BY <1>1, <2>3, <2>4, <2>5, <2>6
  <1>10. ~Boot(w)
    BY DEF Boot
  <1> QED
    BY <1>2, <1>4, <1>5, <1>6, <1>7, <1>8, <1>9, <1>10, <1>3 DEF Step, Sync

(***************************************************************************)
(* However many files there are and whatever the batch size, each step of  *)
(* a startup leaves it less to do, whoever syncs beside it and whatever    *)
(* fails: it is over after 4 * |Files| + 6 steps of its own.               *)
(***************************************************************************)
THEOREM StartupsAreBounded == Spec => StartupIsBounded
  <1> DEFINE Bounded(w) ==
        pc[w] \notin {"down", "serving"} /\ Position(w)' # Position(w) =>
            StepsLeft(w)' \in Nat /\ StepsLeft(w)' < StepsLeft(w)
  <1>1. ASSUME TypeOK, InHandInv, [Next]_vars PROVE \A w \in Workers : Bounded(w)
    <2> SUFFICES ASSUME NEW w \in Workers, pc[w] \notin {"down", "serving"},
                        Position(w)' # Position(w)
                 PROVE  StepsLeft(w)' \in Nat /\ StepsLeft(w)' < StepsLeft(w)
      OBVIOUS
    <2>1. ~(\E v \in Workers : Step(v)) => Position(w)' = Position(w)
      BY <1>1, NothingElseMoves DEF Position, plan, upsert
    <2>2. ASSUME NEW v \in Workers \ {w}, Step(v) PROVE Position(w)' = Position(w)
      BY <1>1, <2>2, OthersStand DEF Own, Position
    <2>3. Step(w)
      BY <2>1, <2>2
    <2> QED  BY <1>1, <2>3, StartupShrinks DEF InHandInv
  <1>2. TypeOK /\ InHandInv /\ [Next]_vars => [\A w \in Workers : Bounded(w)]_vars
    BY <1>1
  <1> QED  BY <1>2, InHandAlways, PTL DEF Spec, StartupIsBounded

-----------------------------------------------------------------------------
(* The two tables are the index. *)

(***************************************************************************)
(* What the open transaction has, at each step of it: the committed tables *)
(* and the one row, or the orphans, that it has written so far.            *)
(***************************************************************************)
Copy(w) ==
    /\ pc[w] \in {"delete_kb_fts", "commit_delete"} =>
          \A f \in Files : txnDocs[f] = IF f \in orphans[w] THEN NoRow ELSE kbDocs[f]
    /\ pc[w] = "commit_delete" =>
          \A f \in Files : txnFts[f] = IF f \in orphans[w] THEN 0 ELSE kbFts[f]
    /\ pc[w] \in {"refresh_kb_fts", "commit_upsert"} =>
          \A f \in Files : txnDocs[f] = IF f = File(w)
                                          THEN Row(documents[w][f], vectors[w][f], model[w])
                                          ELSE kbDocs[f]
    /\ pc[w] = "commit_upsert" =>
          \A f \in Files : txnFts[f] = IF f = File(w) THEN documents[w][f] ELSE kbFts[f]
    /\ pc[w] \in {"delete_kb_fts", "refresh_kb_fts"} =>
          \A f \in Files : txnFts[f] = kbFts[f]

CopyInv == \A w \in Workers : Copy(w)

(* Whoever is outside a transaction has no copy. *)
LEMMA CopyOutside ==
  ASSUME NEW w \in Workers, pc[w] \notin InTransaction
  PROVE  Copy(w)
  BY DEF Copy, InTransaction

LEMMA CopyStill ==
  ASSUME NEW w \in Workers, Copy(w), Own(w)' = Own(w),
         UNCHANGED <<kbDocs, kbFts, txnDocs, txnFts>>
  PROVE  Copy(w)'
  BY DEF Copy, File, Own

(* A step of v takes nothing from another's copy: it has none to take it from. *)
LEMMA CopyOthers ==
  ASSUME TypeOK, OneWriter, CopyInv, NEW v \in Workers, Step(v), NEW w \in Workers \ {v}
  PROVE  Copy(w)'
  <1>1. Own(w)' = Own(w)
    BY OthersStand
  <1>2. CASE pc[w] \notin InTransaction
    <2>1. pc'[w] \notin InTransaction
      BY <1>1, <1>2 DEF Own
    <2> QED  BY <2>1 DEF Copy, InTransaction
  <1>3. CASE pc[w] \in InTransaction
    <2>1. pc[v] \notin InTransaction /\ lock = w /\ w # NoWorker
      BY <1>3, OneTransaction, KnowledgeSyncAssumption DEF OneWriter
    <2>2. UNCHANGED <<kbDocs, kbFts, txnDocs, txnFts>>
      BY <2>1 DEF Step, Boot, Sync, BuildAppContext, SyncFails, Stop, ListDocuments,
         GetCachedMetadata, DeleteKbDocuments, DeleteKbFts, CommitDelete, CreateEmbeddings, ReplaceKbDocuments,
         RefreshKbFts, CommitUpsert, Begin, InTransaction, index, txn
    <2> QED  BY <1>1, <2>2, CopyStill DEF CopyInv
  <1> QED  BY <1>2, <1>3

LEMMA CopyStep ==
  ASSUME TypeOK, OneWriter, CopyInv, NEW w \in Workers, Step(w)
  PROVE  Copy(w)'
  <1>1. CASE DeleteKbDocuments(w)
    <2>1. /\ pc'[w] = "delete_kb_fts" /\ txnFts' = kbFts
          /\ txnDocs' = [f \in Files |-> IF f \in orphans[w] THEN NoRow ELSE kbDocs[f]]
          /\ UNCHANGED <<kbDocs, kbFts, orphans>>
      BY <1>1 DEF DeleteKbDocuments, Goto, index, plan, TypeOK
    <2> QED  BY <2>1 DEF Copy
  <1>2. CASE DeleteKbFts(w)
    <2>1. /\ pc[w] = "delete_kb_fts" /\ pc'[w] = "commit_delete"
          /\ txnFts' = [f \in Files |-> IF f \in orphans[w] THEN 0 ELSE txnFts[f]]
          /\ UNCHANGED <<kbDocs, kbFts, txnDocs, orphans>>
      BY <1>2 DEF DeleteKbFts, Goto, index, plan, TypeOK
    <2> QED  BY <2>1 DEF Copy, CopyInv
  <1>3. CASE ReplaceKbDocuments(w)
    <2> DEFINE g == File(w)
    <2>1. txnDocs' = [kbDocs EXCEPT ![g] = Row(documents[w][g], vectors[w][g], model[w])]
      BY <1>3 DEF ReplaceKbDocuments
    <2>2. /\ pc'[w] = "refresh_kb_fts" /\ txnFts' = kbFts /\ File(w)' = g
          /\ UNCHANGED <<kbDocs, kbFts, documents, vectors, model>>
      BY <1>3 DEF ReplaceKbDocuments, Goto, index, plan, upsert, File, TypeOK
    <2> HIDE DEF g
    <2>3. \A f \in Files : txnDocs'[f] = IF f = g THEN Row(documents[w][f], vectors[w][f], model[w])
                                         ELSE kbDocs[f]
      BY <2>1 DEF TypeOK
    <2> QED  BY <2>2, <2>3 DEF Copy
  <1>4. CASE RefreshKbFts(w)
    <2>1. /\ pc[w] = "refresh_kb_fts" /\ pc'[w] = "commit_upsert"
          /\ txnFts' = [txnFts EXCEPT ![File(w)] = documents[w][File(w)]]
          /\ UNCHANGED <<kbDocs, kbFts, txnDocs, documents, vectors, model, batch>>
      BY <1>4 DEF RefreshKbFts, Goto, index, plan, upsert, TypeOK
    <2>2. \A f \in Files : txnFts'[f] = IF f = File(w) THEN documents[w][f] ELSE kbFts[f]
      BY <2>1 DEF Copy, CopyInv, TypeOK
    <2>3. File(w)' = File(w)
      BY <2>1 DEF File
    <2> QED  BY <2>1, <2>2, <2>3 DEF Copy, CopyInv
  <1>5. CASE ~(DeleteKbDocuments(w) \/ DeleteKbFts(w) \/ ReplaceKbDocuments(w) \/ RefreshKbFts(w))
    <2>1. \E label \in PCs \ InTransaction : pc' = [pc EXCEPT ![w] = label]
      <3>1. CASE Boot(w) \/ BuildAppContext(w) \/ ListDocuments(w) \/ SyncFails(w) \/ Stop(w)
        BY <3>1, LabelsAreTyped DEF Boot, BuildAppContext, ListDocuments, SyncFails, SyncRaises, Stop, Goto
      <3>2. CASE GetCachedMetadata(w) \/ CommitDelete(w) \/ CreateEmbeddings(w) \/ CommitUpsert(w)
        BY <3>2, NextStepLands, LabelsAreTyped DEF GetCachedMetadata, CommitDelete,
           CreateEmbeddings, TakeVectors, SkipBatch, CommitUpsert, Goto
      <3> QED  BY <1>5, <3>1, <3>2 DEF Step, Sync
    <2>2. pc'[w] \notin InTransaction
      BY <2>1 DEF TypeOK
    <2> QED  BY <2>2 DEF Copy, InTransaction
  <1> QED  BY <1>1, <1>2, <1>3, <1>4, <1>5

(* The rows of KnowledgeIndex, as the two tables spell them. *)
IndexRow(f)         == [row |-> kbDocs[f], text |-> kbFts[f]]
WrittenRow(c, v, m) == [row |-> Row(c, v, m), text |-> c]
AbsentRow           == [row |-> NoRow, text |-> 0]

(* A set of rows that leaves, and a row that is put in its place. *)
LEMMA RowsLeave ==
  ASSUME NEW gone \in SUBSET Files,
         \A f \in Files : IndexRow(f)' = IF f \in gone THEN AbsentRow ELSE IndexRow(f)
  PROVE  Index!Next
  <1>1. Index!DeleteDocuments(gone)
    BY DEF Index!DeleteDocuments, IndexRow, AbsentRow
  <1> QED  BY <1>1 DEF Index!Next

LEMMA RowIsPut ==
  ASSUME NEW g \in Files, NEW c \in Contents \ {0}, NEW v \in Embeddings, NEW m \in Models,
         \A f \in Files : IndexRow(f)' = IF f = g THEN WrittenRow(c, v, m) ELSE IndexRow(f)
  PROVE  Index!Next
  <1> DEFINE old == [f \in Files |-> [row |-> kbDocs[f], text |-> kbFts[f]]]
  <1>1. WrittenRow(c, v, m) \in IndexRows
    BY DEF WrittenRow, IndexRows
  <1>2. old' = [old EXCEPT ![g] = WrittenRow(c, v, m)]
    <2>1. /\ IndexRow(g)' = WrittenRow(c, v, m)
          /\ \A f \in Files \ {g} : IndexRow(f)' = IndexRow(f)
      OBVIOUS
    <2> QED  BY <2>1 DEF IndexRow
  <1>3. Index!UpsertDocument(g)
    BY <1>1, <1>2 DEF Index!UpsertDocument
  <1> QED  BY <1>3 DEF Index!Next

LEMMA CommitDeleteIsDelete ==
  ASSUME TypeOK, CopyInv, NEW w \in Workers, CommitDelete(w)
  PROVE  Index!Next
  <1>1. /\ pc[w] = "commit_delete" /\ kbDocs' = txnDocs /\ kbFts' = txnFts
    BY DEF CommitDelete, Commit
  <1>2. PICK gone \in SUBSET Files : gone = orphans[w]
    BY DEF TypeOK
  <1>3. \A f \in Files : IndexRow(f)' = IF f \in gone THEN AbsentRow ELSE IndexRow(f)
    BY <1>1, <1>2 DEF Copy, CopyInv, IndexRow, AbsentRow
  <1> QED  BY <1>3, RowsLeave

LEMMA CommitUpsertIsUpsert ==
  ASSUME TypeOK, BatchIsEmbedded, CopyInv, NEW w \in Workers, InHand(w), CommitUpsert(w)
  PROVE  Index!Next
  <1>1. /\ pc[w] = "commit_upsert" /\ kbDocs' = txnDocs /\ kbFts' = txnFts
    BY DEF CommitUpsert, Commit
  <1>2. batch[w] \in SUBSET Files /\ batch[w] # {}
    BY <1>1, LabelSets DEF InHand, TypeOK
  <1>3. File(w) \in batch[w]
    BY <1>2, FirstIsIn DEF File
  <1>4. PICK g \in Files, c \in Contents \ {0}, v \in Embeddings, m \in Models :
           g = File(w) /\ c = documents[w][g] /\ v = vectors[w][g] /\ m = model[w]
    <2>1. File(w) \in Files /\ vectors[w][File(w)] \in Embeddings
      BY <1>2, <1>3 DEF BatchIsEmbedded
    <2>2. documents[w][File(w)] \in Contents \ {0} /\ model[w] \in Models
      BY <1>1, <1>3, <2>1, LabelSets DEF InHand, TypeOK
    <2> QED  BY <2>1, <2>2
  <1>5. \A f \in Files : IndexRow(f)' = IF f = g THEN WrittenRow(c, v, m) ELSE IndexRow(f)
    BY <1>1, <1>4 DEF Copy, CopyInv, IndexRow, WrittenRow
  <1> QED  BY <1>5, RowIsPut

LEMMA RefinesStep ==
  ASSUME IndexInv, InHandInv, CopyInv, [Next]_vars
  PROVE  CopyInv' /\ [Index!Next]_([f \in Files |-> [row |-> kbDocs[f], text |-> kbFts[f]]])
  <1>1. TypeOK /\ OneWriter /\ BatchIsEmbedded
    BY DEF IndexInv
  <1>2. CASE ~(\E v \in Workers : Step(v))
    <2>1. UNCHANGED <<kbDocs, kbFts, txnDocs, txnFts>> /\ \A w \in Workers : Own(w)' = Own(w)
      BY <1>2, NothingElseMoves DEF index, txn, plan, upsert, Own
    <2> QED  BY <2>1, CopyStill DEF CopyInv
  <1>3. ASSUME NEW v \in Workers, Step(v)
        PROVE  CopyInv' /\ [Index!Next]_([f \in Files |-> [row |-> kbDocs[f], text |-> kbFts[f]]])
    <2>1. CopyInv'
      BY <1>1, <1>3, CopyStep, CopyOthers DEF CopyInv
    <2>2. CASE CommitDelete(v)
      BY <1>1, <2>1, <2>2, CommitDeleteIsDelete
    <2>3. CASE CommitUpsert(v)
      BY <1>1, <2>1, <2>3, CommitUpsertIsUpsert DEF InHandInv
    <2>4. CASE ~(CommitDelete(v) \/ CommitUpsert(v))
      <3>1. UNCHANGED <<kbDocs, kbFts>>
        BY <1>3, <2>4 DEF Step, Boot, Sync, BuildAppContext, SyncFails, Stop, ListDocuments,
           GetCachedMetadata, DeleteKbDocuments, DeleteKbFts, CreateEmbeddings, ReplaceKbDocuments, RefreshKbFts, index
      <3> QED  BY <2>1, <3>1
    <2> QED  BY <2>2, <2>3, <2>4
  <1> QED  BY <1>2, <1>3

(***************************************************************************)
(* Whatever number of processes sync one database, and wherever they fail  *)
(* or die, the two tables implement KnowledgeIndex: a row and its text are *)
(* written at once, for one file at a time, and orphans leave at once.     *)
(***************************************************************************)
THEOREM SyncsImplementIndex == Spec => IndexSpec
  <1> DEFINE rows == [f \in Files |-> [row |-> kbDocs[f], text |-> kbFts[f]]]
  <1>1. Init => CopyInv /\ Index!Init
    <2> SUFFICES ASSUME Init PROVE CopyInv /\ Index!Init
      OBVIOUS
    <2>1. CopyInv
      BY LabelsAreTyped, CopyOutside DEF Init, CopyInv
    <2>2. \A f \in Files : [row |-> kbDocs[f], text |-> kbFts[f]] = [row |-> NoRow, text |-> 0]
      BY DEF Init, Nothing
    <2> QED  BY <2>1, <2>2 DEF Index!Init
  <1>2. IndexInv /\ InHandInv /\ CopyInv /\ [Next]_vars => CopyInv' /\ [Index!Next]_rows
    BY RefinesStep
  <1> QED  BY <1>1, <1>2, IndexAlways, InHandAlways, PTL DEF Spec, IndexSpec, Index!Spec

-----------------------------------------------------------------------------
(* A provider that answers. *)

SkipsNothing == \A w \in Workers : skipped[w] = {}

LEMMA SkipsNothingStep ==
  ASSUME "provider" \notin Faults, TypeOK, SkipsNothing, [Next]_vars
  PROVE  SkipsNothing'
  <1>1. ASSUME NEW w \in Workers, CreateEmbeddings(w) PROVE SkipsNothing'
    <2> DEFINE b == NextBatch(w)
    <2>1. TakeVectors(w, b)
      BY <1>1 DEF CreateEmbeddings, SkipBatch
    <2>2. b \in SUBSET Files
      BY NextBatchIsSome DEF TypeOK
    <2> HIDE DEF b
    <2>3. PICK data \in Answers(w, b) : skipped' = [skipped EXCEPT ![w] = @ \cup (b \ Zipped(b, data))]
      BY <2>1 DEF TakeVectors
    <2>4. skipped' = [skipped EXCEPT ![w] = @ \cup (b \ b)]
      BY <2>2, <2>3, AnswerIsPaired
    <2> QED  BY <2>4 DEF SkipsNothing, TypeOK
  <1>2. ASSUME NEW w \in Workers, Stop(w) PROVE SkipsNothing'
    BY <1>2 DEF Stop, SkipsNothing, TypeOK
  <1>3. CASE ~(\E w \in Workers : CreateEmbeddings(w) \/ Stop(w))
    <2>1. UNCHANGED skipped
      BY <1>3 DEF Next, Edit, Boot, Sync, BuildAppContext, SyncFails, ListDocuments, GetCachedMetadata,
         DeleteKbDocuments, DeleteKbFts, CommitDelete, ReplaceKbDocuments, RefreshKbFts,
         CommitUpsert, upsert, vars
    <2> QED  BY <2>1 DEF SkipsNothing
  <1> QED  BY <1>1, <1>2, <1>3

LEMMA SkipsNothingAlways ==
  ASSUME "provider" \notin Faults
  PROVE  Spec => []SkipsNothing
  <1>1. Init => SkipsNothing
    BY DEF Init, SkipsNothing
  <1>2. TypeOK /\ SkipsNothing /\ [Next]_vars => SkipsNothing'
    BY SkipsNothingStep
  <1> QED  BY <1>1, <1>2, TypeCorrect, PTL DEF Spec

(* Both tables have what the sync of w found, and nothing else. *)
IndexIsComplete(w) ==
    /\ kbFts = documents[w]
    /\ \A f \in Files : kbDocs[f].content = documents[w][f]

(***************************************************************************)
(* If the provider answers, a process that serves with tools, and whose    *)
(* sync no other overlapped, finds every file that was there and none that *)
(* was not: only what the provider fails to embed is missing, whatever     *)
(* else fails, and whatever a crash or another model left behind.          *)
(***************************************************************************)
THEOREM NothingIsLeftOut ==
  ASSUME "provider" \notin Faults
  PROVE  Spec => [](\A w \in Workers : tools[w] /\ alone[w] => IndexIsComplete(w))
  <1>1. TypeOK /\ SkipsNothing /\ TablesAgree /\ IndexIsWhatWasFound =>
           \A w \in Workers : tools[w] /\ alone[w] => IndexIsComplete(w)
    <2> SUFFICES ASSUME TypeOK, SkipsNothing, TablesAgree, IndexIsWhatWasFound,
                        NEW w \in Workers, tools[w], alone[w]
                 PROVE  IndexIsComplete(w)
      OBVIOUS
    <2>1. \A f \in Files : kbDocs[f].content = documents[w][f]
      BY DEF SkipsNothing, IndexIsWhatWasFound
    <2>2. \A f \in Files : kbFts[f] = documents[w][f]
      BY <2>1 DEF TablesAgree
    <2>3. kbFts = documents[w]
      BY <2>2 DEF TypeOK
    <2> QED  BY <2>1, <2>3 DEF IndexIsComplete
  <1>2. IndexInv => TablesAgree
    BY DEF IndexInv
  <1> QED
    BY <1>1, <1>2, TypeCorrect, SkipsNothingAlways, IndexAlways, RestartRepairs, PTL

LEMMA OnlyWorkerIsAlone ==
  ASSUME \A v, w \in Workers : v = w, TypeOK,
         \A w \in Workers : pc[w] # "down" => alone[w], [Next]_vars
  PROVE  \A w \in Workers : pc'[w] # "down" => alone'[w]
  <1>1. ASSUME NEW w \in Workers, Boot(w) PROVE alone'[w]
    BY <1>1 DEF Boot
  <1>2. ASSUME ~(\E w \in Workers : Boot(w))
        PROVE  alone' = alone /\ \A w \in Workers : pc[w] = "down" => pc'[w] = "down"
    <2>1. CASE UNCHANGED vars \/ \E f \in Files : Edit(f)
      BY <2>1 DEF vars, Edit
    <2>2. ASSUME NEW w \in Workers, Sync(w) \/ SyncFails(w) \/ Stop(w)
          PROVE  alone' = alone /\ \A v \in Workers : pc[v] = "down" => pc'[v] = "down"
      <3>1. pc[w] # "down" /\ alone' = alone
        BY <2>2 DEF Sync, BuildAppContext, SyncFails, SyncRaises, Stop, ListDocuments, GetCachedMetadata,
           DeleteKbDocuments, DeleteKbFts, CommitDelete, CreateEmbeddings, ReplaceKbDocuments,
           RefreshKbFts, CommitUpsert
      <3> QED  BY <3>1
    <2> QED  BY <1>2, <2>1, <2>2 DEF Next
  <1> QED  BY <1>1, <1>2

(***************************************************************************)
(* So with one process on the database and a provider that answers, every  *)
(* file is found by full-text search.  The fallback that the README        *)
(* promises for a provider that fails is another matter: TLC finds a file  *)
(* that is not found (run no_lexical_fallback).                            *)
(***************************************************************************)
THEOREM EverythingIsSearchable ==
  ASSUME "provider" \notin Faults, \A v, w \in Workers : v = w
  PROVE  Spec => []LexicalFallback
  <1> DEFINE Only == \A w \in Workers : pc[w] # "down" => alone[w]
  <1>1. Init => Only
    BY DEF Init
  <1>2. TypeOK /\ Only /\ [Next]_vars => Only'
    BY OnlyWorkerIsAlone
  <1>3. Only /\ (\A w \in Workers : tools[w] /\ alone[w] => IndexIsComplete(w)) => LexicalFallback
    BY DEF LexicalFallback, IndexIsComplete
  <1> QED  BY <1>1, <1>2, <1>3, TypeCorrect, NothingIsLeftOut, PTL DEF Spec

=============================================================================
