--------------------------- MODULE KnowledgeSync ---------------------------
(***************************************************************************)
(* What a worker process does before it serves: build_app_context and      *)
(* sync_knowledge_index bring kb_documents and kb_fts in line with the     *)
(* files of the knowledge base.  Files change on disk meanwhile, the       *)
(* embeddings provider and the database fail, the process dies and is      *)
(* started again, and other processes on the same database may be doing    *)
(* the same.                                                               *)
(*                                                                         *)
(* A write transaction is opened by its first statement, which takes the   *)
(* one write lock of SQLite; its statements change a private copy that a   *)
(* commit installs, and that an error or a death leaves behind.            *)
(*                                                                         *)
(* A definition named ..._Mutant is a wrong form of the one it precedes;   *)
(* no specification uses it (see README, "Mutants").                       *)
(***************************************************************************)
EXTENDS Naturals, Sequences, FiniteSets

CONSTANTS
    Workers,      \* processes with a lifespan on this database
    Files,        \* the files, numbered in the order of their paths
    Models,       \* values of EMBEDDING_MODEL
    MaxVersion,   \* bound on the contents a file takes
    BatchSize,    \* EMBEDDING_BATCH_SIZE
    Faults,       \* what may go wrong: the embeddings "provider" (a call fails or
                  \* is cut short), the "order" of its vectors, the "storage"
                  \* (SQLite or the disk), the process itself ("crash")
    NoWorker, NoModel, NoVector

ASSUME KnowledgeSyncAssumption ==
    /\ MaxVersion \in Nat \ {0}
    /\ BatchSize \in Nat \ {0}
    /\ Faults \subseteq {"provider", "order", "storage", "crash"}
    /\ NoWorker \notin Workers
    /\ NoModel \notin Models
    /\ Files \subseteq Nat /\ IsFiniteSet(Files)

VARIABLES
    disk,      \* the content of each file, 0 when there is no such file
    kbDocs,    \* the committed kb_documents, by file id
    kbFts,     \* the committed kb_fts, by file id: the content indexed
    lock,      \* the worker whose write transaction is open
    txnDocs,   \* kb_documents and kb_fts as the open transaction sees them
    txnFts,
    pc,        \* per worker, the await of its startup it stands at
    model,     \* per worker, its EMBEDDING_MODEL
    documents, \* per worker, the contents list_documents found
    toEmbed,   \* per worker, the files whose batches are still to come
    orphans,   \* per worker, the indexed files it did not find
    batch,     \* per worker, the files embedded and not yet upserted
    vectors,   \* per worker, the vector zip paired each of these files with
    skipped,   \* per worker, the files it got no vector for (history)
    tools,     \* per worker, whether app.state has a tool executor
    alone      \* per worker, whether no other has started since it did, or
               \* was starting when it did (history)

index  == <<kbDocs, kbFts>>
txn    == <<lock, txnDocs, txnFts>>
plan   == <<model, documents, toEmbed, orphans>>
upsert == <<batch, vectors, skipped>>
vars   == <<disk, index, txn, pc, plan, upsert, tools, alone>>

-----------------------------------------------------------------------------
Contents == 0 .. MaxVersion   \* 0: there is none

(* A vector is known by the text it was computed from: one content of one file. *)
Embedding(f, content) == [file |-> f, content |-> content]
Embeddings == [file : Files, content : Contents]

(* A row of kb_documents: the content its checksum is of, its vector, its model. *)
Row(content, vector, m) == [content |-> content, vector |-> vector, model |-> m]
NoRow == Row(0, NoVector, NoModel)
Rows  == [content : Contents, vector : Embeddings \cup {NoVector},
          model : Models \cup {NoModel}]

PCs == {"down", "initialize_database", "list_documents", "get_cached_metadata",
        "delete_kb_documents", "delete_kb_fts", "commit_delete",
        "create_embeddings", "replace_kb_documents", "refresh_kb_fts",
        "commit_upsert", "serving"}

InTransaction == {"delete_kb_fts", "commit_delete", "refresh_kb_fts", "commit_upsert"}

(* Types; and a write lock is held only by a worker that will release it. *)
TypeOK ==
    /\ disk \in [Files -> Contents]
    /\ kbDocs \in [Files -> Rows] /\ txnDocs \in [Files -> Rows]
    /\ kbFts \in [Files -> Contents] /\ txnFts \in [Files -> Contents]
    /\ lock \in Workers \cup {NoWorker}
    /\ pc \in [Workers -> PCs]
    /\ model \in [Workers -> Models \cup {NoModel}]
    /\ documents \in [Workers -> [Files -> Contents]]
    /\ toEmbed \in [Workers -> SUBSET Files]
    /\ orphans \in [Workers -> SUBSET Files]
    /\ batch \in [Workers -> SUBSET Files]
    /\ vectors \in [Workers -> [Files -> Embeddings \cup {NoVector}]]
    /\ skipped \in [Workers -> SUBSET Files]
    /\ tools \in [Workers -> BOOLEAN]
    /\ alone \in [Workers -> BOOLEAN]
    /\ lock # NoWorker => pc[lock] \in InTransaction

Nothing   == [f \in Files |-> 0]
NoVectors == [f \in Files |-> NoVector]

Init ==
    /\ disk \in [Files -> {0, 1}]
    /\ kbDocs = [f \in Files |-> NoRow] /\ txnDocs = kbDocs
    /\ kbFts = Nothing /\ txnFts = Nothing
    /\ lock = NoWorker
    /\ pc = [w \in Workers |-> "down"]
    /\ model = [w \in Workers |-> NoModel]
    /\ documents = [w \in Workers |-> Nothing]
    /\ toEmbed = [w \in Workers |-> {}]
    /\ orphans = [w \in Workers |-> {}]
    /\ batch = [w \in Workers |-> {}]
    /\ vectors = [w \in Workers |-> NoVectors]
    /\ skipped = [w \in Workers |-> {}]
    /\ tools = [w \in Workers |-> FALSE]
    /\ alone = [w \in Workers |-> FALSE]

Goto(w, label) == pc' = [pc EXCEPT ![w] = label]

-----------------------------------------------------------------------------
(* The knowledge base: a file gets new content, or is removed. *)
Edit(f) ==
    /\ \/ /\ disk[f] < MaxVersion
          /\ disk' = [disk EXCEPT ![f] = @ + 1]
       \/ disk' = [disk EXCEPT ![f] = 0]
    /\ UNCHANGED <<index, txn, pc, plan, upsert, tools, alone>>

-----------------------------------------------------------------------------
(* lifespan and build_app_context. *)

(* A process starts, with no memory of the last one. *)
Boot(w) ==
    /\ pc[w] = "down"
    /\ Goto(w, "initialize_database")
    /\ alone' = [v \in Workers |-> v = w /\ \A u \in Workers \ {w} : pc[u] \in {"down", "serving"}]
    /\ UNCHANGED <<disk, index, txn, plan, upsert, tools>>

(***************************************************************************)
(* Without a knowledge directory, with HYBRID_ENABLED off or without an    *)
(* embeddings client the process serves at once, and has no tools.  A      *)
(* schema that cannot be created, or a directory that is configured and    *)
(* missing (KnowledgeLoader raises outside the try), ends the process.     *)
(***************************************************************************)
BuildAppContext(w) ==
    /\ pc[w] = "initialize_database"
    /\ \/ /\ \E m \in Models : model' = [model EXCEPT ![w] = m]
          /\ Goto(w, "list_documents")
       \/ /\ Goto(w, "serving")
          /\ UNCHANGED model
       \/ /\ "storage" \in Faults
          /\ Goto(w, "down")
          /\ UNCHANGED model
    /\ UNCHANGED <<disk, index, txn, documents, toEmbed, orphans, upsert, tools, alone>>

(* The sync returned: a retriever, and the tools on top of it. *)
Serve(w) ==
    /\ Goto(w, "serving")
    /\ tools' = [tools EXCEPT ![w] = TRUE]

(***************************************************************************)
(* DatabaseError (or an OSError of the loader) leaves the sync, the        *)
(* finally closes its connection, and build_app_context serves without     *)
(* tools.  A write that finds the lock taken for the busy timeout fails    *)
(* this way too.                                                           *)
(***************************************************************************)
SyncRaises(w) ==
    /\ pc[w] \notin {"down", "initialize_database", "serving", "create_embeddings"}
    /\ \/ "storage" \in Faults
       \/ /\ pc[w] \in {"delete_kb_documents", "replace_kb_documents"}
          /\ lock \notin {NoWorker, w}
    /\ Goto(w, "serving")

SyncFailsHoldingLock_Mutant(w) ==
    /\ SyncRaises(w)
    /\ UNCHANGED <<disk, index, txn, plan, upsert, tools, alone>>

SyncFails(w) ==
    /\ SyncRaises(w)
    /\ lock' = IF lock = w THEN NoWorker ELSE lock
    /\ UNCHANGED <<disk, index, txnDocs, txnFts, plan, upsert, tools, alone>>

(* The process is killed or replaced; what it held in memory is gone. *)
Stop(w) ==
    /\ "crash" \in Faults
    /\ pc[w] # "down"
    /\ Goto(w, "down")
    /\ lock' = IF lock = w THEN NoWorker ELSE lock
    /\ model' = [model EXCEPT ![w] = NoModel]
    /\ documents' = [documents EXCEPT ![w] = Nothing]
    /\ toEmbed' = [toEmbed EXCEPT ![w] = {}]
    /\ orphans' = [orphans EXCEPT ![w] = {}]
    /\ batch' = [batch EXCEPT ![w] = {}]
    /\ vectors' = [vectors EXCEPT ![w] = NoVectors]
    /\ skipped' = [skipped EXCEPT ![w] = {}]
    /\ tools' = [tools EXCEPT ![w] = FALSE]
    /\ UNCHANGED <<disk, index, txnDocs, txnFts, alone>>

-----------------------------------------------------------------------------
(* sync_knowledge_index. *)

(* Files change independently, so what is read one by one is one instant's. *)
ListDocuments(w) ==
    /\ pc[w] = "list_documents"
    /\ documents' = [documents EXCEPT ![w] = disk]
    /\ Goto(w, "get_cached_metadata")
    /\ UNCHANGED <<disk, index, txn, model, toEmbed, orphans, upsert, tools, alone>>

(* A cached row is reused if its checksum and its model are the wanted ones. *)
IsCachedByChecksum_Mutant(w, f) == kbDocs[f].content = documents[w][f]
IsCachedByModel_Mutant(w, f)    == kbDocs[f].content = documents[w][f] /\ kbDocs[f].model # model[w]
IsCached(w, f) ==
    /\ kbDocs[f].content = documents[w][f]
    /\ kbDocs[f].model = model[w]

(* After the metadata, and after each transaction: what the sync does next. *)
NextStep(w, batchLeft, embedLeft) ==
    IF batchLeft # {} THEN Goto(w, "replace_kb_documents") /\ UNCHANGED tools
    ELSE IF embedLeft # {} THEN Goto(w, "create_embeddings") /\ UNCHANGED tools
    ELSE Serve(w)

GetCachedMetadata(w) ==
    /\ pc[w] = "get_cached_metadata"
    /\ toEmbed' = [toEmbed EXCEPT ![w] =
                      {f \in Files : documents[w][f] # 0 /\ ~IsCached(w, f)}]
    /\ orphans' = [orphans EXCEPT ![w] =
                      {f \in Files : kbDocs[f] # NoRow /\ documents[w][f] = 0}]
    /\ IF orphans'[w] # {}
          THEN Goto(w, "delete_kb_documents") /\ UNCHANGED tools
          ELSE NextStep(w, {}, toEmbed'[w])
    /\ UNCHANGED <<disk, index, txn, model, documents, upsert, alone>>

(* BEGIN: the first write of a transaction waits for the lock. *)
BeginWithoutWaiting_Mutant(w) == lock' = w
Begin(w) == lock = NoWorker /\ lock' = w

Commit(w) ==
    /\ kbDocs' = txnDocs
    /\ kbFts' = txnFts
    /\ lock' = NoWorker
    /\ UNCHANGED <<txnDocs, txnFts>>

(* delete_documents: two executemany and a commit. *)
DeleteKbDocumentsAtOnce_Mutant(w) ==
    /\ pc[w] = "delete_kb_documents"
    /\ Begin(w)
    /\ txnDocs' = [f \in Files |-> IF f \in orphans[w] THEN NoRow ELSE kbDocs[f]]
    /\ kbDocs' = txnDocs'
    /\ txnFts' = kbFts
    /\ Goto(w, "delete_kb_fts")
    /\ UNCHANGED <<disk, kbFts, plan, upsert, tools, alone>>

DeleteKbDocuments(w) ==
    /\ pc[w] = "delete_kb_documents"
    /\ Begin(w)
    /\ txnDocs' = [f \in Files |-> IF f \in orphans[w] THEN NoRow ELSE kbDocs[f]]
    /\ txnFts' = kbFts
    /\ Goto(w, "delete_kb_fts")
    /\ UNCHANGED <<disk, index, plan, upsert, tools, alone>>

DeleteKbFts(w) ==
    /\ pc[w] = "delete_kb_fts"
    /\ txnFts' = [f \in Files |-> IF f \in orphans[w] THEN 0 ELSE txnFts[f]]
    /\ Goto(w, "commit_delete")
    /\ UNCHANGED <<disk, index, lock, txnDocs, plan, upsert, tools, alone>>

CommitDeleteForgotten_Mutant(w) ==
    /\ pc[w] = "commit_delete"
    /\ lock' = NoWorker
    /\ NextStep(w, {}, toEmbed[w])
    /\ UNCHANGED <<disk, index, txnDocs, txnFts, plan, upsert, alone>>

CommitDelete(w) ==
    /\ pc[w] = "commit_delete"
    /\ Commit(w)
    /\ NextStep(w, {}, toEmbed[w])
    /\ UNCHANGED <<disk, plan, upsert, alone>>

(* Where f stands among the files of S, in the order of their paths. *)
Place(S, f) == Cardinality({g \in S : g <= f})
First(S)    == CHOOSE f \in S : \A g \in S : f <= g

NextBatch(w) == {f \in toEmbed[w] : Place(toEmbed[w], f) <= BatchSize}

(***************************************************************************)
(* What the provider may answer for a batch: "one float vector per input,  *)
(* in the same order" (llm/client.py).  Nobody checks it: an answer may be *)
(* cut short, or ("order") leave out an earlier input or change places.    *)
(***************************************************************************)
InOrder(w, b, data) ==
    \A f \in b : Place(b, f) <= Len(data) => data[Place(b, f)] = Embedding(f, documents[w][f])

Answers(w, b) ==
    {data \in UNION {[1 .. n -> {Embedding(f, documents[w][f]) : f \in b}] : n \in 0 .. Cardinality(b)} :
        /\ \A i, j \in DOMAIN data : data[i] = data[j] => i = j
        /\ "provider" \notin Faults => Len(data) = Cardinality(b)
        /\ "order" \notin Faults => InOrder(w, b, data)}

(* zip(batch, vectors): by position, as far as both go. *)
Zipped(b, data) == {f \in b : Place(b, f) <= Len(data)}

VectorsOfUnorderedBatch_Mutant(b, data) ==
    [f \in Files |-> IF f \in Zipped(b, data) THEN data[Cardinality(Zipped(b, data)) + 1 - Place(b, f)]
                     ELSE NoVector]

Vectors(b, data) ==
    [f \in Files |-> IF f \in Zipped(b, data) THEN data[Place(b, f)] ELSE NoVector]

(***************************************************************************)
(* create_embeddings of the next batch.  A call that fails is logged, and  *)
(* the sync goes on with the batch after it; files that zip drops are not. *)
(***************************************************************************)
TakeVectors(w, b) ==
    \E data \in Answers(w, b) :
        /\ vectors' = [vectors EXCEPT ![w] = Vectors(b, data)]
        /\ batch' = [batch EXCEPT ![w] = Zipped(b, data)]
        /\ skipped' = [skipped EXCEPT ![w] = @ \cup (b \ Zipped(b, data))]
        /\ NextStep(w, Zipped(b, data), toEmbed'[w])

SkipBatch(w, b) ==
    /\ "provider" \in Faults
    /\ skipped' = [skipped EXCEPT ![w] = @ \cup b]
    /\ NextStep(w, {}, toEmbed'[w])
    /\ UNCHANGED <<vectors, batch>>

CreateEmbeddingsStartingOver_Mutant(w) ==
    /\ pc[w] = "create_embeddings"
    /\ \/ /\ toEmbed' = [toEmbed EXCEPT ![w] = @ \ NextBatch(w)]
          /\ TakeVectors(w, NextBatch(w))
       \/ /\ "provider" \in Faults
          /\ Goto(w, "list_documents")
          /\ UNCHANGED <<toEmbed, vectors, batch, skipped, tools>>
    /\ UNCHANGED <<disk, index, txn, model, documents, orphans, alone>>

CreateEmbeddings(w) ==
    /\ pc[w] = "create_embeddings"
    /\ toEmbed' = [toEmbed EXCEPT ![w] = @ \ NextBatch(w)]
    /\ TakeVectors(w, NextBatch(w)) \/ SkipBatch(w, NextBatch(w))
    /\ UNCHANGED <<disk, index, txn, model, documents, orphans, alone>>

(* The file whose upsert is next, or open. *)
File(w) == First(batch[w])

(* upsert_document: REPLACE, then DELETE and INSERT in kb_fts, and a commit. *)
ReplaceKbDocumentsReadAgain_Mutant(w) ==
    /\ pc[w] = "replace_kb_documents"
    /\ Begin(w)
    /\ txnDocs' = [kbDocs EXCEPT ![File(w)] = Row(disk[File(w)], vectors[w][File(w)], model[w])]
    /\ txnFts' = kbFts
    /\ Goto(w, "refresh_kb_fts")
    /\ UNCHANGED <<disk, index, plan, upsert, tools, alone>>

ReplaceKbDocuments(w) ==
    /\ pc[w] = "replace_kb_documents"
    /\ Begin(w)
    /\ txnDocs' = [kbDocs EXCEPT ![File(w)] =
                      Row(documents[w][File(w)], vectors[w][File(w)], model[w])]
    /\ txnFts' = kbFts
    /\ Goto(w, "refresh_kb_fts")
    /\ UNCHANGED <<disk, index, plan, upsert, tools, alone>>

RefreshKbFtsOnce_Mutant(w) ==
    /\ pc[w] = "refresh_kb_fts"
    /\ txnFts' = [txnFts EXCEPT ![File(w)] = IF @ = 0 THEN documents[w][File(w)] ELSE @]
    /\ Goto(w, "commit_upsert")
    /\ UNCHANGED <<disk, index, lock, txnDocs, plan, upsert, tools, alone>>

RefreshKbFts(w) ==
    /\ pc[w] = "refresh_kb_fts"
    /\ txnFts' = [txnFts EXCEPT ![File(w)] = documents[w][File(w)]]
    /\ Goto(w, "commit_upsert")
    /\ UNCHANGED <<disk, index, lock, txnDocs, plan, upsert, tools, alone>>

CommitUpsert(w) ==
    /\ pc[w] = "commit_upsert"
    /\ Commit(w)
    /\ batch' = [batch EXCEPT ![w] = @ \ {File(w)}]
    /\ NextStep(w, batch'[w], toEmbed[w])
    /\ UNCHANGED <<disk, plan, vectors, skipped, alone>>

-----------------------------------------------------------------------------
Sync(w) ==
    \/ BuildAppContext(w) \/ ListDocuments(w) \/ GetCachedMetadata(w)
    \/ DeleteKbDocuments(w) \/ DeleteKbFts(w) \/ CommitDelete(w)
    \/ CreateEmbeddings(w)
    \/ ReplaceKbDocuments(w) \/ RefreshKbFts(w) \/ CommitUpsert(w)

Next ==
    \/ \E f \in Files : Edit(f)
    \/ \E w \in Workers : Boot(w) \/ Sync(w) \/ SyncFails(w) \/ Stop(w)

(* A started process runs its startup to the end, unless it is stopped. *)
Fairness == \A w \in Workers : WF_vars(Sync(w))

Spec     == Init /\ [][Next]_vars
FairSpec == Spec /\ Fairness

-----------------------------------------------------------------------------
(* Properties. *)

(***************************************************************************)
(* "Writes keep kb_documents and kb_fts consistent in a single             *)
(* transaction" (repositories/knowledge.py): at every moment a search that *)
(* joins the two finds the same files in both, with the same content.      *)
(* This holds for any number of syncs at once, failing or killed anywhere. *)
(***************************************************************************)
TablesAgree == \A f \in Files : kbFts[f] = kbDocs[f].content

(***************************************************************************)
(* A stored vector was computed from the file it is stored for, and from   *)
(* the content whose checksum is beside it.  The code pairs them by their  *)
(* positions, so this takes a provider that keeps the order of the inputs, *)
(* if it answers for all of them or not.                                   *)
(***************************************************************************)
VectorsBelong ==
    \A f \in Files : kbDocs[f] # NoRow => kbDocs[f].vector = Embedding(f, kbDocs[f].content)

(***************************************************************************)
(* The two tables implement KnowledgeIndex: whatever syncs run, fail and   *)
(* die, the row of a file and its text are written at once, of one content *)
(* and with a vector and a model, each file in a transaction of its own;   *)
(* or orphans leave both at once.  So no sync undoes, or shows early, what *)
(* another one does to other files.                                        *)
(***************************************************************************)
IndexRows ==
    {[row |-> Row(content, vector, m), text |-> content] :
        content \in Contents \ {0}, vector \in Embeddings, m \in Models}

Index == INSTANCE KnowledgeIndex WITH
    Rows  <- IndexRows,
    NoRow <- [row |-> NoRow, text |-> 0],
    rows  <- [f \in Files |-> [row |-> kbDocs[f], text |-> kbFts[f]]]

IndexSpec == Index!Spec

(***************************************************************************)
(* When a process serves with tools and no other sync overlapped its own   *)
(* or came after it, the index is what it found on disk, embedded with its *)
(* model, except for the files it got no vector for.  So a restart repairs *)
(* what a crash, an error, a change of model or an earlier failure of the  *)
(* provider left behind.                                                   *)
(***************************************************************************)
IndexIsWhatWasFound ==
    \A w \in Workers : tools[w] /\ alone[w] =>
        \A f \in Files \ skipped[w] :
            /\ kbDocs[f].content = documents[w][f]
            /\ documents[w][f] # 0 => kbDocs[f].model = model[w]

(***************************************************************************)
(* "unchanged files are never re-embedded" (README.md): if no other sync   *)
(* overlaps, a file is sent to the embeddings provider only if its row is  *)
(* missing or is of another content or model, after a crash too.           *)
(***************************************************************************)
EmbedsOnlyWhatChanged ==
    [][\A w \in Workers : pc[w] = "create_embeddings" /\ alone[w] =>
          \A f \in batch'[w] :
              kbDocs[f].content # documents[w][f] \/ kbDocs[f].model # model[w]]_vars

(***************************************************************************)
(* A startup is bounded: per file one call of the provider at most and the *)
(* three statements of an upsert, and a handful of steps before.  Whatever *)
(* fails and whatever others commit meanwhile, each step it takes leaves   *)
(* less of them; nothing is retried.                                       *)
(***************************************************************************)
StepsLeft(w) ==
    LET files == 4 * Cardinality(toEmbed[w]) + 3 * Cardinality(batch[w])
    IN  CASE pc[w] \in {"down", "serving"}     -> 0
          [] pc[w] = "initialize_database"     -> 4 * Cardinality(Files) + 6
          [] pc[w] = "list_documents"          -> 4 * Cardinality(Files) + 5
          [] pc[w] = "get_cached_metadata"     -> 4 * Cardinality(Files) + 4
          [] pc[w] = "delete_kb_documents"     -> files + 3
          [] pc[w] = "delete_kb_fts"           -> files + 2
          [] pc[w] = "commit_delete"           -> files + 1
          [] pc[w] \in {"create_embeddings", "replace_kb_documents"} -> files
          [] pc[w] = "refresh_kb_fts"          -> files - 1
          [] pc[w] = "commit_upsert"           -> files - 2

Position(w) == <<pc[w], toEmbed[w], batch[w]>>

StartupIsBounded ==
    [][\A w \in Workers : pc[w] \notin {"down", "serving"} /\ Position(w)' # Position(w) =>
          StepsLeft(w)' \in Nat /\ StepsLeft(w)' < StepsLeft(w)]_vars

(* A start ends in serving, with or without tools, or in its process's end. *)
StartupEnds ==
    \A w \in Workers : pc[w] # "down" ~> pc[w] \in {"serving", "down"}

(***************************************************************************)
(* "If the embeddings API is unavailable at startup, the indexer falls     *)
(* back to BM25-only" (README.md): a file that could not be embedded is    *)
(* found by full-text search all the same.                                 *)
(***************************************************************************)
LexicalFallback ==
    \A w \in Workers : pc[w] = "serving" /\ tools[w] =>
        \A f \in Files : documents[w][f] # 0 => kbFts[f] # 0

=============================================================================
