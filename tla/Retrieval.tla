----------------------------- MODULE Retrieval -----------------------------
(***************************************************************************)
(* search_knowledge_base: the full-text hits, the rows of those hits (or   *)
(* of every file, when there are none), the similarity of each row to the  *)
(* query, and the fusion of the two signals into a ranking.  Hits and rows *)
(* are read on different connections, and the sync of another process      *)
(* commits to the index in between.                                        *)
(*                                                                         *)
(* Scores are whole numbers: only their order and their ratios matter, so  *)
(* nothing is rounded, and a fused score has its denominators multiplied   *)
(* out.                                                                    *)
(*                                                                         *)
(* A definition named ..._Mutant is a wrong form of the one it precedes;   *)
(* no specification uses it (see README, "Mutants").                       *)
(***************************************************************************)
EXTENDS Integers, FiniteSets, Sequences, FiniteSetsExt

CONSTANTS
    Files,       \* the files, numbered in the order of (filename, file_id)
    MaxLex,      \* bound on the BM25 score of a file for the query, 0: no match
    MaxSem,      \* bound on the similarity of a vector to the query
    Dims,        \* lengths of the vectors of the models in use
    QueryDim,    \* the length of the query's vector
    Unit,        \* HYBRID_LEXICAL_WEIGHT is weight / Unit
    FtsLimit,    \* fts_candidate_limit
    Limits,      \* the limits the model asks for
    MaxCommits   \* bound on the commits of other processes during a search

ASSUME RetrievalAssumption ==
    /\ Files \subseteq Nat /\ IsFiniteSet(Files)
    /\ MaxLex \in Nat /\ MaxSem \in Nat
    /\ Dims \subseteq Nat /\ QueryDim \in Dims
    /\ Unit \in Nat \ {0}
    /\ FtsLimit \in Nat \ {0}
    /\ Limits \subseteq Nat \ {0} /\ Limits # {}
    /\ MaxCommits \in Nat

VARIABLES
    index,       \* the committed row of each file, as the query sees it
    weight,      \* HYBRID_LEXICAL_WEIGHT of the process, in units
    pc,          \* the await the search stands at
    limit,       \* its limit
    lexById,     \* the BM25 score of each full-text hit, 0 for the others
    ids,         \* the files whose rows it asks for
    candidates,  \* the signals of the files whose rows it got
    embedded,    \* whether it has a vector of the query
    hits,        \* the files it returned, best first
    outcome,     \* "none" before it ends, then "hits" or "raises"
    commits,     \* commits of other processes since it began
    ahead        \* the pairs <<f, g>> with f strictly better than g in both
                 \* signals in every state of the index since it began (history)

reply == <<candidates, embedded, hits>>
vars  == <<index, weight, pc, limit, lexById, ids, reply, outcome, commits, ahead>>

-----------------------------------------------------------------------------
Rows  == [lex : 0 .. MaxLex, sem : 0 .. MaxSem, dim : Dims]
NoRow == [lex |-> 0, sem |-> 0, dim |-> -1]

Indexed(i) == {f \in Files : i[f] # NoRow}

Signals == [lex : 0 .. MaxLex, sem : 0 .. MaxSem]
PCs == {"idle", "fts_search", "list_file_ids", "load_candidates"}

Better(i) == {p \in Indexed(i) \X Indexed(i) :
                 i[p[1]].lex > i[p[2]].lex /\ i[p[1]].sem > i[p[2]].sem}

(* Types; and no more hits than were asked for, none of them twice. *)
TypeOK ==
    /\ index \in [Files -> Rows \cup {NoRow}]
    /\ weight \in 0 .. Unit
    /\ pc \in PCs
    /\ limit \in Limits
    /\ lexById \in [Files -> 0 .. MaxLex]
    /\ ids \subseteq Files
    /\ DOMAIN candidates \subseteq Files /\ candidates \in [DOMAIN candidates -> Signals]
    /\ embedded \in BOOLEAN
    /\ hits \in Seq(DOMAIN candidates)
    /\ Len(hits) <= limit /\ \A i, j \in DOMAIN hits : hits[i] = hits[j] => i = j
    /\ outcome \in {"none", "hits", "raises"}
    /\ commits \in 0 .. MaxCommits
    /\ ahead \subseteq Files \X Files

Init ==
    /\ index \in [Files -> Rows \cup {NoRow}]
    /\ weight \in 0 .. Unit
    /\ pc = "idle"
    /\ limit \in Limits
    /\ lexById = [f \in Files |-> 0]
    /\ ids = {}
    /\ candidates = << >> /\ embedded = FALSE /\ hits = << >>
    /\ outcome = "none"
    /\ commits = 0
    /\ ahead = {}

-----------------------------------------------------------------------------
(* The sync of another process: each transaction changes both tables. *)
Commit ==
    /\ pc # "idle"
    /\ commits < MaxCommits
    /\ commits' = commits + 1
    /\ ahead' = ahead \cap Better(index')
    /\ UNCHANGED <<weight, pc, limit, lexById, ids, reply, outcome>>

UpsertDocument(f) ==
    /\ \E row \in Rows : index' = [index EXCEPT ![f] = row]
    /\ Commit

DeleteDocuments(orphans) ==
    /\ index' = [f \in Files |-> IF f \in orphans THEN NoRow ELSE index[f]]
    /\ Commit

-----------------------------------------------------------------------------
Goto(label) == pc' = label /\ UNCHANGED outcome
End(result) == pc' = "idle" /\ outcome' = result

(***************************************************************************)
(* The tool lets only a query that is not empty and a positive limit       *)
(* through.  A query without a letter or a digit has nothing to look up.   *)
(***************************************************************************)
Search ==
    /\ pc = "idle"
    /\ limit' \in Limits
    /\ \E label \in {"fts_search", "list_file_ids"} : pc' = label
    /\ outcome' = "none"
    /\ lexById' = [f \in Files |-> 0]
    /\ ids' = {}
    /\ candidates' = << >> /\ embedded' = FALSE /\ hits' = << >>
    /\ commits' = 0
    /\ ahead' = Better(index)
    /\ UNCHANGED <<index, weight>>

(* DatabaseError from any of the three reads goes to the caller. *)
ReadFails ==
    /\ pc # "idle"
    /\ End("raises")
    /\ UNCHANGED <<index, weight, limit, lexById, ids, reply, commits, ahead>>

(* ORDER BY score LIMIT n: the best n of the matches, ties in any order. *)
Matches == {f \in Files : index[f].lex > 0}

IsTop_Mutant(S) == Cardinality(S) = Min({FtsLimit, Cardinality(Matches)})
IsTop(S) ==
    /\ Cardinality(S) = Min({FtsLimit, Cardinality(Matches)})
    /\ \A f \in S, g \in Matches \ S : index[f].lex >= index[g].lex

(***************************************************************************)
(* fts_search, whose OperationalError counts as no hits.  Without hits the *)
(* search goes on with every file.                                         *)
(***************************************************************************)
FtsSearch ==
    /\ pc = "fts_search"
    /\ \E found \in SUBSET Matches :
          /\ IsTop(found) \/ found = {}
          /\ lexById' = [f \in Files |-> IF f \in found THEN index[f].lex ELSE 0]
          /\ ids' = found
          /\ Goto(IF found = {} THEN "list_file_ids" ELSE "load_candidates")
    /\ UNCHANGED <<index, weight, limit, reply, commits, ahead>>

ListFileIds ==
    /\ pc = "list_file_ids"
    /\ ids' = Indexed(index)
    /\ IF ids' = {} THEN End("hits") ELSE Goto("load_candidates")
    /\ UNCHANGED <<index, weight, limit, lexById, reply, commits, ahead>>

-----------------------------------------------------------------------------
(* Fusion.  c is a function from the candidates to their signals. *)

Lowest(scores)  == Min(scores)
Span(scores)    == Max(scores) - Min(scores)
Divisor(scores) == IF Span(scores) = 0 THEN 1 ELSE Span(scores)

LexOf(c) == {c[f].lex : f \in DOMAIN c}
SemOf(c) == {c[f].sem : f \in DOMAIN c}

(* alpha * norm_lex + (1 - alpha) * norm_sem, times Unit and both divisors. *)
Fused_Mutant(c, f) ==
      weight * (Max(LexOf(c)) - c[f].lex) * Divisor(SemOf(c))
    + (Unit - weight) * (c[f].sem - Lowest(SemOf(c))) * Divisor(LexOf(c))
Fused(c, f) ==
      weight * (c[f].lex - Lowest(LexOf(c))) * Divisor(SemOf(c))
    + (Unit - weight) * (c[f].sem - Lowest(SemOf(c))) * Divisor(LexOf(c))

(* The sort key: the higher score, then (filename, file_id). *)
Precedes(c, f, g) ==
    \/ Fused(c, f) > Fused(c, g)
    \/ Fused(c, f) = Fused(c, g) /\ f < g

Rankings(c) ==
    {r \in [1 .. Cardinality(DOMAIN c) -> DOMAIN c] :
        \A i, j \in DOMAIN r : i < j => Precedes(c, r[i], r[j])}

Cut_Mutant(ranking) == ranking
Cut(ranking) == SubSeq(ranking, 1, Min({limit, Len(ranking)}))

(* load_candidates: a file that has left the index is not a candidate. *)
LoadedRows == ids \cap Indexed(index)

(* _embed_query: a vector, or none, when the provider fails or there is no client. *)
QueryVector == BOOLEAN

(* NumPy multiplies the vectors only if all have the length of the query's. *)
Comparable(loaded) == \A f \in loaded : index[f].dim = QueryDim

(* The BM25 score was read before; without a query vector none is similar. *)
Candidates(loaded, vector) ==
    [f \in loaded |-> [lex |-> lexById[f], sem |-> IF vector THEN index[f].sem ELSE 0]]

(* The read of the rows, and all that follows it without another await. *)
LoadCandidates ==
    /\ pc = "load_candidates"
    /\ \/ LoadedRows = {} /\ End("hits") /\ UNCHANGED reply
       \/ \E vector \in QueryVector :
             /\ LoadedRows # {}
             /\ \/ vector /\ ~Comparable(LoadedRows) /\ End("raises") /\ UNCHANGED reply
                \/ /\ vector => Comparable(LoadedRows)
                   /\ embedded' = vector
                   /\ candidates' = Candidates(LoadedRows, vector)
                   /\ \E ranking \in Rankings(candidates') : hits' = Cut(ranking)
                   /\ End("hits")
    /\ ids' = {}
    /\ UNCHANGED <<index, weight, limit, lexById, commits, ahead>>

-----------------------------------------------------------------------------
Next ==
    \/ \E f \in Files : UpsertDocument(f)
    \/ \E orphans \in (SUBSET Files) \ {{}} : DeleteDocuments(orphans)
    \/ Search
    \/ FtsSearch
    \/ ListFileIds
    \/ LoadCandidates
    \/ ReadFails

Spec == Init /\ [][Next]_vars

-----------------------------------------------------------------------------
(* Properties. *)

(* f is listed before g, if g is listed at all. *)
ListedBefore(f, g) ==
    \A j \in DOMAIN hits : hits[j] = g => \E i \in DOMAIN hits : i < j /\ hits[i] = f

(***************************************************************************)
(* Whatever the weight and the scales of the two signals: a candidate that *)
(* is as good as another in both, and better in one that counts, is listed *)
(* before it.  (min_max_normalize, the fusion, the sort and the cut of     *)
(* search_knowledge_base.)                                                 *)
(***************************************************************************)
Dominates(f, g) ==
    LET a == candidates[f]
        b == candidates[g]
    IN  /\ a.lex >= b.lex /\ a.sem >= b.sem
        /\ (a.lex > b.lex /\ weight > 0) \/ (a.sem > b.sem /\ weight < Unit)

DominanceRespected ==
    \A f, g \in DOMAIN candidates : Dominates(f, g) => ListedBefore(f, g)

(***************************************************************************)
(* Although the full-text hits are cut at fts_candidate_limit, and scores  *)
(* and vectors are read in two states of the index: a file that was better *)
(* than another in both signals all along is listed before it, as long as  *)
(* one signal that counts was to be had.                                   *)
(***************************************************************************)
SomeSignal ==
    \/ weight > 0 /\ \E f \in Files : lexById[f] > 0
    \/ weight < Unit /\ embedded

AheadIsListedFirst ==
    SomeSignal => \A p \in ahead : ListedBefore(p[1], p[2])
=============================================================================
