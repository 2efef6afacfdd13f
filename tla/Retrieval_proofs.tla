-------------------------- MODULE Retrieval_proofs --------------------------
(***************************************************************************)
(* Proofs about Retrieval, for any set of files, any scores, any weight,   *)
(* any limits and any commits between the reads of a search: the ranking   *)
(* respects both signals, and the commits it sees are all that the syncs   *)
(* of other processes can do to it.                                        *)
(*                                                                         *)
(* The arithmetic is in FusedIsMonotonic, which needs that the divisors    *)
(* are positive, and that is what the case of an empty span is for.  The   *)
(* ranking lists every candidate (RankingIsOnto), since it lists as many   *)
(* as there are and none of them twice.                                    *)
(***************************************************************************)
EXTENDS Retrieval, FiniteSetTheorems, WellFoundedInduction, TLAPS

-----------------------------------------------------------------------------
(* Minima and maxima. *)

LEMMA LeastNatural ==
    ASSUME NEW S, S \subseteq Nat, S # {}
    PROVE  \E m \in S : \A x \in S : m <= x
  <1>1. PICK m \in S : \A x \in S : ~ (<<x, m>> \in OpToRel(<, Nat))
    BY NatLessThanWellFounded, WFMin
  <1>2. \A x \in S : ~ (x < m)
    BY <1>1 DEF OpToRel
  <1> QED
    BY <1>2

LEMMA GreatestNatural ==
    ASSUME NEW N \in Nat, NEW S, S \subseteq 0 .. N, S # {}
    PROVE  \E m \in S : \A x \in S : x <= m
  <1> DEFINE T == {N - x : x \in S}
  <1>0. \A x \in S : x \in Nat /\ N - x \in Nat
    <2>1. \A x \in 0 .. N : x \in Nat /\ N - x \in Nat
      OBVIOUS
    <2> QED
      BY <2>1
  <1>1. T \subseteq Nat /\ T # {}
    BY <1>0
  <1>2. PICK t \in T : \A y \in T : t <= y
    BY <1>1, LeastNatural
  <1>3. PICK m \in S : t = N - m
    OBVIOUS
  <1>4. \A x \in S : N - m <= N - x
    BY <1>2, <1>3
  <1> QED
    BY <1>0, <1>4

LEMMA MinAndMax ==
    ASSUME NEW N \in Nat, NEW S, S \subseteq 0 .. N, S # {}
    PROVE  /\ Min(S) \in S /\ Max(S) \in S
           /\ Min(S) \in Nat /\ Max(S) \in Nat
           /\ Min(S) <= Max(S)
  <1>0. S \subseteq Nat
    <2>1. \A x \in 0 .. N : x \in Nat
      OBVIOUS
    <2> QED
      BY <2>1
  <1>1. Min(S) \in S /\ \A x \in S : Min(S) <= x
    <2>1. \E m \in S : \A x \in S : m <= x
      BY <1>0, LeastNatural
    <2> QED
      BY <2>1 DEF Min
  <1>2. Max(S) \in S /\ \A x \in S : Max(S) >= x
    <2>1. \E m \in S : \A x \in S : x <= m
      BY GreatestNatural
    <2>2. \E m \in S : \A x \in S : m >= x
      BY <1>0, <2>1
    <2> QED
      BY <2>2 DEF Max
  <1> QED
    BY <1>0, <1>1, <1>2

LEMMA MinOfTwo ==
    ASSUME NEW a \in Nat, NEW b \in Nat
    PROVE  Min({a, b}) \in Nat /\ Min({a, b}) <= a /\ Min({a, b}) <= b
  <1>1. \E m \in {a, b} : \A x \in {a, b} : m <= x
    OBVIOUS
  <1>2. Min({a, b}) \in {a, b} /\ \A x \in {a, b} : Min({a, b}) <= x
    BY <1>1 DEF Min
  <1> QED
    BY <1>2

LEMMA DivisorIsPositive ==
    ASSUME NEW N \in Nat, NEW S, S \subseteq 0 .. N, S # {}
    PROVE  /\ Lowest(S) \in Nat
           /\ Divisor(S) \in Nat \ {0}
  <1>1. Min(S) \in Nat /\ Max(S) \in Nat /\ Min(S) <= Max(S)
    BY MinAndMax
  <1> QED
    BY <1>1 DEF Lowest, Divisor, Span

-----------------------------------------------------------------------------
(* Fusion. *)

LEMMA ScaledKeepsOrder ==
    ASSUME NEW w \in Nat, NEW d \in Nat \ {0}, NEW lo \in Int,
           NEW x \in Int, NEW y \in Int, x >= y
    PROVE  /\ w * (x - lo) * d \in Int /\ w * (y - lo) * d \in Int
           /\ w * (x - lo) * d >= w * (y - lo) * d
           /\ x > y /\ w > 0 => w * (x - lo) * d > w * (y - lo) * d
  <1>1. PICK k \in Nat : x - lo = (y - lo) + k /\ (x > y => k > 0)
    <2>1. x - y \in Nat /\ x - lo = (y - lo) + (x - y)
      OBVIOUS
    <2> QED
      BY <2>1
  <1> DEFINE z == y - lo
  <1>2. z \in Int
    OBVIOUS
  <1>3. w * (z + k) * d = w * z * d + w * k * d
    BY <1>2
  <1>4. w * k * d \in Nat /\ (k > 0 /\ w > 0 => w * k * d > 0)
    OBVIOUS
  <1>5. w * z * d \in Int
    BY <1>2
  <1> QED
    BY <1>1, <1>3, <1>4, <1>5

(* A function from candidates to their signals, as load_candidates yields. *)
Scored(c) == DOMAIN c \subseteq Files /\ c \in [DOMAIN c -> Signals]

LEMMA FusionIsTyped ==
    ASSUME NEW c, Scored(c), NEW f \in DOMAIN c
    PROVE  /\ c[f].lex \in Int /\ c[f].sem \in Int
           /\ Lowest(LexOf(c)) \in Int /\ Divisor(LexOf(c)) \in Nat \ {0}
           /\ Lowest(SemOf(c)) \in Int /\ Divisor(SemOf(c)) \in Nat \ {0}
  <1>1. \A g \in DOMAIN c : c[g].lex \in 0 .. MaxLex /\ c[g].sem \in 0 .. MaxSem
    BY DEF Scored, Signals
  <1>2. MaxLex \in Nat /\ MaxSem \in Nat
    BY RetrievalAssumption
  <1>3. LexOf(c) \subseteq 0 .. MaxLex /\ LexOf(c) # {}
    BY <1>1 DEF LexOf
  <1>4. SemOf(c) \subseteq 0 .. MaxSem /\ SemOf(c) # {}
    BY <1>1 DEF SemOf
  <1>5. Lowest(LexOf(c)) \in Nat /\ Divisor(LexOf(c)) \in Nat \ {0}
    BY <1>2, <1>3, DivisorIsPositive
  <1>6. Lowest(SemOf(c)) \in Nat /\ Divisor(SemOf(c)) \in Nat \ {0}
    BY <1>2, <1>4, DivisorIsPositive
  <1>7. c[f].lex \in Int /\ c[f].sem \in Int
    BY <1>1, <1>2
  <1> QED
    BY <1>5, <1>6, <1>7

(* f is as good as g in both signals and better in one that counts. *)
IsBetter(c, f, g) ==
    /\ c[f].lex >= c[g].lex /\ c[f].sem >= c[g].sem
    /\ (c[f].lex > c[g].lex /\ weight > 0) \/ (c[f].sem > c[g].sem /\ weight < Unit)

LEMMA FusedIsInt ==
    ASSUME weight \in 0 .. Unit, NEW c, Scored(c), NEW f \in DOMAIN c
    PROVE  Fused(c, f) \in Int
  <1>1. weight \in Nat /\ Unit - weight \in Nat
    BY RetrievalAssumption
  <1>2. /\ c[f].lex \in Int /\ c[f].sem \in Int
        /\ Lowest(LexOf(c)) \in Int /\ Divisor(LexOf(c)) \in Nat \ {0}
        /\ Lowest(SemOf(c)) \in Int /\ Divisor(SemOf(c)) \in Nat \ {0}
    BY FusionIsTyped
  <1>3. weight * (c[f].lex - Lowest(LexOf(c))) * Divisor(SemOf(c)) \in Int
    BY <1>1, <1>2
  <1>4. (Unit - weight) * (c[f].sem - Lowest(SemOf(c))) * Divisor(LexOf(c)) \in Int
    BY <1>1, <1>2
  <1> QED
    BY <1>3, <1>4 DEF Fused

LEMMA FusedIsMonotonic ==
    ASSUME weight \in 0 .. Unit, NEW c, Scored(c),
           NEW f \in DOMAIN c, NEW g \in DOMAIN c, IsBetter(c, f, g)
    PROVE  Fused(c, f) > Fused(c, g)
  <1>1. weight \in Nat /\ Unit - weight \in Nat /\ (weight < Unit => Unit - weight > 0)
    BY RetrievalAssumption
  <1>2. /\ c[f].lex \in Int /\ c[f].sem \in Int
        /\ c[g].lex \in Int /\ c[g].sem \in Int
        /\ Lowest(LexOf(c)) \in Int /\ Divisor(LexOf(c)) \in Nat \ {0}
        /\ Lowest(SemOf(c)) \in Int /\ Divisor(SemOf(c)) \in Nat \ {0}
    BY FusionIsTyped
  <1> DEFINE lexTerm(h) == weight * (c[h].lex - Lowest(LexOf(c))) * Divisor(SemOf(c))
             semTerm(h) == (Unit - weight) * (c[h].sem - Lowest(SemOf(c))) * Divisor(LexOf(c))
  <1>3. /\ lexTerm(f) \in Int /\ lexTerm(g) \in Int /\ lexTerm(f) >= lexTerm(g)
        /\ c[f].lex > c[g].lex /\ weight > 0 => lexTerm(f) > lexTerm(g)
    BY <1>1, <1>2, ScaledKeepsOrder DEF IsBetter
  <1>4. /\ semTerm(f) \in Int /\ semTerm(g) \in Int /\ semTerm(f) >= semTerm(g)
        /\ c[f].sem > c[g].sem /\ weight < Unit => semTerm(f) > semTerm(g)
    BY <1>1, <1>2, ScaledKeepsOrder DEF IsBetter
  <1>5. Fused(c, f) = lexTerm(f) + semTerm(f) /\ Fused(c, g) = lexTerm(g) + semTerm(g)
    BY DEF Fused
  <1>6. lexTerm(f) > lexTerm(g) \/ semTerm(f) > semTerm(g)
    BY <1>3, <1>4 DEF IsBetter
  <1> HIDE DEF lexTerm, semTerm
  <1> QED
    BY <1>3, <1>4, <1>5, <1>6

-----------------------------------------------------------------------------
(* Ranking. *)

LEMMA PrecedesIsAsymmetric ==
    ASSUME weight \in 0 .. Unit, NEW c, Scored(c),
           NEW f \in DOMAIN c, NEW g \in DOMAIN c, Precedes(c, f, g)
    PROVE  f # g /\ ~ (Fused(c, g) > Fused(c, f))
  <1>1. Fused(c, f) \in Int /\ Fused(c, g) \in Int
    BY FusedIsInt
  <1>2. f \in Nat /\ g \in Nat
    BY RetrievalAssumption DEF Scored
  <1> QED
    BY <1>1, <1>2 DEF Precedes

LEMMA RankingIsOnto ==
    ASSUME weight \in 0 .. Unit, NEW c, Scored(c), NEW r \in Rankings(c)
    PROVE  /\ Cardinality(DOMAIN c) \in Nat
           /\ r \in [1 .. Cardinality(DOMAIN c) -> DOMAIN c]
           /\ \A i, j \in 1 .. Cardinality(DOMAIN c) : r[i] = r[j] => i = j
           /\ \A f \in DOMAIN c : \E i \in 1 .. Cardinality(DOMAIN c) : r[i] = f
  <1> DEFINE n == Cardinality(DOMAIN c)
  <1>1. IsFiniteSet(DOMAIN c) /\ n \in Nat
    <2>1. IsFiniteSet(DOMAIN c)
      BY FS_Subset, RetrievalAssumption DEF Scored
    <2> QED
      BY <2>1, FS_CardinalityType
  <1>2. r \in [1 .. n -> DOMAIN c] /\ \A i, j \in 1 .. n : i < j => Precedes(c, r[i], r[j])
    BY DEF Rankings
  <1>3. \A i, j \in 1 .. n : i < j => r[i] # r[j]
    <2> TAKE i \in 1 .. n, j \in 1 .. n
    <2> HAVE i < j
    <2>1. Precedes(c, r[i], r[j]) /\ r[i] \in DOMAIN c /\ r[j] \in DOMAIN c
      BY <1>2
    <2> QED
      BY <2>1, PrecedesIsAsymmetric
  <1>4. \A i, j \in 1 .. n : r[i] = r[j] => i = j
    <2> TAKE i \in 1 .. n, j \in 1 .. n
    <2>1. i \in Int /\ j \in Int
      OBVIOUS
    <2>2. i < j \/ j < i \/ i = j
      BY <2>1
    <2> QED
      BY <1>3, <2>2
  <1>5. r \in Injection(1 .. n, DOMAIN c)
    BY <1>2, <1>4 DEF Injection, IsInjective
  <1>6. Cardinality(1 .. n) = n
    BY <1>1, FS_Interval
  <1>7. r \in Surjection(1 .. n, DOMAIN c)
    BY <1>1, <1>5, <1>6, FS_Injection
  <1>8. \A f \in DOMAIN c : \E i \in 1 .. n : r[i] = f
    BY <1>7 DEF Surjection
  <1> QED
    BY <1>1, <1>2, <1>4, <1>8

LEMMA CutOfRanking ==
    ASSUME limit \in Nat, weight \in 0 .. Unit, NEW c, Scored(c), NEW r \in Rankings(c)
    PROVE  /\ Cut(r) \in Seq(DOMAIN c)
           /\ Len(Cut(r)) <= limit
           /\ DOMAIN Cut(r) \subseteq 1 .. Cardinality(DOMAIN c)
           /\ \A j \in DOMAIN Cut(r), i \in 1 .. Cardinality(DOMAIN c) :
                 i < j => i \in DOMAIN Cut(r)
           /\ \A i \in DOMAIN Cut(r) : Cut(r)[i] = r[i]
  <1> DEFINE n == Cardinality(DOMAIN c)
             m == Min({limit, n})
  <1>1. n \in Nat /\ r \in [1 .. n -> DOMAIN c]
    BY RankingIsOnto
  <1> HIDE DEF n
  <1>2. r \in Seq(DOMAIN c) /\ Len(r) = n
    BY <1>1
  <1>3. m \in Nat /\ m <= limit /\ m <= n
    BY <1>1, MinOfTwo
  <1> HIDE DEF m
  <1>4. Cut(r) = SubSeq(r, 1, m)
    BY <1>2 DEF Cut, m
  <1>5. SubSeq(r, 1, m) \in Seq(DOMAIN c) /\ Len(SubSeq(r, 1, m)) = m
    BY <1>1, <1>2, <1>3
  <1>6. \A i \in 1 .. m : SubSeq(r, 1, m)[i] = r[i]
    BY <1>1, <1>2, <1>3
  <1>7. DOMAIN SubSeq(r, 1, m) = 1 .. m
    BY <1>5
  <1>8. 1 .. m \subseteq 1 .. n /\ \A j \in 1 .. m, i \in 1 .. n : i < j => i \in 1 .. m
    BY <1>1, <1>3
  <1> QED
    BY <1>3, <1>4, <1>5, <1>6, <1>7, <1>8 DEF n

(* A better candidate comes first in every ranking, however it is cut. *)
LEMMA RankingRespectsSignals ==
    ASSUME weight \in 0 .. Unit, limit \in Nat, NEW c, Scored(c), NEW r \in Rankings(c),
           NEW f \in DOMAIN c, NEW g \in DOMAIN c, IsBetter(c, f, g),
           NEW j \in DOMAIN Cut(r), Cut(r)[j] = g
    PROVE  \E i \in DOMAIN Cut(r) : i < j /\ Cut(r)[i] = f
  <1> DEFINE n == Cardinality(DOMAIN c)
  <1>1. n \in Nat /\ r \in [1 .. n -> DOMAIN c]
    BY RankingIsOnto
  <1>2. PICK i \in 1 .. n : r[i] = f
    BY RankingIsOnto
  <1>10. /\ DOMAIN Cut(r) \subseteq 1 .. n
         /\ \A h \in DOMAIN Cut(r), k \in 1 .. n : k < h => k \in DOMAIN Cut(r)
         /\ \A h \in DOMAIN Cut(r) : Cut(r)[h] = r[h]
    BY CutOfRanking
  <1> HIDE DEF n
  <1>3. j \in 1 .. n /\ r[j] = g
    BY <1>10
  <1>4. Fused(c, f) > Fused(c, g)
    BY FusedIsMonotonic
  <1>5. Fused(c, f) \in Int /\ Fused(c, g) \in Int
    BY FusedIsInt
  <1>6. i # j
    BY <1>2, <1>3, <1>4, <1>5
  <1>7. ~ (j < i)
    <2> SUFFICES ASSUME j < i PROVE FALSE
      OBVIOUS
    <2>1. Precedes(c, g, f)
      BY <1>1, <1>2, <1>3 DEF Rankings
    <2> QED
      BY <2>1, <1>4, PrecedesIsAsymmetric
  <1>8. i < j
    <2>1. i \in Int /\ j \in Int
      BY <1>1, <1>3
    <2> QED
      BY <2>1, <1>6, <1>7
  <1>9. i \in DOMAIN Cut(r) /\ Cut(r)[i] = r[i]
    BY <1>10, <1>8
  <1> QED
    BY <1>2, <1>8, <1>9

-----------------------------------------------------------------------------
(* Types. *)

LEMMA LimitsAreNatural == Limits \subseteq Nat
  BY RetrievalAssumption

LEMMA LabelsAreTyped ==
    /\ "idle" \in PCs /\ "fts_search" \in PCs /\ "list_file_ids" \in PCs
    /\ "load_candidates" \in PCs
  BY DEF PCs

LEMMA InitTyped == Init => TypeOK
  <1> SUFFICES ASSUME Init PROVE TypeOK
    OBVIOUS
  <1>1. candidates = << >> /\ hits = << >> /\ DOMAIN candidates = {}
    BY DEF Init
  <1>2. candidates \in [DOMAIN candidates -> Signals] /\ hits \in Seq(DOMAIN candidates)
    BY <1>1
  <1>3. limit \in Nat /\ Len(hits) = 0 /\ DOMAIN hits = {}
    BY <1>1, LimitsAreNatural DEF Init
  <1>4. Len(hits) <= limit /\ \A i, j \in DOMAIN hits : hits[i] = hits[j] => i = j
    BY <1>3
  <1>5. lexById \in [Files -> 0 .. MaxLex] /\ commits \in 0 .. MaxCommits
    BY RetrievalAssumption DEF Init
  <1> QED
    BY <1>1, <1>2, <1>4, <1>5, LabelsAreTyped DEF Init, TypeOK

LEMMA CommitTyped ==
    ASSUME TypeOK, Commit, index' \in [Files -> Rows \cup {NoRow}]
    PROVE  TypeOK'
  <1>1. commits' \in 0 .. MaxCommits
    BY RetrievalAssumption DEF TypeOK, Commit
  <1>2. ahead' \subseteq Files \X Files
    BY DEF TypeOK, Commit
  <1> QED
    BY <1>1, <1>2 DEF TypeOK, Commit, reply

LEMMA LoadedIsScored ==
    ASSUME TypeOK, NEW vector \in BOOLEAN
    PROVE  /\ Scored(Candidates(LoadedRows, vector))
           /\ DOMAIN Candidates(LoadedRows, vector) = LoadedRows
           /\ LoadedRows \subseteq Files
  <1>1. LoadedRows \subseteq Files
    BY DEF TypeOK, LoadedRows
  <1>2. \A f \in LoadedRows : lexById[f] \in 0 .. MaxLex
    BY <1>1 DEF TypeOK
  <1>3. 0 \in 0 .. MaxSem
    BY RetrievalAssumption
  <1>4. \A f \in LoadedRows : index[f].sem \in 0 .. MaxSem
    <2> TAKE f \in LoadedRows
    <2>1. index[f] \in Rows
      BY <1>1 DEF TypeOK, LoadedRows, Indexed
    <2> QED
      BY <2>1 DEF Rows
  <1> QED
    BY <1>1, <1>2, <1>3, <1>4 DEF Candidates, Scored, Signals

(* The last branch of LoadCandidates: a ranking is returned. *)
Ranked(vector, ranking) ==
    /\ candidates' = Candidates(LoadedRows, vector)
    /\ ranking \in Rankings(candidates')
    /\ hits' = Cut(ranking)
    /\ embedded' = vector
    /\ outcome' = "hits"

LEMMA LoadCandidatesCases ==
    ASSUME LoadCandidates
    PROVE  /\ pc = "load_candidates" /\ pc' = "idle" /\ ids' = {}
           /\ UNCHANGED <<index, weight, limit, lexById, commits, ahead>>
           /\ \/ outcome' \in {"hits", "raises"} /\ UNCHANGED reply
              \/ \E vector \in BOOLEAN : \E ranking : Ranked(vector, ranking)
  BY DEF LoadCandidates, End, QueryVector, Ranked

LEMMA RankedTyped ==
    ASSUME TypeOK, NEW vector \in BOOLEAN, NEW ranking, Ranked(vector, ranking)
    PROVE  /\ Scored(candidates') /\ ranking \in Rankings(candidates')
           /\ hits' \in Seq(DOMAIN candidates') /\ Len(hits') <= limit
           /\ \A i, j \in DOMAIN hits' : hits'[i] = hits'[j] => i = j
  <1> DEFINE c == Candidates(LoadedRows, vector)
             n == Cardinality(DOMAIN c)
  <1>1. Scored(c) /\ c = candidates' /\ ranking \in Rankings(c) /\ hits' = Cut(ranking)
    BY LoadedIsScored DEF Ranked
  <1>2. weight \in 0 .. Unit /\ limit \in Nat
    BY LimitsAreNatural DEF TypeOK
  <1> HIDE DEF c
  <1>3. /\ n \in Nat /\ ranking \in [1 .. n -> DOMAIN c]
        /\ \A i, j \in 1 .. n : ranking[i] = ranking[j] => i = j
    BY <1>1, <1>2, RankingIsOnto
  <1>4. /\ Cut(ranking) \in Seq(DOMAIN c) /\ Len(Cut(ranking)) <= limit
        /\ DOMAIN Cut(ranking) \subseteq 1 .. n
        /\ \A i \in DOMAIN Cut(ranking) : Cut(ranking)[i] = ranking[i]
    BY <1>1, <1>2, CutOfRanking
  <1>5. \A i, j \in DOMAIN Cut(ranking) : Cut(ranking)[i] = Cut(ranking)[j] => i = j
    BY <1>3, <1>4
  <1> QED
    BY <1>1, <1>4, <1>5

LEMMA LoadCandidatesTyped == TypeOK /\ LoadCandidates => TypeOK'
  <1> SUFFICES ASSUME TypeOK, LoadCandidates PROVE TypeOK'
    OBVIOUS
  <1>1. /\ pc' = "idle" /\ ids' = {}
        /\ UNCHANGED <<index, weight, limit, lexById, commits, ahead>>
    BY LoadCandidatesCases
  <1>2. CASE outcome' \in {"hits", "raises"} /\ UNCHANGED reply
    BY <1>1, <1>2, LabelsAreTyped DEF TypeOK, reply
  <1>3. CASE \E vector \in BOOLEAN : \E ranking : Ranked(vector, ranking)
    <2>0. PICK vector \in BOOLEAN : \E ranking : Ranked(vector, ranking)
      BY <1>3
    <2>1. PICK ranking : Ranked(vector, ranking)
      BY <2>0
    <2>2. /\ Scored(candidates') /\ hits' \in Seq(DOMAIN candidates') /\ Len(hits') <= limit
          /\ \A i, j \in DOMAIN hits' : hits'[i] = hits'[j] => i = j
      BY <2>1, RankedTyped
    <2>3. embedded' \in BOOLEAN /\ outcome' = "hits"
      BY <2>1 DEF Ranked
    <2> QED
      BY <1>1, <2>2, <2>3, LabelsAreTyped DEF TypeOK, Scored
  <1> QED
    BY <1>2, <1>3, LoadCandidatesCases

LEMMA NextTyped == TypeOK /\ [Next]_vars => TypeOK'
  <1> SUFFICES ASSUME TypeOK, [Next]_vars PROVE TypeOK'
    OBVIOUS
  <1>1. ASSUME NEW f \in Files, UpsertDocument(f) PROVE TypeOK'
    <2>1. index' \in [Files -> Rows \cup {NoRow}]
      BY <1>1 DEF TypeOK, UpsertDocument
    <2> QED
      BY <1>1, <2>1, CommitTyped DEF UpsertDocument
  <1>2. ASSUME NEW orphans \in (SUBSET Files) \ {{}}, DeleteDocuments(orphans) PROVE TypeOK'
    <2>1. index' \in [Files -> Rows \cup {NoRow}]
      BY <1>2 DEF TypeOK, DeleteDocuments
    <2> QED
      BY <1>2, <2>1, CommitTyped DEF DeleteDocuments
  <1>3. CASE Search
    <2>1. candidates' = << >> /\ hits' = << >> /\ DOMAIN candidates' = {}
      BY <1>3 DEF Search
    <2>2. /\ candidates' \in [DOMAIN candidates' -> Signals] /\ DOMAIN candidates' \subseteq Files
          /\ hits' \in Seq(DOMAIN candidates') /\ Len(hits') = 0 /\ DOMAIN hits' = {}
      BY <2>1
    <2>3. lexById' \in [Files -> 0 .. MaxLex] /\ commits' \in 0 .. MaxCommits
      BY <1>3, RetrievalAssumption DEF Search
    <2>4. ahead' \subseteq Files \X Files
      BY <1>3 DEF Search, Better, Indexed
    <2>5. limit' \in Limits /\ Len(hits') <= limit'
      BY <1>3, <2>2, LimitsAreNatural DEF Search
    <2>6. pc' \in PCs /\ outcome' \in {"none", "hits", "raises"} /\ embedded' \in BOOLEAN /\ ids' = {}
      BY <1>3, LabelsAreTyped DEF Search
    <2> QED
      BY <1>3, <2>2, <2>3, <2>4, <2>5, <2>6 DEF TypeOK, Search
  <1>4. CASE FtsSearch
    <2>1. PICK found \in SUBSET Matches :
            /\ lexById' = [f \in Files |-> IF f \in found THEN index[f].lex ELSE 0]
            /\ ids' = found
            /\ Goto(IF found = {} THEN "list_file_ids" ELSE "load_candidates")
      BY <1>4 DEF FtsSearch
    <2>2. \A f \in Files : index[f].lex \in 0 .. MaxLex
      BY RetrievalAssumption DEF TypeOK, Rows, NoRow
    <2>3. lexById' \in [Files -> 0 .. MaxLex]
      BY <2>1, <2>2, RetrievalAssumption
    <2>4. ids' \subseteq Files
      BY <2>1 DEF Matches
    <2>5. pc' \in PCs /\ UNCHANGED outcome
      BY <2>1, LabelsAreTyped DEF Goto
    <2> QED
      BY <1>4, <2>3, <2>4, <2>5 DEF TypeOK, FtsSearch, reply
  <1>5. CASE ListFileIds
    <2>1. ids' \subseteq Files
      BY <1>5 DEF ListFileIds, Indexed
    <2>2. pc' \in PCs /\ outcome' \in {"none", "hits", "raises"}
      BY <1>5, LabelsAreTyped DEF TypeOK, ListFileIds, Goto, End
    <2> QED
      BY <1>5, <2>1, <2>2 DEF TypeOK, ListFileIds, reply
  <1>6. CASE LoadCandidates
    BY <1>6, LoadCandidatesTyped
  <1>7. CASE ReadFails
    BY <1>7, LabelsAreTyped DEF TypeOK, ReadFails, End, reply
  <1>8. CASE UNCHANGED vars
    BY <1>8 DEF TypeOK, vars, reply
  <1> QED
    BY <1>1, <1>2, <1>3, <1>4, <1>5, <1>6, <1>7, <1>8 DEF Next

(***************************************************************************)
(* The variables keep their types, and a search returns no more hits than  *)
(* it was asked for and none of them twice.                                *)
(***************************************************************************)
THEOREM TypeCorrect == Spec => []TypeOK
  <1> QED
    BY InitTyped, NextTyped, PTL DEF Spec

-----------------------------------------------------------------------------
(* The ranking respects both signals. *)

NoLex == \A f \in Files : lexById[f] = 0

(***************************************************************************)
(* What a search has read of two files that were ahead of one another all  *)
(* along: the better one is asked for too, with a better score if any.     *)
(***************************************************************************)
AheadIsAsked ==
    \A p \in ahead : p[2] \in ids =>
        p[1] \in ids /\ (NoLex \/ lexById[p[1]] > lexById[p[2]])

SearchInv ==
    /\ pc # "idle" => hits = << >> /\ DOMAIN candidates = {} /\ ahead \subseteq Better(index)
    /\ pc \in {"fts_search", "list_file_ids"} => NoLex
    /\ pc = "load_candidates" => AheadIsAsked
    /\ DominanceRespected
    /\ AheadIsListedFirst

LEMMA BetterIsMeant ==
    ASSUME NEW p \in Better(index)
    PROVE  /\ p[1] \in Indexed(index) /\ p[2] \in Indexed(index)
           /\ index[p[1]].lex > index[p[2]].lex /\ index[p[1]].sem > index[p[2]].sem
  BY DEF Better

LEMMA DominatesIsBetter ==
    ASSUME NEW f, NEW g
    PROVE  Dominates(f, g) <=> IsBetter(candidates, f, g)
  BY DEF Dominates, IsBetter

(* Nothing is out of order while nothing is listed. *)
LEMMA NothingListed ==
    ASSUME hits' = << >>
    PROVE  DominanceRespected' /\ AheadIsListedFirst'
  <1>1. DOMAIN hits' = {}
    OBVIOUS
  <1> QED
    BY <1>1 DEF DominanceRespected, AheadIsListedFirst, ListedBefore

LEMMA CommitKeepsSearchInv ==
    ASSUME TypeOK, SearchInv, Commit
    PROVE  SearchInv'
  <1>1. /\ pc # "idle" /\ ahead' = ahead \cap Better(index')
        /\ UNCHANGED <<weight, pc, limit, lexById, ids, candidates, embedded, hits>>
    BY DEF Commit, reply
  <1>2. hits' = << >> /\ DOMAIN candidates' = {} /\ ahead' \subseteq Better(index)'
    BY <1>1 DEF SearchInv, Better, Indexed
  <1>3. pc' \in {"fts_search", "list_file_ids"} => NoLex'
    BY <1>1 DEF SearchInv, NoLex
  <1>4. pc' = "load_candidates" => AheadIsAsked'
    BY <1>1 DEF SearchInv, AheadIsAsked, NoLex
  <1> QED
    BY <1>2, <1>3, <1>4, NothingListed DEF SearchInv

LEMMA FtsSearchKeepsSearchInv ==
    ASSUME TypeOK, SearchInv, FtsSearch
    PROVE  SearchInv'
  <1>1. PICK found \in SUBSET Matches :
          /\ IsTop(found) \/ found = {}
          /\ lexById' = [f \in Files |-> IF f \in found THEN index[f].lex ELSE 0]
          /\ ids' = found
          /\ Goto(IF found = {} THEN "list_file_ids" ELSE "load_candidates")
    BY DEF FtsSearch
  <1>2. pc = "fts_search" /\ UNCHANGED <<index, hits, candidates, ahead>>
    BY DEF FtsSearch, reply
  <1>3. hits' = << >> /\ DOMAIN candidates' = {} /\ ahead' \subseteq Better(index)'
    BY <1>2 DEF SearchInv, Better, Indexed
  <1>4. pc' \in {"fts_search", "list_file_ids"} => NoLex'
    BY <1>1 DEF Goto, NoLex
  <1>5. ASSUME pc' = "load_candidates" PROVE AheadIsAsked'
    <2>1. IsTop(found)
      BY <1>1, <1>5 DEF Goto
    <2> SUFFICES ASSUME NEW p \in ahead, p[2] \in found
                 PROVE  p[1] \in found /\ lexById'[p[1]] > lexById'[p[2]]
      BY <1>1, <1>2 DEF AheadIsAsked
    <2>2. /\ p[1] \in Files /\ p[2] \in Files
          /\ index[p[1]].lex > index[p[2]].lex
      BY <1>2, BetterIsMeant DEF SearchInv, Indexed
    <2>3. \A f \in Files : index[f].lex \in Int
      <3>1. index \in [Files -> Rows \cup {NoRow}]
        BY DEF TypeOK
      <3>2. \A row \in Rows \cup {NoRow} : row.lex \in Int
        BY DEF Rows, NoRow
      <3> QED
        BY <3>1, <3>2
    <2>4. p[1] \in Matches
      BY <2>2, <2>3 DEF Matches
    <2>5. p[1] \in found
      BY <2>1, <2>2, <2>3, <2>4 DEF IsTop
    <2> QED
      BY <1>1, <2>2, <2>5
  <1> QED
    BY <1>3, <1>4, <1>5, NothingListed DEF SearchInv

LEMMA ListFileIdsKeepsSearchInv ==
    ASSUME TypeOK, SearchInv, ListFileIds
    PROVE  SearchInv'
  <1>1. /\ pc = "list_file_ids" /\ ids' = Indexed(index)
        /\ UNCHANGED <<index, lexById, hits, candidates, ahead>>
        /\ pc' \in {"idle", "load_candidates"}
    BY DEF ListFileIds, reply, Goto, End
  <1>2. hits' = << >> /\ DOMAIN candidates' = {} /\ ahead' \subseteq Better(index)'
    BY <1>1 DEF SearchInv, Better, Indexed
  <1>3. NoLex'
    BY <1>1 DEF SearchInv, NoLex
  <1>4. AheadIsAsked'
    <2>1. \A p \in ahead : p[1] \in Indexed(index)
      BY <1>1, BetterIsMeant DEF SearchInv
    <2> QED
      BY <1>1, <1>3, <2>1 DEF AheadIsAsked
  <1> QED
    BY <1>1, <1>2, <1>3, <1>4, NothingListed DEF SearchInv

(* The ranking that is returned lists a better candidate first. *)
LEMMA RankedRespectsSignals ==
    ASSUME TypeOK, NEW vector \in BOOLEAN, NEW ranking, Ranked(vector, ranking),
           UNCHANGED <<weight, limit>>,
           NEW f \in DOMAIN candidates', NEW g \in DOMAIN candidates',
           IsBetter(candidates', f, g)
    PROVE  ListedBefore(f, g)'
  <1>1. Scored(candidates') /\ ranking \in Rankings(candidates') /\ hits' = Cut(ranking)
    BY RankedTyped DEF Ranked
  <1>2. weight \in 0 .. Unit /\ limit \in Nat
    BY LimitsAreNatural DEF TypeOK
  <1>3. \A j \in DOMAIN Cut(ranking) : Cut(ranking)[j] = g =>
            \E i \in DOMAIN Cut(ranking) : i < j /\ Cut(ranking)[i] = f
    BY <1>1, <1>2, RankingRespectsSignals
  <1> QED
    BY <1>1, <1>3 DEF ListedBefore

LEMMA LoadCandidatesKeepsSearchInv ==
    ASSUME TypeOK, SearchInv, LoadCandidates
    PROVE  SearchInv'
  <1>1. /\ pc = "load_candidates" /\ pc' = "idle"
        /\ UNCHANGED <<index, weight, limit, lexById, commits, ahead>>
    BY LoadCandidatesCases
  <1>2. CASE outcome' \in {"hits", "raises"} /\ UNCHANGED reply
    <2>1. hits' = << >>
      BY <1>1, <1>2 DEF SearchInv, reply
    <2> QED
      BY <1>1, <2>1, NothingListed DEF SearchInv
  <1>3. CASE \E vector \in BOOLEAN : \E ranking : Ranked(vector, ranking)
    <2>0. PICK vector \in BOOLEAN : \E ranking : Ranked(vector, ranking)
      BY <1>3
    <2>1. PICK ranking : Ranked(vector, ranking)
      BY <2>0
    <2>2. DominanceRespected'
      <3> SUFFICES ASSUME NEW f \in DOMAIN candidates', NEW g \in DOMAIN candidates',
                          Dominates(f, g)'
                   PROVE  ListedBefore(f, g)'
        BY DEF DominanceRespected
      <3>1. IsBetter(candidates', f, g)
        BY <1>1 DEF Dominates, IsBetter
      <3> QED
        BY <1>1, <2>1, <3>1, RankedRespectsSignals
    <2>3. AheadIsListedFirst'
      <3> SUFFICES ASSUME SomeSignal', NEW p \in ahead
                   PROVE  ListedBefore(p[1], p[2])'
        BY <1>1 DEF AheadIsListedFirst
      <3> DEFINE f == p[1]
                 g == p[2]
      <3>1. /\ f \in Indexed(index) /\ g \in Indexed(index)
            /\ index[f].lex > index[g].lex /\ index[f].sem > index[g].sem
        BY <1>1, BetterIsMeant DEF SearchInv
      <3>2. candidates' = Candidates(LoadedRows, vector) /\ embedded' = vector
        BY <2>1 DEF Ranked
      <3>3. DOMAIN candidates' = LoadedRows
        BY <3>2, LoadedIsScored
      <3>4. CASE g \notin LoadedRows
        <4>1. hits' \in Seq(DOMAIN candidates')
          BY <2>1, RankedTyped
        <4>2. \A j \in DOMAIN hits' : hits'[j] # g
          BY <3>3, <3>4, <4>1
        <4> QED
          BY <4>2 DEF ListedBefore
      <3>5. CASE g \in LoadedRows
        <4>1. f \in LoadedRows /\ (NoLex \/ lexById[f] > lexById[g])
          BY <1>1, <3>1, <3>5 DEF SearchInv, AheadIsAsked, LoadedRows
        <4>2. /\ candidates'[f].lex = lexById[f] /\ candidates'[g].lex = lexById[g]
              /\ candidates'[f].sem = IF vector THEN index[f].sem ELSE 0
              /\ candidates'[g].sem = IF vector THEN index[g].sem ELSE 0
          BY <3>2, <3>5, <4>1 DEF Candidates
        <4>3. /\ f \in Files /\ g \in Files
              /\ lexById[f] \in Int /\ lexById[g] \in Int
              /\ weight \in Int
          <5>1. f \in Files /\ g \in Files
            BY <3>1 DEF Indexed
          <5>2. lexById \in [Files -> 0 .. MaxLex] /\ weight \in 0 .. Unit
            BY DEF TypeOK
          <5>3. \A h \in Files : lexById[h] \in Int
            BY <5>2
          <5> QED
            BY <5>1, <5>2, <5>3
        <4>4. index[f].sem \in Int /\ index[g].sem \in Int
          <5>1. index[f] \in Rows /\ index[g] \in Rows
            BY <3>1, <4>3 DEF TypeOK, Indexed
          <5> QED
            BY <5>1 DEF Rows
        <4>5. \/ weight > 0 /\ ~ NoLex
              \/ weight < Unit /\ vector
          <5>1. lexById' = lexById /\ weight' = weight
            BY <1>1
          <5>2. \A h \in Files : lexById[h] > 0 => ~ NoLex
            BY DEF NoLex
          <5> QED
            BY <3>2, <5>1, <5>2 DEF SomeSignal
        <4>6. NoLex => lexById[f] = 0 /\ lexById[g] = 0
          BY <4>3 DEF NoLex
        <4>7. IsBetter(candidates', f, g)
          <5>1. candidates'[f].lex >= candidates'[g].lex
            BY <4>1, <4>2, <4>3, <4>6
          <5>2. candidates'[f].sem >= candidates'[g].sem /\ (vector => candidates'[f].sem > candidates'[g].sem)
            BY <3>1, <4>2, <4>4
          <5>3. ~ NoLex => candidates'[f].lex > candidates'[g].lex
            BY <4>1, <4>2
          <5> QED
            BY <4>5, <5>1, <5>2, <5>3 DEF IsBetter
        <4> QED
          BY <1>1, <2>1, <3>3, <3>5, <4>1, <4>7, RankedRespectsSignals
      <3> QED
        BY <3>4, <3>5
    <2> QED
      BY <1>1, <2>2, <2>3 DEF SearchInv
  <1> QED
    BY <1>2, <1>3, LoadCandidatesCases

LEMMA InitSearchInv == Init => SearchInv
  <1> SUFFICES ASSUME Init PROVE SearchInv
    OBVIOUS
  <1>1. pc = "idle" /\ DOMAIN hits = {}
    BY DEF Init
  <1>2. DominanceRespected /\ AheadIsListedFirst
    BY <1>1 DEF DominanceRespected, AheadIsListedFirst, ListedBefore
  <1> QED
    BY <1>1, <1>2 DEF SearchInv

LEMMA NextKeepsSearchInv == TypeOK /\ SearchInv /\ [Next]_vars => SearchInv'
  <1> SUFFICES ASSUME TypeOK, SearchInv, [Next]_vars PROVE SearchInv'
    OBVIOUS
  <1>1. ASSUME NEW f \in Files, UpsertDocument(f) PROVE SearchInv'
    BY <1>1, CommitKeepsSearchInv DEF UpsertDocument
  <1>2. ASSUME NEW orphans \in (SUBSET Files) \ {{}}, DeleteDocuments(orphans) PROVE SearchInv'
    BY <1>2, CommitKeepsSearchInv DEF DeleteDocuments
  <1>3. CASE Search
    <2>1. /\ hits' = << >> /\ DOMAIN candidates' = {}
          /\ pc' \in {"fts_search", "list_file_ids"} /\ ahead' = Better(index)
      BY <1>3 DEF Search
    <2>2. NoLex'
      BY <1>3 DEF Search, NoLex
    <2>3. Better(index)' = Better(index)
      BY <1>3 DEF Search, Better, Indexed
    <2> QED
      BY <2>1, <2>2, <2>3, NothingListed DEF SearchInv
  <1>4. CASE FtsSearch
    BY <1>4, FtsSearchKeepsSearchInv
  <1>5. CASE ListFileIds
    BY <1>5, ListFileIdsKeepsSearchInv
  <1>6. CASE LoadCandidates
    BY <1>6, LoadCandidatesKeepsSearchInv
  <1>7. CASE ReadFails
    <2>1. pc' = "idle" /\ hits' = << >>
      BY <1>7 DEF ReadFails, End, reply, SearchInv
    <2> QED
      BY <2>1, NothingListed DEF SearchInv
  <1>8. CASE UNCHANGED vars
    <2>1. /\ DominanceRespected' /\ AheadIsListedFirst'
      BY <1>8 DEF SearchInv, vars, reply, DominanceRespected, AheadIsListedFirst,
                  Dominates, ListedBefore, SomeSignal
    <2>2. /\ NoLex' <=> NoLex
          /\ AheadIsAsked' <=> AheadIsAsked
          /\ Better(index)' = Better(index)
      BY <1>8 DEF vars, reply, NoLex, AheadIsAsked, Better, Indexed
    <2> QED
      BY <1>8, <2>1, <2>2 DEF SearchInv, vars, reply
  <1> QED
    BY <1>1, <1>2, <1>3, <1>4, <1>5, <1>6, <1>7, <1>8 DEF Next

(***************************************************************************)
(* For every weight, every scale of the two signals and any number of      *)
(* candidates, one that is as good in both and better in one that counts   *)
(* is listed first.                                                        *)
(***************************************************************************)
THEOREM SignalsAreRespected == Spec => []DominanceRespected
  <1>1. SearchInv => DominanceRespected
    BY DEF SearchInv
  <1> QED
    BY InitTyped, NextTyped, InitSearchInv, NextKeepsSearchInv, <1>1, PTL DEF Spec

(***************************************************************************)
(* No commit of another process between the reads of a search, and no cut  *)
(* of the full-text hits, puts a file after one that was worse in both     *)
(* signals all along.                                                      *)
(***************************************************************************)
THEOREM AheadStaysAhead == Spec => []AheadIsListedFirst
  <1>1. SearchInv => AheadIsListedFirst
    BY DEF SearchInv
  <1> QED
    BY InitTyped, NextTyped, InitSearchInv, NextKeepsSearchInv, <1>1, PTL DEF Spec
-----------------------------------------------------------------------------
(***************************************************************************)
(* Where the commits come from.  The syncs of other processes write the    *)
(* table of KnowledgeIndex (KnowledgeSync implements that); a query sees   *)
(* of each row there its score, its similarity and the length of its       *)
(* vector, and nothing of a file without a row.                            *)
(***************************************************************************)
CONSTANTS
    SyncRows,   \* what a sync writes for a file
    Absent,     \* what stands for a file that is not indexed
    View        \* per file, what the query sees of a row

VARIABLE table

Syncs == INSTANCE KnowledgeIndex WITH Rows <- SyncRows, NoRow <- Absent, rows <- table

ViewIsTyped ==
    \A f \in Files : /\ View[f][Absent] = NoRow
                     /\ \A row \in SyncRows : View[f][row] \in Rows

Seen == index = [f \in Files |-> View[f][table[f]]]

(***************************************************************************)
(* Whatever a query makes of the rows: a step of the index that is one of  *)
(* KnowledgeIndex, and so every step of any syncs, is to a search in       *)
(* progress one of the commits it is proved to stand, or nothing at all.   *)
(***************************************************************************)
THEOREM SyncsAreSeenAsCommits ==
  ASSUME ViewIsTyped, table \in [Files -> SyncRows \cup {Absent}],
         Syncs!Next, Seen, Seen', Commit
  PROVE  \/ \E f \in Files : UpsertDocument(f)
         \/ \E orphans \in (SUBSET Files) \ {{}} : DeleteDocuments(orphans)
         \/ UNCHANGED index
  <1>1. ASSUME NEW g \in Files, Syncs!UpsertDocument(g)
        PROVE  \E f \in Files : UpsertDocument(f)
    <2>1. PICK row \in SyncRows : table' = [table EXCEPT ![g] = row]
      BY <1>1 DEF Syncs!UpsertDocument
    <2>2. index' = [index EXCEPT ![g] = View[g][row]]
      BY <2>1 DEF Seen
    <2>3. UpsertDocument(g)
      BY <2>2 DEF UpsertDocument, ViewIsTyped
    <2> QED  BY <2>3
  <1>2. ASSUME NEW gone \in SUBSET Files, Syncs!DeleteDocuments(gone)
        PROVE  \/ \E orphans \in (SUBSET Files) \ {{}} : DeleteDocuments(orphans)
               \/ UNCHANGED index
    <2>1. \A f \in Files : table'[f] = IF f \in gone THEN Absent ELSE table[f]
      BY <1>2 DEF Syncs!DeleteDocuments
    <2>2. index' = [f \in Files |-> IF f \in gone THEN NoRow ELSE index[f]]
      <3>1. \A f \in Files : View[f][table'[f]] = IF f \in gone THEN NoRow ELSE index[f]
        BY <2>1 DEF Seen, ViewIsTyped
      <3> QED  BY <3>1 DEF Seen
    <2>3. CASE gone = {}
      <3>1. \A f \in Files : View[f][table'[f]] = View[f][table[f]]
        BY <2>1, <2>3
      <3> QED  BY <3>1 DEF Seen
    <2>4. CASE gone # {}
      BY <2>2, <2>4 DEF DeleteDocuments
    <2> QED  BY <2>3, <2>4
  <1> QED  BY <1>1, <1>2 DEF Syncs!Next

=============================================================================
