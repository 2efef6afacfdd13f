--------------------------- MODULE Listing_proofs ---------------------------
(***************************************************************************)
(* Proofs about Listing, for any ids, stamps and page sizes: types, what a *)
(* walk may miss, what it may be given again, and how far the total of a   *)
(* reply is from its page.                                                 *)
(*                                                                         *)
(* The rank of a row is the number of newer ones.  The ranks of a listing  *)
(* are all the numbers below its size (RanksAreAll), so a page by limit    *)
(* and offset is what it should be (PageOfSlice); and a row that comes or  *)
(* leaves changes any other's rank by one at most (RankAfterOneMore), so   *)
(* it moves at most one row across the boundary the walk has reached.      *)
(* SkipInv, RepeatInv and TotalInv count what has been moved.              *)
(***************************************************************************)
EXTENDS Listing, FunctionTheorems, FiniteSetTheorems, TLAPS

-----------------------------------------------------------------------------
(* Ranks: where a row stands in a listing, and what a page of it holds. *)

Sortable(S) ==
    /\ IsFiniteSet(S)
    /\ S \subseteq Rows
    /\ \A a, b \in S : a.id = b.id => a = b

Above(S, r)  == {s \in S : Newer(s, r)}
RankIn(S, r) == Cardinality(Above(S, r))

LEMMA RowsAreTyped ==
  \A r \in Rows : r.id \in Nat /\ r.at \in Nat /\ r.chat \in {Chats} \cup ChatIds
  BY ListingAssumption DEF Rows

LEMMA NewerIsAnOrder ==
  /\ \A a \in Rows : ~Newer(a, a)
  /\ \A a, b, c \in Rows : Newer(a, b) /\ Newer(b, c) => Newer(a, c)
  /\ \A a, b \in Rows : a.id # b.id => Newer(a, b) \/ Newer(b, a)
  BY RowsAreTyped DEF Newer

LEMMA RankIsNat ==
  ASSUME NEW S, IsFiniteSet(S), NEW r
  PROVE  IsFiniteSet(Above(S, r)) /\ RankIn(S, r) \in Nat
  <1>1. Above(S, r) \in SUBSET S
    BY DEF Above
  <1>2. IsFiniteSet(Above(S, r))
    BY <1>1, FS_Subset
  <1> QED  BY <1>2, FS_CardinalityType DEF RankIn

LEMMA RankGrows ==
  ASSUME NEW S, Sortable(S), NEW a \in S, NEW b \in S, Newer(a, b)
  PROVE  RankIn(S, a) < RankIn(S, b)
  <1>1. IsFiniteSet(Above(S, a)) /\ IsFiniteSet(Above(S, b))
        /\ RankIn(S, a) \in Nat /\ RankIn(S, b) \in Nat
    BY RankIsNat DEF Sortable
  <1>2. a \notin Above(S, a) /\ Above(S, a) \cup {a} \in SUBSET Above(S, b)
    BY NewerIsAnOrder DEF Above, Sortable
  <1>3. Cardinality(Above(S, a) \cup {a}) = RankIn(S, a) + 1
    BY <1>1, <1>2, FS_AddElement DEF RankIn
  <1>4. Cardinality(Above(S, a) \cup {a}) <= RankIn(S, b)
    BY <1>1, <1>2, FS_Subset DEF RankIn
  <1> QED  BY <1>1, <1>3, <1>4

LEMMA RanksDiffer ==
  ASSUME NEW S, Sortable(S), NEW a \in S, NEW b \in S, RankIn(S, a) = RankIn(S, b)
  PROVE  a = b
  <1> SUFFICES ASSUME a # b PROVE FALSE
    OBVIOUS
  <1>1. Newer(a, b) \/ Newer(b, a)
    BY NewerIsAnOrder DEF Sortable
  <1>2. RankIn(S, a) < RankIn(S, b) \/ RankIn(S, b) < RankIn(S, a)
    BY <1>1, RankGrows
  <1>3. RankIn(S, a) \in Nat
    BY RankIsNat DEF Sortable
  <1> QED  BY <1>2, <1>3

LEMMA RankIsBelowSize ==
  ASSUME NEW S, Sortable(S), NEW r \in S
  PROVE  RankIn(S, r) \in 0 .. Cardinality(S) - 1
  <1>1. IsFiniteSet(S) /\ IsFiniteSet(S \ {r}) /\ Cardinality(S \ {r}) = Cardinality(S) - 1
        /\ Cardinality(S) \in Nat
    BY FS_RemoveElement, FS_CardinalityType DEF Sortable
  <1>2. Above(S, r) \in SUBSET (S \ {r})
    BY NewerIsAnOrder DEF Above, Sortable
  <1>3. RankIn(S, r) <= Cardinality(S \ {r}) /\ RankIn(S, r) \in Nat
    BY <1>1, <1>2, FS_Subset, RankIsNat DEF RankIn
  <1> QED  BY <1>1, <1>3

(* Every rank below the size of a listing is that of one of its rows. *)
LEMMA RanksAreAll ==
  ASSUME NEW S, Sortable(S), NEW n \in 0 .. Cardinality(S) - 1
  PROVE  \E r \in S : RankIn(S, r) = n
  <1> DEFINE N == 0 .. Cardinality(S) - 1
             f == [r \in S |-> RankIn(S, r)]
  <1>1. IsFiniteSet(S) /\ Cardinality(S) \in Nat
    BY FS_CardinalityType DEF Sortable
  <1>2. IsFiniteSet(N) /\ Cardinality(N) = Cardinality(S)
    BY <1>1, FS_Interval
  <1>3. f \in [S -> N]
    BY RankIsBelowSize
  <1>4. f \in Injection(S, N)
    <2>1. \A a, b \in S : f[a] = f[b] => a = b
      BY RanksDiffer
    <2> QED  BY <1>3, <2>1, Fun_IsInj
  <1>5. f \in Surjection(S, N)
    BY <1>2, <1>4, FS_Injection
  <1>6. n \in N
    OBVIOUS
  <1>7. PICK r \in S : f[r] = n
    <2> HIDE DEF f, N
    <2> QED  BY <1>5, <1>6 DEF Surjection
  <1> QED  BY <1>7

(* The rows with the ranks a, a + 1, ..., b - 1. *)
Slice(S, a, b) == {r \in S : a <= RankIn(S, r) /\ RankIn(S, r) < b}

LEMMA SliceSize ==
  ASSUME NEW S, Sortable(S), NEW a \in Nat, NEW b \in Nat, a <= b, b <= Cardinality(S)
  PROVE  IsFiniteSet(Slice(S, a, b)) /\ Cardinality(Slice(S, a, b)) = b - a
  <1> DEFINE N == a .. b - 1
             f == [r \in Slice(S, a, b) |-> RankIn(S, r)]
  <1>1. IsFiniteSet(S) /\ Cardinality(S) \in Nat
    BY FS_CardinalityType DEF Sortable
  <1>2. IsFiniteSet(N) /\ Cardinality(N) = b - a
    <2>1. a \in Int /\ b - 1 \in Int
      OBVIOUS
    <2>2. IsFiniteSet(N) /\ Cardinality(N) = IF a > b - 1 THEN 0 ELSE b - 1 - a + 1
      BY <2>1, FS_Interval
    <2> QED  BY <2>2
  <1>3. f \in [Slice(S, a, b) -> N]
    BY <1>1, RankIsNat DEF Slice
  <1>4. f \in Injection(Slice(S, a, b), N)
    <2>1. \A x, y \in Slice(S, a, b) : f[x] = f[y] => x = y
      BY RanksDiffer DEF Slice
    <2> QED  BY <1>3, <2>1, Fun_IsInj
  <1>5. \A n \in N : \E r \in Slice(S, a, b) : f[r] = n
    <2> SUFFICES ASSUME NEW n \in N PROVE \E r \in Slice(S, a, b) : f[r] = n
      OBVIOUS
    <2>1. n \in 0 .. Cardinality(S) - 1 /\ a <= n /\ n < b
      BY <1>1
    <2>2. PICK r \in S : RankIn(S, r) = n
      BY <2>1, RanksAreAll
    <2>3. r \in Slice(S, a, b)
      BY <2>1, <2>2 DEF Slice
    <2> QED  BY <2>2, <2>3
  <1>6. f \in Surjection(Slice(S, a, b), N)
    BY <1>3, <1>5 DEF Surjection
  <1> QED  BY <1>2, <1>4, <1>6, FS_Injection

(***************************************************************************)
(* A page of k rows from rank o on: it holds the next rows and no others,  *)
(* and one that is not full is the last.                                   *)
(***************************************************************************)
LEMMA PageOfSlice ==
  ASSUME NEW S, Sortable(S), NEW o \in Nat, NEW k \in Nat,
         NEW p, p = Slice(S, o, o + k)
  PROVE  /\ IsFiniteSet(p) /\ Cardinality(p) \in Nat
         /\ \A r \in S : r \in p <=> o <= RankIn(S, r) /\ RankIn(S, r) < o + Cardinality(p)
         /\ Cardinality(p) < k => Cardinality(S) <= o + Cardinality(p)
         /\ p # {} => o + Cardinality(p) <= Cardinality(S)
  <1>1. IsFiniteSet(S) /\ Cardinality(S) \in Nat
    BY FS_CardinalityType DEF Sortable
  <1>2. \A r \in S : RankIn(S, r) \in Nat /\ RankIn(S, r) < Cardinality(S)
    BY <1>1, RankIsBelowSize
  <1>3. CASE o + k <= Cardinality(S)
    <2>1. IsFiniteSet(p) /\ Cardinality(p) = k
      BY <1>3, SliceSize
    <2>2. \A r \in S : r \in p <=> o <= RankIn(S, r) /\ RankIn(S, r) < o + Cardinality(p)
      BY <2>1 DEF Slice
    <2> QED  BY <1>1, <1>3, <2>1, <2>2
  <1>4. CASE o <= Cardinality(S) /\ Cardinality(S) < o + k
    <2>1. p = Slice(S, o, Cardinality(S))
      BY <1>1, <1>2, <1>4 DEF Slice
    <2>2. IsFiniteSet(p) /\ Cardinality(p) = Cardinality(S) - o
      BY <1>1, <1>4, <2>1, SliceSize
    <2>3. \A r \in S : r \in p <=> o <= RankIn(S, r) /\ RankIn(S, r) < o + Cardinality(p)
      BY <1>1, <1>4, <2>1, <2>2 DEF Slice
    <2> QED  BY <1>1, <1>4, <2>2, <2>3
  <1>5. CASE Cardinality(S) < o
    <2>1. p = {}
      BY <1>1, <1>2, <1>5 DEF Slice
    <2>2. IsFiniteSet(p) /\ Cardinality(p) = 0
      BY <2>1, FS_EmptySet
    <2> QED  BY <1>1, <1>2, <1>5, <2>1, <2>2
  <1> QED  BY <1>1, <1>3, <1>4, <1>5

-----------------------------------------------------------------------------
(* What a row that comes or leaves does to the rows on either side of the  *)
(* boundary of two pages: it moves one across.                             *)

LEMMA RankAfterOneMore ==
  ASSUME NEW S, IsFiniteSet(S), NEW d, d \notin S, NEW r
  PROVE  /\ RankIn(S, r) \in Nat
         /\ RankIn(S \cup {d}, r) \in {RankIn(S, r), RankIn(S, r) + 1}
  <1>1. IsFiniteSet(Above(S, r)) /\ RankIn(S, r) \in Nat /\ d \notin Above(S, r)
    BY RankIsNat DEF Above
  <1>2. Above(S \cup {d}, r) = Above(S, r) \/ Above(S \cup {d}, r) = Above(S, r) \cup {d}
    BY DEF Above
  <1>3. Cardinality(Above(S, r) \cup {d}) = Cardinality(Above(S, r)) + 1
    BY <1>1, FS_AddElement
  <1> QED  BY <1>1, <1>2, <1>3 DEF RankIn

LEMMA OneAtARank ==
  ASSUME NEW S, Sortable(S), NEW n
  PROVE  LET one == {r \in S : RankIn(S, r) = n}
         IN  IsFiniteSet(one) /\ Cardinality(one) \in Nat /\ Cardinality(one) <= 1
  <1> DEFINE one == {r \in S : RankIn(S, r) = n}
  <1>1. CASE one = {}
    BY <1>1, FS_EmptySet
  <1>2. CASE one # {}
    <2>1. PICK r \in one : TRUE
      BY <1>2
    <2>2. one = {r}
      BY <2>1, RanksDiffer
    <2> QED  BY <2>2, FS_Singleton
  <1> QED  BY <1>1, <1>2

LEMMA OneMore ==
  ASSUME NEW A, IsFiniteSet(A), NEW B, IsFiniteSet(B), Cardinality(B) <= 1,
         NEW C, C \subseteq A \cup B
  PROVE  IsFiniteSet(C) /\ Cardinality(C) \in Nat /\ Cardinality(C) <= Cardinality(A) + 1
  <1>1. /\ IsFiniteSet(A \cup B) /\ IsFiniteSet(A \cap B)
        /\ Cardinality(A \cup B) = Cardinality(A) + Cardinality(B) - Cardinality(A \cap B)
    BY FS_Union, FS_Intersection
  <1>2. Cardinality(A) \in Nat /\ Cardinality(B) \in Nat /\ Cardinality(A \cap B) \in Nat
        /\ Cardinality(A \cup B) \in Nat
    BY <1>1, FS_CardinalityType
  <1>3. IsFiniteSet(C) /\ Cardinality(C) <= Cardinality(A \cup B)
    BY <1>1, FS_Subset
  <1>4. Cardinality(C) \in Nat
    BY <1>3, FS_CardinalityType
  <1> QED  BY <1>1, <1>2, <1>3, <1>4

(* Of the rows F of a listing S, those before rank o that were not given. *)
MissedIn(S, F, o, got) == {r \in F : r \notin got /\ RankIn(S, r) < o}

(* The rows of a listing from rank o on that were given. *)
AgainIn(S, o, got) == {r \in S : r \in got /\ o <= RankIn(S, r)}

LEMMA MissedWithOneMore ==
  ASSUME NEW S, IsFiniteSet(S), NEW d, d \notin S, NEW F, F \subseteq S, NEW o \in Nat, NEW got
  PROVE  MissedIn(S \cup {d}, F, o, got) \subseteq MissedIn(S, F, o, got)
  <1> SUFFICES ASSUME NEW r \in F, RankIn(S \cup {d}, r) < o PROVE RankIn(S, r) < o
    BY DEF MissedIn
  <1> QED  BY RankAfterOneMore

LEMMA MissedWithOneLess ==
  ASSUME NEW S, Sortable(S), NEW d \in S, NEW F, F \subseteq S, NEW o \in Nat, NEW got
  PROVE  LET m == MissedIn(S \ {d}, F \ {d}, o, got)
         IN  Cardinality(m) \in Nat /\ Cardinality(m) <= Cardinality(MissedIn(S, F, o, got)) + 1
  <1> DEFINE one == {r \in S : RankIn(S, r) = o}
  <1>1. /\ IsFiniteSet(S) /\ IsFiniteSet(S \ {d})
        /\ MissedIn(S, F, o, got) \in SUBSET S
    BY FS_RemoveElement DEF Sortable, MissedIn
  <1>2. IsFiniteSet(MissedIn(S, F, o, got))
    BY <1>1, FS_Subset
  <1>3. IsFiniteSet(one) /\ Cardinality(one) <= 1
    BY OneAtARank
  <1>4. MissedIn(S \ {d}, F \ {d}, o, got) \subseteq MissedIn(S, F, o, got) \cup one
    <2> SUFFICES ASSUME NEW r \in F \ {d}, RankIn(S \ {d}, r) < o
                 PROVE  RankIn(S, r) < o \/ RankIn(S, r) = o
      BY DEF MissedIn
    <2>1. S = (S \ {d}) \cup {d} /\ d \notin S \ {d}
      OBVIOUS
    <2>2. RankIn(S \ {d}, r) \in Nat /\ RankIn(S, r) \in {RankIn(S \ {d}, r), RankIn(S \ {d}, r) + 1}
      BY <1>1, <2>1, RankAfterOneMore
    <2> QED  BY <2>2
  <1> HIDE DEF one
  <1> QED  BY <1>2, <1>3, <1>4, OneMore

LEMMA AgainWithOneMore ==
  ASSUME NEW S, Sortable(S), NEW d, d \notin S, NEW o \in Nat, NEW got, d \notin got
  PROVE  LET a == AgainIn(S \cup {d}, o, got)
         IN  Cardinality(a) \in Nat /\ Cardinality(a) <= Cardinality(AgainIn(S, o, got)) + 1
  <1> DEFINE one == {r \in S : RankIn(S, r) = o - 1}
  <1>1. IsFiniteSet(S) /\ AgainIn(S, o, got) \in SUBSET S
    BY DEF Sortable, AgainIn
  <1>2. IsFiniteSet(AgainIn(S, o, got))
    BY <1>1, FS_Subset
  <1>3. IsFiniteSet(one) /\ Cardinality(one) <= 1
    BY OneAtARank
  <1>4. AgainIn(S \cup {d}, o, got) \subseteq AgainIn(S, o, got) \cup one
    <2> SUFFICES ASSUME NEW r \in S, o <= RankIn(S \cup {d}, r)
                 PROVE  o <= RankIn(S, r) \/ RankIn(S, r) = o - 1
      BY DEF AgainIn
    <2>1. RankIn(S, r) \in Nat /\ RankIn(S \cup {d}, r) \in {RankIn(S, r), RankIn(S, r) + 1}
      BY <1>1, RankAfterOneMore
    <2> QED  BY <2>1
  <1> HIDE DEF one
  <1> QED  BY <1>2, <1>3, <1>4, OneMore

LEMMA AgainWithOneLess ==
  ASSUME NEW S, IsFiniteSet(S), NEW d \in S, NEW o \in Nat, NEW got
  PROVE  AgainIn(S \ {d}, o, got) \subseteq AgainIn(S, o, got)
  <1> SUFFICES ASSUME NEW r \in S \ {d}, o <= RankIn(S \ {d}, r)
               PROVE  o <= RankIn(S, r)
    BY DEF AgainIn
  <1>1. S = (S \ {d}) \cup {d} /\ d \notin S \ {d} /\ IsFiniteSet(S \ {d})
    BY FS_RemoveElement
  <1>2. RankIn(S \ {d}, r) \in Nat /\ RankIn(S, r) \in {RankIn(S \ {d}, r), RankIn(S \ {d}, r) + 1}
    BY <1>1, RankAfterOneMore
  <1> QED  BY <1>2

-----------------------------------------------------------------------------
(* What is listed, and what a commit changes in it. *)

Here    == Listed(listing)
Lasting == first \ gone

(***************************************************************************)
(* Ids are drawn once, so a row that left does not come back; a row that   *)
(* lasted is still listed; and what a request has read is of that request. *)
(***************************************************************************)
StoreInv ==
    /\ IsFiniteSet(rows) /\ IsFiniteSet(first) /\ IsFiniteSet(seen)
    /\ IsFiniteSet(page) /\ IsFiniteSet(gone) /\ IsFiniteSet(new)
    /\ \A a, b \in rows : a.id = b.id => a = b
    /\ \A r \in first \cup seen \cup page \cup new \cup gone : r.id \in drawn
    /\ gone \cap rows = {}
    /\ pc # "reading" => page = {} /\ reads = {} /\ total = 0 /\ between = 0
    /\ "page" \notin reads => page = {}
    /\ pc = "idle" => offset = 0 /\ repeats = 0 /\ seen = {} /\ first = {} /\ gone = {} /\ new = {}
    /\ pc # "idle" => limit \in Limits
    /\ Walking => Lasting \subseteq Here

Commit == CreateChat \/ CreateMessage \/ DeleteChat

Same    == Here' = Here /\ UNCHANGED <<first, gone, new, between>>
Came(d) == /\ d \notin Here /\ d \notin first \cup seen \cup page \cup new
           /\ Here' = Here \cup {d} /\ new' = new \cup {d}
           /\ between' = IF Cardinality(reads) = 1 THEN between + 1 ELSE between
           /\ UNCHANGED <<first, gone>>
Went(d) == /\ d \in Here /\ d \notin gone
           /\ Here' = Here \ {d} /\ gone' = gone \cup {d}
           /\ between' = IF Cardinality(reads) = 1 THEN between + 1 ELSE between
           /\ UNCHANGED <<first, new>>
Emptied == /\ Here' = {} /\ gone' = gone \cup Here
           /\ between' = IF Cardinality(reads) = 1 THEN between + Cardinality(Here) ELSE between
           /\ UNCHANGED <<first, new>>

LEMMA HereIsSortable ==
  ASSUME TypeOK, StoreInv
  PROVE  Sortable(Here)
  <1>1. Here \in SUBSET rows
    BY DEF Here, Listed
  <1>2. IsFiniteSet(Here)
    BY <1>1, FS_Subset DEF StoreInv
  <1> QED  BY <1>1, <1>2 DEF Sortable, StoreInv, TypeOK

LEMMA HereIsRanked == \A r \in Here : Rank(r) = RankIn(Here, r)
  BY DEF Here, Listed, Rank, RankIn, Above

Mine(rs) == {r \in rs : r.chat = listing}

LEMMA NoteIs ==
  ASSUME NEW came, NEW left, Walking, Note(came, left)
  PROVE  /\ new' = new \cup Mine(came) /\ gone' = gone \cup Mine(left)
         /\ between' = IF Cardinality(reads) = 1
                          THEN between + Cardinality(Mine(came \cup left)) ELSE between
  BY DEF Note, Mine

LEMMA InsertIs ==
  ASSUME TypeOK, StoreInv, Walking, NEW r \in Rows, Insert(r)
  PROVE  Same \/ Came(r)
  <1>1. /\ r.id \notin drawn /\ rows' = rows \cup {r} /\ listing' = listing /\ first' = first
        /\ r \notin rows /\ r \notin first \cup seen \cup page \cup new
    BY DEF Insert, walk, StoreInv, TypeOK
  <1>2. /\ new' = new \cup Mine({r}) /\ gone' = gone \cup Mine({})
        /\ between' = IF Cardinality(reads) = 1
                         THEN between + Cardinality(Mine({r} \cup {})) ELSE between
    BY NoteIs DEF Insert
  <1>3. CASE r.chat = listing
    <2>1. Mine({r}) = {r} /\ Mine({r} \cup {}) = {r} /\ Mine({}) = {}
      BY <1>3 DEF Mine
    <2>2. Cardinality({r}) = 1
      BY FS_Singleton
    <2>3. /\ new' = new \cup {r} /\ gone' = gone
          /\ between' = IF Cardinality(reads) = 1 THEN between + 1 ELSE between
      BY <1>2, <2>1, <2>2
    <2>4. r \notin Here /\ Here' = Here \cup {r}
      BY <1>1, <1>3 DEF Here, Listed
    <2> QED  BY <1>1, <2>3, <2>4 DEF Came
  <1>4. CASE r.chat # listing
    <2>1. Mine({r}) = {} /\ Mine({r} \cup {}) = {} /\ Mine({}) = {}
      BY <1>4 DEF Mine
    <2>2. Cardinality({}) = 0
      BY FS_EmptySet
    <2>3. between + 0 = between
      BY DEF TypeOK
    <2>4. new' = new /\ gone' = gone /\ between' = between
      BY <1>2, <2>1, <2>2, <2>3
    <2>5. Here' = Here
      BY <1>1, <1>4 DEF Here, Listed
    <2> QED  BY <1>1, <2>4, <2>5 DEF Same
  <1> QED  BY <1>3, <1>4

LEMMA DeleteIs ==
  ASSUME TypeOK, StoreInv, Walking, DeleteChat
  PROVE  Same \/ Emptied \/ \E d \in Here : Went(d)
  <1>1. PICK c \in ChatIds : Exists(c) /\ rows' = rows \ Cascade(c) /\ Note({}, Cascade(c))
    BY DEF DeleteChat
  <1>2. listing' = listing /\ first' = first /\ c # Chats /\ gone \cap rows = {}
    BY ListingAssumption DEF DeleteChat, walk, StoreInv
  <1> DEFINE mine == {x \in Cascade(c) : x.chat = listing}
  <1>3. {x \in {} : x.chat = listing} = {} /\ {x \in {} \cup Cascade(c) : x.chat = listing} = mine
    OBVIOUS
  <1>4. /\ new' = new /\ gone' = gone \cup mine /\ mine \subseteq Here /\ Here' = Here \ mine
        /\ between' = IF Cardinality(reads) = 1 THEN between + Cardinality(mine) ELSE between
    <2>1. new' = new \cup {} /\ gone' = gone \cup mine
      BY <1>1, <1>3 DEF Note
    <2>2. between' = IF Cardinality(reads) = 1 THEN between + Cardinality(mine) ELSE between
      BY <1>1, <1>3 DEF Note
    <2>3. mine \subseteq Here /\ Here' = Here \ mine
      BY <1>1, <1>2 DEF Here, Listed, Cascade
    <2> QED  BY <2>1, <2>2, <2>3
  <1>5. CASE listing = c
    <2>1. mine = Here
      BY <1>5 DEF Here, Listed, Cascade
    <2> QED  BY <1>2, <1>4, <2>1 DEF Emptied
  <1>6. CASE listing = Chats
    <2>1. PICK d \in Here : d.id = c
      BY <1>1, <1>6 DEF Exists, Here, Listed
    <2>2. d \in rows /\ d.chat = Chats /\ \A x \in rows : x.id = c => x = d
      BY <1>6, <2>1 DEF Here, Listed, StoreInv
    <2>3. mine = {d}
      BY <1>2, <1>6, <2>1, <2>2 DEF Cascade
    <2>4. Cardinality(mine) = 1 /\ d \notin gone
      BY <1>2, <2>2, <2>3, FS_Singleton
    <2> QED  BY <1>2, <1>4, <2>3, <2>4 DEF Went
  <1>7. CASE listing # c /\ listing # Chats
    <2>1. mine = {}
      BY <1>7 DEF Cascade
    <2>2. Cardinality(mine) = 0
      BY <2>1, FS_EmptySet
    <2>3. between + 0 = between
      BY DEF TypeOK
    <2> QED  BY <1>2, <1>4, <2>1, <2>2, <2>3 DEF Same
  <1> QED  BY <1>5, <1>6, <1>7

LEMMA CommitIs ==
  ASSUME TypeOK, StoreInv, Walking, Commit
  PROVE  Same \/ (\E d \in Rows : Came(d)) \/ (\E d \in Here : Went(d)) \/ Emptied
  <1>1. CASE DeleteChat
    BY <1>1, DeleteIs
  <1>2. CASE CreateChat
    <2>1. PICK c \in ChatIds, t \in Stamps : Insert([chat |-> Chats, id |-> c, at |-> t])
      BY <1>2 DEF CreateChat
    <2>2. [chat |-> Chats, id |-> c, at |-> t] \in Rows
      BY DEF Rows
    <2> QED  BY <2>1, <2>2, InsertIs
  <1>3. CASE CreateMessage
    <2>1. PICK c \in ChatIds, m \in MessageIds, t \in Stamps :
             Insert([chat |-> c, id |-> m, at |-> t])
      BY <1>3 DEF CreateMessage
    <2>2. [chat |-> c, id |-> m, at |-> t] \in Rows
      BY DEF Rows
    <2> QED  BY <2>1, <2>2, InsertIs
  <1> QED  BY <1>1, <1>2, <1>3 DEF Commit

(* A commit is not seen by the walk, but in what it lists. *)
LEMMA CommitFrame ==
  ASSUME Commit
  PROVE  UNCHANGED <<process, pc, page, total, reads, walk, given>>
  BY DEF Commit, CreateChat, CreateMessage, DeleteChat, Insert

-----------------------------------------------------------------------------
(* Types, and what StoreInv says. *)

LEMMA InsertedRows ==
  ASSUME TypeOK, StoreInv, NEW r \in Rows, Insert(r), r.id \in ChatIds \cup MessageIds,
         r.chat # Chats => Exists(r.chat)
  PROVE  /\ rows' \in SUBSET Rows /\ IsFiniteSet(rows')
         /\ \A x \in rows' : x.id \in drawn' /\ (x.chat # Chats => Exists(x.chat)')
         /\ drawn' \in SUBSET (ChatIds \cup MessageIds) /\ drawn \subseteq drawn'
         /\ \A x, y \in rows' : x.id = y.id => x = y
         /\ gone \cap rows' = {}
  <1>1. r.id \notin drawn /\ rows' = rows \cup {r} /\ drawn' = drawn \cup {r.id}
    BY DEF Insert
  <1>2. rows \subseteq Rows /\ IsFiniteSet(rows) /\ \A x \in rows \cup gone : x.id \in drawn
    BY DEF TypeOK, StoreInv
  <1>3. IsFiniteSet(rows')
    BY <1>1, <1>2, FS_AddElement
  <1>4. \A c : Exists(c) => Exists(c)'
    BY <1>1 DEF Exists, Listed
  <1>5. \A x \in rows' : x.id \in drawn' /\ (x.chat # Chats => Exists(x.chat)')
    BY <1>1, <1>4 DEF TypeOK
  <1>6. \A x, y \in rows' : x.id = y.id => x = y
    BY <1>1, <1>2 DEF StoreInv
  <1>7. gone \cap rows' = {}
    BY <1>1, <1>2 DEF StoreInv
  <1>8. drawn' \in SUBSET (ChatIds \cup MessageIds) /\ drawn \subseteq drawn'
    BY <1>1 DEF TypeOK
  <1> QED  BY <1>1, <1>2, <1>3, <1>5, <1>6, <1>7, <1>8

LEMMA CommittedRows ==
  ASSUME TypeOK, StoreInv, Commit
  PROVE  /\ rows' \in SUBSET Rows /\ IsFiniteSet(rows')
         /\ \A x \in rows' : x.id \in drawn' /\ (x.chat # Chats => Exists(x.chat)')
         /\ drawn' \in SUBSET (ChatIds \cup MessageIds) /\ drawn \subseteq drawn'
         /\ \A x, y \in rows' : x.id = y.id => x = y
         /\ gone \cap rows' = {}
  <1>1. CASE CreateChat
    <2>1. PICK c \in ChatIds, t \in Stamps : Insert([chat |-> Chats, id |-> c, at |-> t])
      BY <1>1 DEF CreateChat
    <2> DEFINE r == [chat |-> Chats, id |-> c, at |-> t]
    <2>2. r \in Rows /\ r.id \in ChatIds \cup MessageIds /\ r.chat = Chats
      BY DEF Rows
    <2> HIDE DEF r
    <2> QED  BY <2>1, <2>2, InsertedRows DEF r
  <1>2. CASE CreateMessage
    <2>1. PICK c \in ChatIds, m \in MessageIds, t \in Stamps :
             Exists(c) /\ Insert([chat |-> c, id |-> m, at |-> t])
      BY <1>2 DEF CreateMessage
    <2> DEFINE r == [chat |-> c, id |-> m, at |-> t]
    <2>2. r \in Rows /\ r.id \in ChatIds \cup MessageIds /\ Exists(r.chat)
      BY <2>1 DEF Rows
    <2> HIDE DEF r
    <2> QED  BY <2>1, <2>2, InsertedRows DEF r
  <1>3. CASE DeleteChat
    <2>1. PICK c \in ChatIds : rows' = rows \ Cascade(c)
      BY <1>3 DEF DeleteChat
    <2>2. drawn' = drawn /\ c # Chats /\ rows' \in SUBSET rows
      BY <1>3, <2>1, ListingAssumption DEF DeleteChat
    <2>3. IsFiniteSet(rows')
      BY <2>2, FS_Subset DEF StoreInv
    <2>4. ASSUME NEW x \in rows', x.chat # Chats PROVE Exists(x.chat)'
      <3>1. x \in rows /\ x.chat # c
        BY <2>1 DEF Cascade
      <3>2. PICK y \in rows : y.chat = Chats /\ y.id = x.chat
        BY <2>4, <3>1 DEF TypeOK, Exists, Listed
      <3>3. y \in rows'
        BY <2>1, <2>2, <3>1, <3>2 DEF Cascade
      <3> QED  BY <3>2, <3>3 DEF Exists, Listed
    <2>5. \A x \in rows' : x.id \in drawn'
      BY <2>2 DEF TypeOK
    <2> QED  BY <2>2, <2>3, <2>4, <2>5 DEF TypeOK, StoreInv
  <1> QED  BY <1>1, <1>2, <1>3 DEF Commit

(* The history of the walk, after a commit. *)
LEMMA CommittedHistory ==
  ASSUME TypeOK, StoreInv, Commit
  PROVE  /\ first' = first
         /\ IsFiniteSet(gone') /\ gone' \in SUBSET Rows
         /\ IsFiniteSet(new') /\ new' \in SUBSET Rows
         /\ \A r \in gone' \cup new' : r.id \in drawn'
         /\ gone' \cap rows' = {}
         /\ between' \in Nat
         /\ Walking => Lasting' \subseteq Here'
         /\ ~Walking => UNCHANGED <<gone, new, between>>
  <1>1. first' = first /\ listing' = listing
    BY CommitFrame DEF walk
  <1>2. CASE ~Walking
    <2>1. UNCHANGED <<gone, new>>
      BY <1>2 DEF Commit, CreateChat, CreateMessage, DeleteChat, Insert, Note
    <2>2. reads = {}
      BY <1>2 DEF Walking, StoreInv
    <2>3. Cardinality(reads) = 0
      BY <2>2, FS_EmptySet
    <2>4. between' = between
      BY <2>3 DEF Commit, CreateChat, CreateMessage, DeleteChat, Insert, Note
    <2> QED  BY <1>1, <1>2, <2>1, <2>4, CommittedRows DEF TypeOK, StoreInv
  <1>3. CASE Walking
    <2>1. /\ IsFiniteSet(gone) /\ IsFiniteSet(new) /\ gone \subseteq Rows /\ new \subseteq Rows
          /\ \A r \in gone \cup new : r.id \in drawn
          /\ between \in Nat /\ Lasting \subseteq Here
      BY <1>3 DEF TypeOK, StoreInv
    <2>2. /\ gone \cap rows' = {} /\ drawn \subseteq drawn'
          /\ \A r \in rows' : r.id \in drawn' /\ r \in Rows
      BY CommittedRows
    <2>3. /\ IsFiniteSet(Here) /\ Here \subseteq Rows /\ \A r \in Here : r.id \in drawn
          /\ Here' \subseteq rows' /\ \A r \in Here : r \in rows' => r \in Here'
      BY <1>1, HereIsSortable DEF Sortable, Here, Listed, TypeOK
    <2>4. CASE Same
      BY <1>1, <1>3, <2>1, <2>2, <2>3, <2>4 DEF Same, Lasting
    <2>5. ASSUME NEW d \in Rows, Came(d)
          PROVE  /\ IsFiniteSet(gone') /\ gone' \in SUBSET Rows
                 /\ IsFiniteSet(new') /\ new' \in SUBSET Rows
                 /\ \A r \in gone' \cup new' : r.id \in drawn'
                 /\ gone' \cap rows' = {} /\ between' \in Nat /\ Lasting' \subseteq Here'
      <3>1. new' = new \cup {d} /\ gone' = gone /\ Here' = Here \cup {d} /\ between' \in Nat
        BY <2>1, <2>5 DEF Came
      <3>2. d \in rows' /\ IsFiniteSet(new')
        BY <2>1, <2>3, <3>1, FS_AddElement
      <3> QED  BY <1>1, <2>1, <2>2, <3>1, <3>2 DEF Lasting
    <2>6. ASSUME NEW d \in Here, Went(d)
          PROVE  /\ IsFiniteSet(gone') /\ gone' \in SUBSET Rows
                 /\ IsFiniteSet(new') /\ new' \in SUBSET Rows
                 /\ \A r \in gone' \cup new' : r.id \in drawn'
                 /\ gone' \cap rows' = {} /\ between' \in Nat /\ Lasting' \subseteq Here'
      <3>1. new' = new /\ gone' = gone \cup {d} /\ Here' = Here \ {d} /\ between' \in Nat
        BY <2>1, <2>6 DEF Went
      <3>2. d \notin rows' /\ IsFiniteSet(gone')
        BY <2>1, <2>3, <3>1, FS_AddElement
      <3> QED  BY <1>1, <2>1, <2>2, <2>3, <3>1, <3>2 DEF Lasting
    <2>7. CASE Emptied
      <3>1. new' = new /\ gone' = gone \cup Here /\ Here' = {}
        BY <2>7 DEF Emptied
      <3>2. IsFiniteSet(gone') /\ Cardinality(Here) \in Nat
        BY <2>1, <2>3, <3>1, FS_Union, FS_CardinalityType
      <3>3. between' \in Nat
        BY <2>1, <2>7, <3>2 DEF Emptied
      <3>4. Here \cap rows' = {}
        BY <2>3, <3>1
      <3>5. Lasting' = {}
        BY <1>1, <2>1, <3>1 DEF Lasting
      <3> QED  BY <1>1, <1>3, <2>1, <2>2, <2>3, <3>1, <3>2, <3>3, <3>4, <3>5
    <2> QED  BY <1>1, <1>3, <2>4, <2>5, <2>6, <2>7, CommitIs
  <1> QED  BY <1>2, <1>3

LEMMA CommitTypes ==
  ASSUME TypeOK, StoreInv, Commit
  PROVE  TypeOK' /\ StoreInv'
  <1>1. UNCHANGED <<tools, quiet, pc, page, total, reads, listing, limit, first, offset, seen, repeats>>
        /\ (Walking' <=> Walking)
    BY CommitFrame DEF process, walk, given, Walking
  <1>2. TypeOK'
    BY <1>1, CommittedRows, CommittedHistory DEF TypeOK
  <1>3. \A r \in first \cup seen \cup page : r.id \in drawn'
    BY CommittedRows DEF StoreInv
  <1>4. pc' # "reading" => page' = {} /\ reads' = {} /\ total' = 0 /\ between' = 0
    <2> SUFFICES ASSUME pc # "reading" PROVE between' = 0
      BY <1>1 DEF StoreInv
    <2>1. reads = {} /\ between = 0
      BY DEF StoreInv
    <2>2. Cardinality(reads) # 1
      BY <2>1, FS_EmptySet
    <2> QED  BY <2>1, <2>2 DEF Commit, CreateChat, CreateMessage, DeleteChat, Insert, Note
  <1>5. pc = "idle" => gone' = {} /\ new' = {}
    BY CommittedHistory DEF StoreInv, Walking
  <1>6. StoreInv'
    BY <1>1, <1>3, <1>4, <1>5, CommittedRows, CommittedHistory DEF StoreInv
  <1> QED  BY <1>2, <1>6

LEMMA LimitIsNat == TypeOK => limit \in Nat
  BY ListingAssumption DEF TypeOK

LEMMA TypeStep == TypeOK /\ StoreInv /\ [Next]_vars => TypeOK' /\ StoreInv'
  <1> SUFFICES ASSUME TypeOK, StoreInv, [Next]_vars PROVE TypeOK' /\ StoreInv'
    OBVIOUS
  <1> USE DEF store, process, request, walk, given
  <1>1. CASE Commit
    BY <1>1, CommitTypes
  <1>2. CASE Begin
    <2>1. /\ pc = "idle" /\ pc' = "between" /\ listing' \in {Chats} \cup ChatIds /\ limit' \in Limits
          /\ first' = Listed(listing')
          /\ UNCHANGED <<rows, drawn, tools, quiet, page, total, reads, between, offset, seen,
                         repeats, gone, new>>
      BY <1>2 DEF Begin
    <2>2. first' \in SUBSET rows /\ IsFiniteSet(rows)
      BY <2>1 DEF Listed, StoreInv
    <2>3. IsFiniteSet(first') /\ first' \in SUBSET Rows /\ \A r \in first' : r.id \in drawn
      BY <2>2, FS_Subset DEF TypeOK
    <2>4. Lasting' \subseteq Here'
      BY <2>1 DEF Lasting, Here, Listed
    <2>5. TypeOK'
      BY <2>1, <2>3 DEF TypeOK, Exists, Listed
    <2>6. StoreInv'
      BY <2>1, <2>3, <2>4 DEF StoreInv
    <2> QED  BY <2>5, <2>6
  <1>3. CASE ListRows
    <2>1. /\ pc = "reading" /\ reads' = reads \cup {"page"} /\ page' \in SUBSET Listed(listing)
          /\ UNCHANGED <<rows, drawn, tools, quiet, pc, total, between, listing, limit, first, offset,
                         seen, repeats, gone, new>>
      BY <1>3 DEF ListRows
    <2>2. page' \in SUBSET rows /\ IsFiniteSet(rows)
      BY <2>1 DEF Listed, StoreInv
    <2>3. IsFiniteSet(page') /\ page' \in SUBSET Rows /\ \A r \in page' : r.id \in drawn
      BY <2>2, FS_Subset DEF TypeOK
    <2>4. Walking' <=> Walking
      BY <2>1 DEF Walking
    <2>5. TypeOK'
      BY <2>1, <2>3 DEF TypeOK, Exists, Listed
    <2>6. StoreInv'
      BY <2>1, <2>3, <2>4 DEF StoreInv, Lasting, Here, Listed
    <2> QED  BY <2>5, <2>6
  <1>4. CASE CountRows
    <2>1. /\ pc = "reading" /\ reads' = reads \cup {"total"} /\ total' = Cardinality(Listed(listing))
          /\ UNCHANGED <<rows, drawn, tools, quiet, pc, page, between, listing, limit, first, offset,
                         seen, repeats, gone, new>>
      BY <1>4 DEF CountRows
    <2>2. total' \in Nat
      BY <2>1, HereIsSortable, FS_CardinalityType DEF Sortable, Here
    <2>3. Walking' <=> Walking
      BY <2>1 DEF Walking
    <2>4. TypeOK'
      BY <2>1, <2>2 DEF TypeOK, Exists, Listed
    <2>5. StoreInv'
      BY <2>1, <2>3 DEF StoreInv, Lasting, Here, Listed
    <2> QED  BY <2>4, <2>5
  <1>5. CASE Respond
    <2>1. /\ pc = "reading" /\ pc' \in {"ended", "between"}
          /\ offset' = offset + Cardinality(page) /\ seen' = seen \cup page
          /\ repeats' = repeats + Cardinality(page \cap seen)
          /\ page' = {} /\ total' = 0 /\ reads' = {} /\ between' = 0
          /\ UNCHANGED <<rows, drawn, tools, quiet, listing, limit, first, gone, new>>
      BY <1>5 DEF Respond
    <2>2. IsFiniteSet(page) /\ IsFiniteSet(page \cap seen) /\ IsFiniteSet(seen')
      BY <2>1, FS_Union, FS_Intersection DEF StoreInv
    <2>3. Cardinality(page) \in Nat /\ Cardinality(page \cap seen) \in Nat /\ IsFiniteSet({})
      BY <2>2, FS_CardinalityType, FS_EmptySet
    <2>4. Walking
      BY <2>1 DEF Walking
    <2>5. TypeOK'
      BY <2>1, <2>3 DEF TypeOK, Exists, Listed
    <2>6. StoreInv'
      BY <2>1, <2>2, <2>3, <2>4 DEF StoreInv, Lasting, Here, Listed
    <2> QED  BY <2>5, <2>6
  <1>6. CASE Ask \/ GetMessageServiceFails \/ EnsureChatExists \/ ReadFails
    <2>1. /\ pc \in {"asked", "reading", "between"}
          /\ pc' \in {"between", "asked", "reading", "refused"}
          /\ UNCHANGED <<rows, drawn, tools, quiet, listing, limit, first, offset, seen,
                         repeats, gone, new>>
      BY <1>6 DEF Ask, GetMessageServiceFails, EnsureChatExists, ReadFails, GiveUp
    <2>2. page' = {} /\ total' = 0 /\ reads' = {} /\ between' = 0
      BY <1>6 DEF Ask, GetMessageServiceFails, EnsureChatExists, ReadFails, GiveUp, StoreInv
    <2>3. Walking /\ pc # "idle" /\ pc' # "idle" /\ IsFiniteSet({})
      BY <2>1, FS_EmptySet DEF Walking
    <2>4. TypeOK'
      BY <2>1, <2>2 DEF TypeOK, Exists, Listed
    <2>5. StoreInv'
      BY <2>1, <2>2, <2>3 DEF StoreInv, Lasting, Here, Listed
    <2> QED  BY <2>4, <2>5
  <1>7. CASE Restart
    <2>1. CASE GiveUp
      <3>1. /\ pc \in {"asked", "reading"} /\ pc' = "between" /\ tools' \in BOOLEAN
            /\ page' = {} /\ total' = 0 /\ reads' = {} /\ between' = 0
            /\ UNCHANGED <<rows, drawn, quiet, listing, limit, first, offset, seen, repeats, gone, new>>
        BY <1>7, <2>1 DEF Restart, GiveUp
      <3>2. Walking /\ pc # "idle" /\ IsFiniteSet({})
        BY <3>1, FS_EmptySet DEF Walking
      <3>3. TypeOK'
        BY <3>1 DEF TypeOK, Exists, Listed
      <3>4. StoreInv'
        BY <3>1, <3>2 DEF StoreInv, Lasting, Here, Listed
      <3> QED  BY <3>3, <3>4
    <2>2. CASE UNCHANGED <<pc, request>>
      <3>1. /\ tools' \in BOOLEAN
            /\ UNCHANGED <<rows, drawn, quiet, pc, page, total, reads, between, listing, limit, first,
                           offset, seen, repeats, gone, new>>
        BY <1>7, <2>2 DEF Restart
      <3>2. TypeOK'
        BY <3>1 DEF TypeOK, Exists, Listed
      <3>3. StoreInv'
        BY <3>1 DEF StoreInv, Lasting, Here, Listed, Walking
      <3> QED  BY <3>2, <3>3
    <2> QED  BY <1>7, <2>1, <2>2 DEF Restart
  <1>8. CASE Settle \/ UNCHANGED vars
    <2>1. /\ quiet' \in BOOLEAN
          /\ UNCHANGED <<rows, drawn, tools, pc, page, total, reads, between, listing, limit, first,
                         offset, seen, repeats, gone, new>>
      BY <1>8 DEF Settle, vars, TypeOK
    <2>2. TypeOK'
      BY <2>1 DEF TypeOK, Exists, Listed
    <2>3. StoreInv'
      BY <2>1 DEF StoreInv, Lasting, Here, Listed, Walking
    <2> QED  BY <2>2, <2>3
  <1> QED
    BY <1>1, <1>2, <1>3, <1>4, <1>5, <1>6, <1>7, <1>8 DEF Next, Serve, Commit

LEMMA StoreInvariant == Spec => [](TypeOK /\ StoreInv)
  <1>1. Init => TypeOK
    <2> SUFFICES ASSUME Init PROVE TypeOK
      OBVIOUS
    <2>1. tools \in BOOLEAN /\ quiet \in BOOLEAN
      BY Zenon DEF Init
    <2> QED  BY <2>1 DEF Init, TypeOK
  <1>2. Init => StoreInv
    <2>1. IsFiniteSet({})
      BY FS_EmptySet
    <2> QED  BY <2>1 DEF Init, StoreInv, Walking
  <1> QED  BY <1>1, <1>2, TypeStep, PTL DEF Spec

(***************************************************************************)
(* Type correctness; and the rows are those of a store with its foreign    *)
(* key: a message has a chat, and an id is that of one row.                *)
(***************************************************************************)
THEOREM TypeCorrect == Spec => []TypeOK
  BY StoreInvariant, PTL

-----------------------------------------------------------------------------
(* What a walk misses. *)

Reached == offset + Cardinality(page)

MissesFew(o, got) ==
    Cardinality(MissedIn(Here, Lasting, o, got)) <= Cardinality(gone)

(***************************************************************************)
(* Of the rows that lasted, those on the pages passed that were not given  *)
(* are no more than the rows that left; the same holds of the page read    *)
(* but not yet replied, and with it of the whole listing if it is the last *)
(* one.  Both have to be kept, since a request that fails goes back.       *)
(***************************************************************************)
SkipInv ==
    /\ Walking => MissesFew(offset, seen) /\ MissesFew(Reached, seen \cup page)
    /\ "page" \in reads /\ Cardinality(page) < limit =>
          Cardinality(Lasting \ (seen \cup page)) <= Cardinality(gone)
    /\ OnlyDeletionsSkip

LEMMA SizesAreNat ==
  ASSUME TypeOK, StoreInv
  PROVE  /\ Cardinality(page) \in Nat /\ Cardinality(gone) \in Nat /\ Cardinality(new) \in Nat
         /\ offset \in Nat /\ Reached \in Nat /\ limit \in Nat
         /\ IsFiniteSet(Here) /\ Cardinality(Here) \in Nat
         /\ IsFiniteSet(Lasting)
  <1>1. Lasting \in SUBSET first
    BY DEF Lasting
  <1>2. IsFiniteSet(Lasting)
    BY <1>1, FS_Subset DEF StoreInv
  <1> QED
    BY <1>2, HereIsSortable, LimitIsNat, FS_CardinalityType DEF StoreInv, Sortable, TypeOK, Reached

LEMMA MissedSize ==
  ASSUME NEW S, NEW F, IsFiniteSet(F), NEW o, NEW got
  PROVE  IsFiniteSet(MissedIn(S, F, o, got)) /\ Cardinality(MissedIn(S, F, o, got)) \in Nat
  <1>1. MissedIn(S, F, o, got) \in SUBSET F
    BY DEF MissedIn
  <1> QED  BY <1>1, FS_Subset, FS_CardinalityType

(* A commit moves at most one row across, and then it is one that left. *)
LEMMA CommitMisses ==
  ASSUME TypeOK, StoreInv, Walking, Commit, NEW o \in Nat, NEW got,
         Cardinality(MissedIn(Here, Lasting, o, got)) <= Cardinality(gone)
  PROVE  Cardinality(MissedIn(Here', Lasting', o, got)) <= Cardinality(gone')
  <1>1. /\ IsFiniteSet(Here) /\ IsFiniteSet(Lasting) /\ Cardinality(gone) \in Nat
        /\ IsFiniteSet(gone) /\ Sortable(Here) /\ Lasting \subseteq Here
    BY SizesAreNat, HereIsSortable DEF StoreInv
  <1>2. Cardinality(MissedIn(Here, Lasting, o, got)) \in Nat
    BY <1>1, MissedSize
  <1>3. CASE Same
    BY <1>3 DEF Same, Lasting
  <1>4. ASSUME NEW d \in Rows, Came(d)
        PROVE  Cardinality(MissedIn(Here', Lasting', o, got)) <= Cardinality(gone')
    <2>1. Here' = Here \cup {d} /\ d \notin Here /\ Lasting' = Lasting /\ gone' = gone
      BY <1>4 DEF Came, Lasting
    <2>2. MissedIn(Here \cup {d}, Lasting, o, got) \in SUBSET MissedIn(Here, Lasting, o, got)
      BY <1>1, <2>1, MissedWithOneMore
    <2>3. IsFiniteSet(MissedIn(Here, Lasting, o, got))
      BY <1>1, MissedSize
    <2>4. /\ Cardinality(MissedIn(Here \cup {d}, Lasting, o, got))
                <= Cardinality(MissedIn(Here, Lasting, o, got))
          /\ Cardinality(MissedIn(Here \cup {d}, Lasting, o, got)) \in Nat
      BY <1>1, <2>2, <2>3, FS_Subset, MissedSize
    <2> QED  BY <1>1, <1>2, <2>1, <2>4
  <1>5. ASSUME NEW d \in Here, Went(d)
        PROVE  Cardinality(MissedIn(Here', Lasting', o, got)) <= Cardinality(gone')
    <2>1. /\ Here' = Here \ {d} /\ Lasting' = Lasting \ {d}
          /\ gone' = gone \cup {d} /\ d \notin gone
      BY <1>5 DEF Went, Lasting
    <2>2. Cardinality(gone') = Cardinality(gone) + 1
      BY <1>1, <2>1, FS_AddElement
    <2>3. LET m == MissedIn(Here \ {d}, Lasting \ {d}, o, got)
          IN  /\ Cardinality(m) \in Nat
              /\ Cardinality(m) <= Cardinality(MissedIn(Here, Lasting, o, got)) + 1
      BY <1>1, MissedWithOneLess
    <2> QED  BY <1>1, <1>2, <2>1, <2>2, <2>3
  <1>6. CASE Emptied
    <2>1. Lasting' = {} /\ gone' = gone \cup Here
      BY <1>1, <1>6 DEF Emptied, Lasting
    <2>2. MissedIn(Here', Lasting', o, got) = {}
      BY <2>1 DEF MissedIn
    <2>3. Cardinality(gone') \in Nat
      BY <1>1, <2>1, FS_Union, FS_CardinalityType
    <2>4. Cardinality(MissedIn(Here', Lasting', o, got)) = 0
      BY <2>2, FS_EmptySet
    <2> QED  BY <2>3, <2>4
  <1> QED  BY <1>3, <1>4, <1>5, <1>6, CommitIs

(* Nor does one make a last page miss a row that lasted. *)
LEMMA CommitLosesNone ==
  ASSUME TypeOK, StoreInv, Commit, NEW got,
         Cardinality(Lasting \ got) <= Cardinality(gone)
  PROVE  Cardinality(Lasting' \ got) <= Cardinality(gone')
  <1>1. gone \subseteq gone' /\ first' = first
    <2>1. CASE Walking
      BY <2>1, CommitIs, CommitFrame DEF Same, Came, Went, Emptied
    <2>2. CASE ~Walking
      BY <2>2, CommittedHistory
    <2> QED  BY <2>1, <2>2
  <1>2. IsFiniteSet(gone') /\ IsFiniteSet(Lasting \ got)
    BY CommittedHistory, SizesAreNat, FS_Difference
  <1>3. gone \in SUBSET gone' /\ Lasting' \ got \in SUBSET (Lasting \ got)
    BY <1>1 DEF Lasting
  <1>4. Cardinality(gone) <= Cardinality(gone') /\ Cardinality(Lasting' \ got) <= Cardinality(Lasting \ got)
        /\ IsFiniteSet(gone) /\ IsFiniteSet(Lasting' \ got)
    BY <1>2, <1>3, FS_Subset
  <1>5. /\ Cardinality(gone) \in Nat /\ Cardinality(gone') \in Nat
        /\ Cardinality(Lasting \ got) \in Nat /\ Cardinality(Lasting' \ got) \in Nat
    BY <1>2, <1>4, FS_CardinalityType
  <1> QED  BY <1>4, <1>5

(* A step that leaves what is listed and what was given as they are. *)
LEMMA SkipStill ==
  ASSUME SkipInv, UNCHANGED <<listing, limit, first, offset, seen, page, gone>>, Here' = Here,
         pc' = pc \/ {pc, pc'} \subseteq {"between", "asked", "reading", "refused"},
         Walking' => Walking,
         "page" \in reads' => "page" \in reads
  PROVE  SkipInv'
  <1>1. Lasting' = Lasting /\ Reached' = Reached
    BY DEF Lasting, Reached
  <1>2. Walking' => MissesFew(offset, seen)' /\ MissesFew(Reached, seen \cup page)'
    BY <1>1 DEF SkipInv, MissesFew
  <1>3. OnlyDeletionsSkip'
    BY DEF SkipInv, OnlyDeletionsSkip
  <1> QED  BY <1>1, <1>2, <1>3 DEF SkipInv

(* A request that gives up: the client is where it was. *)
LEMMA SkipBack ==
  ASSUME TypeOK, SkipInv, UNCHANGED <<listing, first, offset, seen, gone>>, Here' = Here,
         Walking, pc' = "between", page' = {}, reads' = {}
  PROVE  SkipInv'
  <1>1. Cardinality(page') = 0
    BY FS_EmptySet
  <1>2. Lasting' = Lasting /\ Reached' = offset /\ seen' \cup page' = seen /\ offset' = offset
    BY <1>1 DEF Lasting, Reached, TypeOK
  <1>3. MissesFew(offset, seen)' /\ MissesFew(Reached, seen \cup page)'
    BY <1>2 DEF SkipInv, MissesFew
  <1> QED  BY <1>3 DEF SkipInv, OnlyDeletionsSkip

LEMMA SkipCommit ==
  ASSUME TypeOK, StoreInv, SkipInv, Commit
  PROVE  SkipInv'
  <1>1. UNCHANGED <<pc, page, reads, limit, offset, seen>> /\ (Walking' <=> Walking)
    BY CommitFrame DEF walk, given, Walking
  <1>2. offset \in Nat /\ Reached \in Nat /\ Reached' = Reached
    BY <1>1, SizesAreNat DEF Reached
  <1>3. ASSUME Walking PROVE MissesFew(offset, seen)' /\ MissesFew(Reached, seen \cup page)'
    <2>1. MissesFew(offset, seen) /\ MissesFew(Reached, seen \cup page)
      BY <1>3 DEF SkipInv
    <2>2. Cardinality(MissedIn(Here', Lasting', offset, seen)) <= Cardinality(gone')
      BY <1>2, <1>3, <2>1, CommitMisses DEF MissesFew
    <2>3. Cardinality(MissedIn(Here', Lasting', Reached, seen \cup page)) <= Cardinality(gone')
      BY <1>2, <1>3, <2>1, CommitMisses DEF MissesFew
    <2> QED  BY <1>1, <1>2, <2>2, <2>3 DEF MissesFew
  <1>4. "page" \in reads' /\ Cardinality(page') < limit' =>
           Cardinality(Lasting' \ (seen' \cup page')) <= Cardinality(gone')
    BY <1>1, CommitLosesNone DEF SkipInv
  <1>5. OnlyDeletionsSkip'
    BY <1>1, CommitLosesNone DEF SkipInv, OnlyDeletionsSkip, Lasting
  <1> QED  BY <1>1, <1>3, <1>4, <1>5 DEF SkipInv

(* Reading a page adds nothing to what is missed. *)
LEMMA SkipListRows ==
  ASSUME TypeOK, StoreInv, SkipInv, ListRows
  PROVE  SkipInv'
  <1>1. /\ pc = "reading" /\ "page" \notin reads /\ IsPage(page') /\ page' \subseteq Here
        /\ UNCHANGED <<rows, pc, listing, limit, first, offset, seen, gone>>
    BY DEF ListRows, store, walk, given, Here
  <1>2. /\ Here' = Here /\ Lasting' = Lasting /\ Walking /\ page = {} /\ Lasting \subseteq Here
        /\ offset \in Nat /\ limit \in Nat /\ Sortable(Here) /\ IsFiniteSet(Here)
        /\ Cardinality(gone) \in Nat /\ Cardinality(Here) \in Nat
    BY <1>1, SizesAreNat, HereIsSortable DEF Here, Listed, Lasting, Walking, StoreInv
  <1>3. page' = Slice(Here, offset, offset + limit)
    BY <1>1, HereIsRanked DEF IsPage, Slice, Here
  <1>4. /\ Cardinality(page') \in Nat
        /\ \A r \in Here : r \in page' <=> offset <= RankIn(Here, r)
                                          /\ RankIn(Here, r) < offset + Cardinality(page')
        /\ Cardinality(page') < limit => Cardinality(Here) <= offset + Cardinality(page')
    BY <1>2, <1>3, PageOfSlice
  <1>5. \A r \in Here : RankIn(Here, r) \in Nat /\ RankIn(Here, r) < Cardinality(Here)
    BY <1>2, RankIsBelowSize, FS_CardinalityType
  <1>6. MissedIn(Here, Lasting, offset + Cardinality(page'), seen \cup page')
           = MissedIn(Here, Lasting, offset, seen)
    <2> SUFFICES ASSUME NEW r \in Lasting, r \notin seen
                 PROVE  (r \notin page' /\ RankIn(Here, r) < offset + Cardinality(page'))
                            <=> RankIn(Here, r) < offset
      BY DEF MissedIn
    <2> QED  BY <1>2, <1>4, <1>5
  <1>7. MissesFew(offset, seen)' /\ MissesFew(Reached, seen \cup page)'
    BY <1>1, <1>2, <1>6 DEF SkipInv, MissesFew, Reached
  <1>8. ASSUME Cardinality(page') < limit
        PROVE  Cardinality(Lasting \ (seen \cup page')) <= Cardinality(gone)
    <2> DEFINE rest == Lasting \ (seen \cup page')
    <2>1. rest = MissedIn(Here, Lasting, offset + Cardinality(page'), seen \cup page')
      BY <1>2, <1>4, <1>5, <1>8 DEF MissedIn
    <2>2. MissesFew(offset, seen)
      BY <1>2 DEF SkipInv
    <2> HIDE DEF rest
    <2>3. Cardinality(rest) <= Cardinality(gone)
      BY <1>6, <2>1, <2>2 DEF MissesFew
    <2> QED  BY <2>3 DEF rest
  <1> QED  BY <1>1, <1>2, <1>7, <1>8 DEF SkipInv, OnlyDeletionsSkip

LEMMA SkipRespond ==
  ASSUME TypeOK, StoreInv, SkipInv, Respond
  PROVE  SkipInv'
  <1>1. /\ pc = "reading" /\ "page" \in reads
        /\ pc' = (IF Cardinality(page) < limit THEN "ended" ELSE "between")
        /\ offset' = Reached /\ seen' = seen \cup page /\ page' = {} /\ reads' = {}
        /\ UNCHANGED <<rows, listing, first, gone>>
    BY DEF Respond, store, walk, Reached
  <1>2. /\ Here' = Here /\ Lasting' = Lasting /\ Walking
        /\ Reached' = Reached /\ seen' \cup page' = seen \cup page
    <2>1. Cardinality(page') = 0 /\ Reached \in Nat
      BY <1>1, FS_EmptySet, SizesAreNat
    <2> QED  BY <1>1, <2>1 DEF Here, Listed, Lasting, Walking, Reached
  <1>3. MissesFew(Reached, seen \cup page)
    BY <1>2 DEF SkipInv
  <1>4. MissesFew(offset, seen)' /\ MissesFew(Reached, seen \cup page)'
    BY <1>1, <1>2, <1>3 DEF MissesFew
  <1>5. OnlyDeletionsSkip'
    <2> SUFFICES ASSUME pc' = "ended"
                 PROVE  Cardinality(Lasting \ (seen \cup page)) <= Cardinality(gone)
      BY <1>1 DEF OnlyDeletionsSkip, Lasting
    <2> QED  BY <1>1 DEF SkipInv
  <1> QED  BY <1>1, <1>4, <1>5 DEF SkipInv

LEMMA SkipBegin ==
  ASSUME TypeOK, StoreInv, Begin
  PROVE  SkipInv'
  <1>1. /\ pc' = "between" /\ reads' = {} /\ offset' = 0 /\ gone' = {} /\ page' = {}
        /\ first' = Listed(listing') /\ rows' = rows
    BY DEF Begin, StoreInv, request, given, store
  <1>2. Reached' = 0 /\ Cardinality(gone') = 0
    BY <1>1, FS_EmptySet DEF Reached
  <1>3. Lasting' = Here' /\ IsFiniteSet(Here')
    <2>1. Here' \in SUBSET rows
      BY <1>1 DEF Here, Listed
    <2>2. IsFiniteSet(Here')
      BY <2>1, FS_Subset DEF StoreInv
    <2> QED  BY <1>1, <2>2 DEF Lasting, Here, Listed
  <1>4. \A got : MissedIn(Here', Lasting', 0, got) = {}
    <2>1. \A r \in Here' : RankIn(Here', r) \in Nat
      BY <1>3, RankIsNat
    <2> QED  BY <1>3, <2>1 DEF MissedIn
  <1>5. MissesFew(offset, seen)' /\ MissesFew(Reached, seen \cup page)'
    BY <1>1, <1>2, <1>4, FS_EmptySet DEF MissesFew
  <1> QED  BY <1>1, <1>5 DEF SkipInv, OnlyDeletionsSkip

LEMMA SkipStep ==
  ASSUME TypeOK, StoreInv, SkipInv, [Next]_vars
  PROVE  SkipInv'
  <1> USE DEF store, process, request, walk, given
  <1>1. CASE Commit
    BY <1>1, SkipCommit
  <1>2. CASE Begin \/ ListRows \/ Respond
    BY <1>2, SkipBegin, SkipListRows, SkipRespond
  <1>3. CASE Ask \/ GetMessageServiceFails \/ EnsureChatExists \/ CountRows \/ Settle \/ UNCHANGED vars
    <2>1. /\ UNCHANGED <<rows, listing, limit, first, offset, seen, page, gone>>
          /\ pc' = pc \/ {pc, pc'} \subseteq {"between", "asked", "reading", "refused"}
          /\ Walking' => Walking
          /\ "page" \in reads' => "page" \in reads
      BY <1>3 DEF Ask, GetMessageServiceFails, EnsureChatExists, CountRows, Settle, vars, Walking
    <2>2. Here' = Here
      BY <2>1 DEF Here, Listed
    <2> QED  BY <2>1, <2>2, SkipStill
  <1>4. CASE ReadFails \/ Restart
    <2>1. UNCHANGED <<rows, listing, limit, first, offset, seen, gone>>
      BY <1>4 DEF ReadFails, Restart
    <2>2. Here' = Here
      BY <2>1 DEF Here, Listed
    <2>3. CASE GiveUp
      BY <2>1, <2>2, <2>3, SkipBack DEF GiveUp, Walking
    <2>4. CASE UNCHANGED <<pc, request>>
      BY <2>1, <2>2, <2>4, SkipStill DEF Walking
    <2> QED  BY <1>4, <2>3, <2>4 DEF ReadFails, Restart
  <1> QED  BY <1>1, <1>2, <1>3, <1>4 DEF Next, Serve, Commit

(***************************************************************************)
(* A walk that came to its end misses no more rows than were deleted on    *)
(* the way, whatever came and went, with whatever stamps, and however      *)
(* often a request failed: of a chat nobody deletes, it misses no message. *)
(***************************************************************************)
THEOREM DeletionsSkipAtMost == Spec => []OnlyDeletionsSkip
  <1>1. Init => SkipInv
    BY DEF Init, SkipInv, OnlyDeletionsSkip, Walking
  <1>2. TypeOK /\ StoreInv /\ SkipInv /\ [Next]_vars => SkipInv'
    BY SkipStep
  <1>3. SkipInv => OnlyDeletionsSkip
    BY DEF SkipInv
  <1> QED  BY <1>1, <1>2, <1>3, StoreInvariant, PTL DEF Spec

-----------------------------------------------------------------------------
(* What a walk is given again. *)

(***************************************************************************)
(* The rows given again so far, and those that are ahead though they were  *)
(* given, are together no more than the rows that came; the same holds     *)
(* with the page read but not yet replied.                                 *)
(***************************************************************************)
RepeatInv ==
    /\ Walking =>
         /\ repeats + Cardinality(AgainIn(Here, offset, seen)) <= Cardinality(new)
         /\ (repeats + Cardinality(page \cap seen))
               + Cardinality(AgainIn(Here, Reached, seen \cup page)) <= Cardinality(new)
    /\ OnlyInsertionsRepeat

LEMMA AgainSize ==
  ASSUME NEW S, IsFiniteSet(S), NEW o, NEW got
  PROVE  IsFiniteSet(AgainIn(S, o, got)) /\ Cardinality(AgainIn(S, o, got)) \in Nat
  <1>1. AgainIn(S, o, got) \in SUBSET S
    BY DEF AgainIn
  <1> QED  BY <1>1, FS_Subset, FS_CardinalityType

(* A commit moves at most one row back, and then another one came. *)
LEMMA CommitRepeats ==
  ASSUME TypeOK, StoreInv, Walking, Commit, NEW o \in Nat, NEW got, got \subseteq seen \cup page,
         NEW n \in Nat, n + Cardinality(AgainIn(Here, o, got)) <= Cardinality(new)
  PROVE  n + Cardinality(AgainIn(Here', o, got)) <= Cardinality(new')
  <1>1. /\ IsFiniteSet(Here) /\ Cardinality(new) \in Nat /\ IsFiniteSet(new) /\ Sortable(Here)
        /\ IsFiniteSet(AgainIn(Here, o, got)) /\ Cardinality(AgainIn(Here, o, got)) \in Nat
    BY SizesAreNat, HereIsSortable, AgainSize DEF StoreInv
  <1>2. CASE Same
    BY <1>2 DEF Same
  <1>3. ASSUME NEW d \in Rows, Came(d)
        PROVE  n + Cardinality(AgainIn(Here', o, got)) <= Cardinality(new')
    <2>1. /\ Here' = Here \cup {d} /\ d \notin Here /\ d \notin got
          /\ new' = new \cup {d} /\ d \notin new
      BY <1>3 DEF Came
    <2>2. Cardinality(new') = Cardinality(new) + 1
      BY <1>1, <2>1, FS_AddElement
    <2>3. LET a == AgainIn(Here \cup {d}, o, got)
          IN  Cardinality(a) \in Nat /\ Cardinality(a) <= Cardinality(AgainIn(Here, o, got)) + 1
      BY <1>1, <2>1, AgainWithOneMore
    <2> QED  BY <1>1, <2>1, <2>2, <2>3
  <1>4. ASSUME NEW d \in Here, Went(d)
        PROVE  n + Cardinality(AgainIn(Here', o, got)) <= Cardinality(new')
    <2>1. Here' = Here \ {d} /\ new' = new
      BY <1>4 DEF Went
    <2>2. AgainIn(Here \ {d}, o, got) \in SUBSET AgainIn(Here, o, got)
      BY <1>1, AgainWithOneLess
    <2>3. /\ IsFiniteSet(AgainIn(Here \ {d}, o, got))
          /\ Cardinality(AgainIn(Here \ {d}, o, got)) <= Cardinality(AgainIn(Here, o, got))
      BY <1>1, <2>2, FS_Subset
    <2>4. Cardinality(AgainIn(Here \ {d}, o, got)) \in Nat
      BY <2>3, FS_CardinalityType
    <2> QED  BY <1>1, <2>1, <2>3, <2>4
  <1>5. CASE Emptied
    <2>1. new' = new /\ AgainIn(Here', o, got) = {}
      BY <1>5 DEF Emptied, AgainIn
    <2>2. Cardinality(AgainIn(Here', o, got)) = 0
      BY <2>1, FS_EmptySet
    <2> QED  BY <1>1, <2>1, <2>2
  <1> QED  BY <1>2, <1>3, <1>4, <1>5, CommitIs

LEMMA RepeatStill ==
  ASSUME RepeatInv, UNCHANGED <<listing, offset, seen, page, new, repeats>>, Here' = Here,
         Walking' => Walking
  PROVE  RepeatInv'
  BY DEF RepeatInv, OnlyInsertionsRepeat, Reached

LEMMA RepeatBack ==
  ASSUME TypeOK, StoreInv, RepeatInv, UNCHANGED <<offset, seen, new, repeats>>, Here' = Here,
         Walking, page' = {}
  PROVE  RepeatInv'
  <1>1. Cardinality(page') = 0 /\ Cardinality(page' \cap seen) = 0 /\ seen \cup page' = seen
    BY FS_EmptySet
  <1>2. Reached' = offset /\ repeats + Cardinality(page' \cap seen) = repeats
    BY <1>1 DEF Reached, TypeOK
  <1>3. repeats + Cardinality(AgainIn(Here, offset, seen)) <= Cardinality(new)
    BY DEF RepeatInv
  <1>4. OnlyInsertionsRepeat'
    BY DEF RepeatInv, OnlyInsertionsRepeat
  <1> QED  BY <1>1, <1>2, <1>3, <1>4 DEF RepeatInv

LEMMA RepeatCommit ==
  ASSUME TypeOK, StoreInv, RepeatInv, Commit
  PROVE  RepeatInv'
  <1>1. UNCHANGED <<pc, page, offset, seen, repeats>> /\ (Walking' <=> Walking)
    BY CommitFrame DEF given, Walking
  <1>2. /\ offset \in Nat /\ Reached \in Nat /\ Reached' = Reached /\ repeats \in Nat
        /\ Cardinality(page \cap seen) \in Nat
    BY <1>1, SizesAreNat, FS_Intersection, FS_CardinalityType DEF Reached, StoreInv, TypeOK
  <1>3. CASE Walking
    <2>1. /\ repeats + Cardinality(AgainIn(Here, offset, seen)) <= Cardinality(new)
          /\ (repeats + Cardinality(page \cap seen))
                + Cardinality(AgainIn(Here, Reached, seen \cup page)) <= Cardinality(new)
      BY <1>3 DEF RepeatInv
    <2>2. repeats + Cardinality(AgainIn(Here', offset, seen)) <= Cardinality(new')
      BY <1>2, <1>3, <2>1, CommitRepeats
    <2>3. (repeats + Cardinality(page \cap seen))
             + Cardinality(AgainIn(Here', Reached, seen \cup page)) <= Cardinality(new')
      <3>1. repeats + Cardinality(page \cap seen) \in Nat
        BY <1>2
      <3> QED  BY <1>2, <1>3, <2>1, <3>1, CommitRepeats
    <2>4. repeats <= Cardinality(new')
      <3>1. IsFiniteSet(Here') /\ Cardinality(new') \in Nat
        <4>1. Here' \in SUBSET rows'
          BY DEF Here, Listed
        <4> QED  BY <4>1, CommittedRows, CommittedHistory, FS_Subset, FS_CardinalityType
      <3>2. Cardinality(AgainIn(Here', offset, seen)) \in Nat
        BY <3>1, AgainSize
      <3> QED  BY <1>2, <2>2, <3>1, <3>2
    <2> QED  BY <1>1, <1>2, <2>2, <2>3, <2>4 DEF RepeatInv, OnlyInsertionsRepeat
  <1>4. CASE ~Walking
    BY <1>1, <1>4, CommittedHistory DEF RepeatInv, OnlyInsertionsRepeat
  <1> QED  BY <1>3, <1>4

(* Reading a page moves rows from those ahead to those given again. *)
LEMMA RepeatListRows ==
  ASSUME TypeOK, StoreInv, RepeatInv, ListRows
  PROVE  RepeatInv'
  <1>1. /\ pc = "reading" /\ IsPage(page') /\ page' \subseteq Here
        /\ UNCHANGED <<rows, pc, listing, offset, seen, new, repeats>>
    BY DEF ListRows, store, walk, given, Here
  <1>2. /\ Here' = Here /\ Walking /\ offset \in Nat /\ limit \in Nat /\ repeats \in Nat
        /\ Sortable(Here) /\ IsFiniteSet(Here) /\ Cardinality(new) \in Nat
    BY <1>1, SizesAreNat, HereIsSortable DEF Here, Listed, Walking, TypeOK
  <1>3. page' = Slice(Here, offset, offset + limit)
    BY <1>1, HereIsRanked DEF IsPage, Slice, Here
  <1>4. /\ IsFiniteSet(page') /\ Cardinality(page') \in Nat
        /\ \A r \in Here : r \in page' <=> offset <= RankIn(Here, r)
                                          /\ RankIn(Here, r) < offset + Cardinality(page')
    BY <1>2, <1>3, PageOfSlice
  <1>5. \A r \in Here : RankIn(Here, r) \in Nat
    BY <1>2, RankIsNat
  <1> DEFINE A == page' \cap seen
             B == AgainIn(Here, offset + Cardinality(page'), seen \cup page')
             C == AgainIn(Here, offset, seen)
  <1>6. A \cap B = {} /\ A \cup B \in SUBSET C
    BY <1>1, <1>4, <1>5, <1>2 DEF AgainIn
  <1>7. IsFiniteSet(A) /\ IsFiniteSet(B) /\ IsFiniteSet(C) /\ Cardinality(C) \in Nat
    BY <1>2, <1>4, AgainSize, FS_Intersection
  <1>8. repeats + Cardinality(C) <= Cardinality(new)
    BY <1>2 DEF RepeatInv
  <1>9. (repeats + Cardinality(A)) + Cardinality(B) <= Cardinality(new)
    <2> HIDE DEF A, B, C
    <2>1. Cardinality(A \cup B) = Cardinality(A) + Cardinality(B) - Cardinality(A \cap B)
      BY <1>7, FS_Union
    <2>2. Cardinality(A \cap B) = 0
      BY <1>6, FS_EmptySet
    <2>3. Cardinality(A \cup B) <= Cardinality(C)
      BY <1>6, <1>7, FS_Subset
    <2>4. Cardinality(A) \in Nat /\ Cardinality(B) \in Nat
      BY <1>7, FS_CardinalityType
    <2> QED  BY <1>2, <1>7, <1>8, <2>1, <2>2, <2>3, <2>4
  <1>10. Reached' = offset + Cardinality(page')
    BY <1>1 DEF Reached
  <1>11. OnlyInsertionsRepeat'
    BY <1>1 DEF RepeatInv, OnlyInsertionsRepeat
  <1> QED  BY <1>1, <1>2, <1>8, <1>9, <1>10, <1>11 DEF RepeatInv

LEMMA RepeatRespond ==
  ASSUME TypeOK, StoreInv, RepeatInv, Respond
  PROVE  RepeatInv'
  <1>1. /\ pc = "reading" /\ offset' = Reached /\ seen' = seen \cup page /\ page' = {}
        /\ repeats' = repeats + Cardinality(page \cap seen)
        /\ UNCHANGED <<rows, listing, new>>
    BY DEF Respond, store, walk, Reached
  <1>2. /\ Here' = Here /\ Walking /\ Reached \in Nat /\ IsFiniteSet(Here)
        /\ Cardinality(new) \in Nat /\ repeats' \in Nat
    <2>1. TypeOK'
      BY TypeStep DEF Next, Serve
    <2> QED  BY <1>1, <2>1, SizesAreNat DEF Here, Listed, Walking, TypeOK
  <1>3. repeats' + Cardinality(AgainIn(Here', offset', seen')) <= Cardinality(new')
    BY <1>1, <1>2 DEF RepeatInv
  <1>4. Cardinality(page') = 0 /\ Cardinality(page' \cap seen') = 0 /\ seen' \cup page' = seen'
    BY <1>1, FS_EmptySet
  <1>5. Reached' = offset' /\ repeats' + Cardinality(page' \cap seen') = repeats'
    BY <1>1, <1>2, <1>4 DEF Reached
  <1>6. repeats' <= Cardinality(new')
    <2>1. Cardinality(AgainIn(Here', offset', seen')) \in Nat
      BY <1>2, AgainSize
    <2> QED  BY <1>1, <1>2, <1>3, <2>1
  <1> QED  BY <1>3, <1>4, <1>5, <1>6 DEF RepeatInv, OnlyInsertionsRepeat

LEMMA RepeatBegin ==
  ASSUME TypeOK, StoreInv, Begin
  PROVE  RepeatInv'
  <1>1. offset' = 0 /\ seen' = {} /\ page' = {} /\ repeats' = 0 /\ new' = {}
    BY DEF Begin, StoreInv, request, given
  <1>2. Cardinality(new') = 0 /\ Cardinality(page' \cap seen') = 0
    BY <1>1, FS_EmptySet
  <1>3. \A o : AgainIn(Here', o, seen') = {} /\ AgainIn(Here', o, seen' \cup page') = {}
    BY <1>1 DEF AgainIn
  <1>4. \A o : Cardinality(AgainIn(Here', o, seen')) = 0
               /\ Cardinality(AgainIn(Here', o, seen' \cup page')) = 0
    BY <1>3, FS_EmptySet
  <1> QED  BY <1>1, <1>2, <1>4 DEF RepeatInv, OnlyInsertionsRepeat

LEMMA RepeatStep ==
  ASSUME TypeOK, StoreInv, RepeatInv, [Next]_vars
  PROVE  RepeatInv'
  <1> USE DEF store, process, request, walk, given
  <1>1. CASE Commit
    BY <1>1, RepeatCommit
  <1>2. CASE Begin \/ ListRows \/ Respond
    BY <1>2, RepeatBegin, RepeatListRows, RepeatRespond
  <1>3. CASE Ask \/ GetMessageServiceFails \/ EnsureChatExists \/ CountRows \/ Settle \/ UNCHANGED vars
    <2>1. UNCHANGED <<rows, listing, offset, seen, page, new, repeats>> /\ (Walking' => Walking)
      BY <1>3 DEF Ask, GetMessageServiceFails, EnsureChatExists, CountRows, Settle, vars, Walking
    <2>2. Here' = Here
      BY <2>1 DEF Here, Listed
    <2> QED  BY <2>1, <2>2, RepeatStill
  <1>4. CASE ReadFails \/ Restart
    <2>1. UNCHANGED <<rows, listing, offset, seen, new, repeats>>
      BY <1>4 DEF ReadFails, Restart
    <2>2. Here' = Here
      BY <2>1 DEF Here, Listed
    <2>3. CASE GiveUp
      BY <2>1, <2>2, <2>3, RepeatBack DEF GiveUp, Walking
    <2>4. CASE UNCHANGED <<pc, request>>
      BY <2>1, <2>2, <2>4, RepeatStill DEF Walking
    <2> QED  BY <1>4, <2>3, <2>4 DEF ReadFails, Restart
  <1> QED  BY <1>1, <1>2, <1>3, <1>4 DEF Next, Serve, Commit

(***************************************************************************)
(* A walk is given a row again no more often than rows came on the way:    *)
(* neither a deletion nor a request that fails and is asked again repeats  *)
(* anything.                                                               *)
(***************************************************************************)
THEOREM InsertionsRepeatAtMost == Spec => []OnlyInsertionsRepeat
  <1>1. Init => RepeatInv
    <2>1. Cardinality({}) = 0
      BY FS_EmptySet
    <2> QED  BY <2>1 DEF Init, RepeatInv, OnlyInsertionsRepeat, Walking
  <1>2. TypeOK /\ StoreInv /\ RepeatInv /\ [Next]_vars => RepeatInv'
    BY RepeatStep
  <1>3. RepeatInv => OnlyInsertionsRepeat
    BY DEF RepeatInv
  <1> QED  BY <1>1, <1>2, <1>3, StoreInvariant, PTL DEF Spec

-----------------------------------------------------------------------------
(* The total of a reply, and its page. *)

(* What was read first is off by no more than came or left since. *)
TotalInv ==
    /\ reads = {"page"} =>
         /\ page # {} => Reached <= Cardinality(Here) + between
         /\ Cardinality(page) < limit => Cardinality(Here) <= Reached + between
    /\ reads = {"total"} =>
         /\ total <= Cardinality(Here) + between
         /\ Cardinality(Here) <= total + between
    /\ TotalAgrees

LEMMA ReadsAre ==
  /\ Cardinality({"page"}) = 1 /\ Cardinality({"total"}) = 1 /\ Cardinality({"page", "total"}) = 2
  /\ {"page"} # {"page", "total"} /\ {"total"} # {"page", "total"} /\ {"page"} # {"total"}
  <1>1. Cardinality({"page"}) = 1 /\ Cardinality({"total"}) = 1 /\ IsFiniteSet({"page"})
    BY FS_Singleton
  <1>2. {"page", "total"} = {"page"} \cup {"total"} /\ "total" \notin {"page"}
    OBVIOUS
  <1>3. Cardinality({"page", "total"}) = 2
    BY <1>1, <1>2, FS_AddElement
  <1>4. {"page"} # {"page", "total"} /\ {"total"} # {"page", "total"} /\ {"page"} # {"total"}
    OBVIOUS
  <1> QED  BY <1>1, <1>3, <1>4

(* Between two reads, the size of the listing changes by no more than is counted. *)
LEMMA CommitCounts ==
  ASSUME TypeOK, StoreInv, Walking, Commit, Cardinality(reads) = 1
  PROVE  /\ Cardinality(Here') \in Nat /\ between' \in Nat
         /\ Cardinality(Here) + between <= Cardinality(Here') + between'
         /\ Cardinality(Here') + between <= Cardinality(Here) + between'
         /\ between <= between'
  <1>1. IsFiniteSet(Here) /\ Cardinality(Here) \in Nat /\ between \in Nat
    BY SizesAreNat DEF TypeOK
  <1>2. CASE Same
    BY <1>1, <1>2 DEF Same
  <1>3. ASSUME NEW d \in Rows, Came(d)
        PROVE  Cardinality(Here') = Cardinality(Here) + 1 /\ between' = between + 1
    <2>1. Here' = Here \cup {d} /\ d \notin Here /\ between' = between + 1
      BY <1>3 DEF Came
    <2> QED  BY <1>1, <2>1, FS_AddElement
  <1>4. ASSUME NEW d \in Here, Went(d)
        PROVE  Cardinality(Here') = Cardinality(Here) - 1 /\ between' = between + 1 /\ Cardinality(Here') \in Nat
    <2>1. Here' = Here \ {d} /\ d \in Here /\ between' = between + 1
      BY <1>4 DEF Went
    <2>2. Cardinality(Here') = Cardinality(Here) - 1 /\ IsFiniteSet(Here')
      BY <1>1, <2>1, FS_RemoveElement
    <2> QED  BY <2>1, <2>2, FS_CardinalityType
  <1>5. CASE Emptied
    <2>1. Cardinality(Here') = 0 /\ between' = between + Cardinality(Here)
      BY <1>5, FS_EmptySet DEF Emptied
    <2> QED  BY <1>1, <2>1
  <1>6. CASE \E d \in Rows : Came(d)
    BY <1>1, <1>3, <1>6
  <1>7. CASE \E d \in Here : Went(d)
    BY <1>1, <1>4, <1>7
  <1> QED  BY <1>2, <1>5, <1>6, <1>7, CommitIs

LEMMA TotalCommit ==
  ASSUME TypeOK, StoreInv, TotalInv, Commit
  PROVE  TotalInv'
  <1>1. UNCHANGED <<pc, page, total, reads, limit, offset>> /\ Reached' = Reached
    BY CommitFrame DEF walk, given, Reached
  <1>2. /\ Reached \in Nat /\ total \in Nat /\ Cardinality(Here) \in Nat /\ between \in Nat
    BY SizesAreNat DEF TypeOK
  <1>3. CASE reads \in {{"page"}, {"total"}}
    <2>1. Cardinality(reads) = 1 /\ reads # {"page", "total"}
      BY <1>3, ReadsAre
    <2>2. Walking
      BY <1>3 DEF StoreInv, Walking
    <2>3. /\ Cardinality(Here') \in Nat /\ between' \in Nat
          /\ Cardinality(Here) + between <= Cardinality(Here') + between'
          /\ Cardinality(Here') + between <= Cardinality(Here) + between'
          /\ between <= between'
      BY <2>1, <2>2, CommitCounts
    <2>4. reads = {"page"} =>
             /\ page # {} => Reached <= Cardinality(Here') + between'
             /\ Cardinality(page) < limit => Cardinality(Here') <= Reached + between'
      BY <1>2, <2>3 DEF TotalInv
    <2>5. reads = {"total"} =>
             /\ total <= Cardinality(Here') + between'
             /\ Cardinality(Here') <= total + between'
      BY <1>2, <2>3 DEF TotalInv
    <2> QED  BY <1>1, <2>1, <2>4, <2>5 DEF TotalInv, TotalAgrees
  <1>4. CASE reads = {"page", "total"}
    <2>1. Cardinality(reads) = 2
      BY <1>4, ReadsAre
    <2>2. between' = between
      BY <2>1 DEF Commit, CreateChat, CreateMessage, DeleteChat, Insert, Note
    <2> QED  BY <1>1, <1>4, <2>2, ReadsAre DEF TotalInv, TotalAgrees
  <1>5. CASE reads = {}
    BY <1>1, <1>5 DEF TotalInv, TotalAgrees
  <1>6. reads \in {{"page"}, {"total"}, {"page", "total"}, {}}
    BY DEF TypeOK
  <1> QED  BY <1>3, <1>4, <1>5, <1>6

LEMMA TotalListRows ==
  ASSUME TypeOK, StoreInv, TotalInv, ListRows
  PROVE  TotalInv'
  <1>1. /\ pc = "reading" /\ "page" \notin reads /\ reads' = reads \cup {"page"} /\ IsPage(page')
        /\ UNCHANGED <<rows, listing, limit, offset, total, between>>
    BY DEF ListRows, store, walk, given
  <1>2. /\ Here' = Here /\ offset \in Nat /\ limit \in Nat /\ Sortable(Here)
        /\ Cardinality(Here) \in Nat /\ between \in Nat /\ total \in Nat
    BY <1>1, SizesAreNat, HereIsSortable DEF Here, Listed, TypeOK
  <1>3. page' = Slice(Here, offset, offset + limit)
    BY <1>1, HereIsRanked DEF IsPage, Slice, Here
  <1>4. /\ Cardinality(page') \in Nat
        /\ Cardinality(page') < limit => Cardinality(Here) <= offset + Cardinality(page')
        /\ page' # {} => offset + Cardinality(page') <= Cardinality(Here)
    BY <1>2, <1>3, PageOfSlice
  <1>5. reads = {} \/ reads = {"total"}
    BY <1>1 DEF TypeOK
  <1>6. CASE reads = {}
    <2>1. reads' = {"page"} /\ Reached' = offset + Cardinality(page')
      BY <1>1, <1>6 DEF Reached
    <2> QED  BY <1>1, <1>2, <1>4, <2>1, ReadsAre DEF TotalInv, TotalAgrees
  <1>7. CASE reads = {"total"}
    <2>1. reads' = {"page", "total"}
      BY <1>1, <1>7
    <2>2. total <= Cardinality(Here) + between /\ Cardinality(Here) <= total + between
      BY <1>7 DEF TotalInv
    <2>3. TotalAgrees'
      BY <1>1, <1>2, <1>4, <2>2 DEF TotalAgrees
    <2> QED  BY <2>1, <2>3, ReadsAre DEF TotalInv
  <1> QED  BY <1>5, <1>6, <1>7

LEMMA TotalCountRows ==
  ASSUME TypeOK, StoreInv, TotalInv, CountRows
  PROVE  TotalInv'
  <1>1. /\ "total" \notin reads /\ reads' = reads \cup {"total"} /\ total' = Cardinality(Here)
        /\ UNCHANGED <<rows, listing, limit, offset, page, between>>
    BY DEF CountRows, store, walk, given, Here
  <1>2. Here' = Here /\ Cardinality(Here) \in Nat /\ between \in Nat
    BY <1>1, SizesAreNat DEF Here, Listed, TypeOK
  <1>3. reads = {} \/ reads = {"page"}
    BY <1>1 DEF TypeOK
  <1>4. CASE reads = {}
    <2>1. reads' = {"total"}
      BY <1>1, <1>4
    <2> QED  BY <1>1, <1>2, <2>1, ReadsAre DEF TotalInv, TotalAgrees
  <1>5. CASE reads = {"page"}
    <2>1. reads' = {"page", "total"}
      BY <1>1, <1>5
    <2>2. TotalAgrees'
      BY <1>1, <1>5 DEF TotalInv, TotalAgrees, Reached
    <2> QED  BY <2>1, <2>2, ReadsAre DEF TotalInv
  <1> QED  BY <1>3, <1>4, <1>5

LEMMA TotalStep ==
  ASSUME TypeOK, StoreInv, TotalInv, [Next]_vars
  PROVE  TotalInv'
  <1> USE DEF store, process, request, walk, given
  <1>1. CASE Commit
    BY <1>1, TotalCommit
  <1>2. CASE ListRows \/ CountRows
    BY <1>2, TotalListRows, TotalCountRows
  <1>3. ASSUME reads' = {} PROVE TotalInv'
    BY <1>3 DEF TotalInv, TotalAgrees
  <1>4. CASE Begin \/ Ask \/ GetMessageServiceFails \/ EnsureChatExists \/ Respond \/ ReadFails
    BY <1>3, <1>4 DEF Begin, Ask, GetMessageServiceFails, EnsureChatExists, Respond, ReadFails,
                      GiveUp, StoreInv
  <1>5. CASE Restart \/ Settle \/ UNCHANGED vars
    <2>1. CASE GiveUp
      BY <1>3, <2>1 DEF GiveUp
    <2>2. CASE UNCHANGED <<rows, listing, limit, offset, page, total, reads, between>>
      <3>1. Here' = Here /\ Reached' = Reached
        BY <2>2 DEF Here, Listed, Reached
      <3> QED  BY <2>2, <3>1 DEF TotalInv, TotalAgrees
    <2> QED  BY <1>5, <2>1, <2>2 DEF Restart, Settle, vars
  <1> QED  BY <1>1, <1>2, <1>4, <1>5 DEF Next, Serve, Commit

(***************************************************************************)
(* The total and the page of a reply, read on two connections in either    *)
(* order, disagree by no more rows than came or left between the reads.    *)
(***************************************************************************)
THEOREM TotalsAreClose == Spec => []TotalAgrees
  <1>1. Init => TotalInv
    BY DEF Init, TotalInv, TotalAgrees
  <1>2. TypeOK /\ StoreInv /\ TotalInv /\ [Next]_vars => TotalInv'
    BY TotalStep
  <1>3. TotalInv => TotalAgrees
    BY DEF TotalInv
  <1> QED  BY <1>1, <1>2, <1>3, StoreInvariant, PTL DEF Spec

=============================================================================
