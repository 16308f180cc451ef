--------------------------- MODULE AnsweringProofs ---------------------------
(***************************************************************************)
(* Proofs about a retrieval: what it promises about its models, about what *)
(* was withdrawn, and about what failed; about the lists of conversations  *)
(* and messages, read page by page while others write; about uploads,      *)
(* purges and extractions that fail between their steps; and about what a  *)
(* model is asked with while turns overlap and templates are edited.       *)
(***************************************************************************)
EXTENDS Retrieval, Composer, Conversations, Intake, SequenceTheorems, FiniteSetTheorems, WellFoundedInduction, TLAPS

RetrievalSpec == RetrievalInit /\ [][RetrievalNext]_retrievalVars

-----------------------------------------------------------------------------
(* The values of the variables.                                            *)
Hits == [chunk : Chunks, score : Int]
Asked == {r.mode : r \in Requests} \union {"vector"}
Searching == {"embed", "vector", "fts"}
Before == {"find", "fuse"} \union Searching
Late == {"persist", "fail"}
Phases == EndOfTurn \union Before \union {"rerank", "select", "answer"} \union Late
Base == [alive : BOOLEAN, model : {"old", "new"}, ver : {1, 2}, gone : SUBSET (1 .. PerKb), mode : Asked]
Snap == [kb : Kbs, model : {"old", "new"}, ver : {1, 2}, mode : Asked]
Turns == [asked : {"chat", "query"}, kbs : Seq(Kbs), query : {r.query : r \in Requests}, mode : Asked,
          phase : Phases, at : Nat \ {0}]
Skips == {"fts", "rerank"}
Pasts == [failed : SUBSET (Skips \union {"search"}), spaces : SUBSET ({"old", "new"} \X {1, 2}),
          withdrawn : SUBSET Chunks, bought : Nat, found : Nat, applied : BOOLEAN,
          traces : 0 .. 2, told : SUBSET Skips, unsaved : BOOLEAN, changes : Nat]
RetrievalShape ==
  /\ base \in [Kbs -> Base] /\ turn \in Turns /\ snaps \in Seq(Snap) /\ cache \subseteq {"old", "new"}
  /\ groups \in Seq(Seq(Hits)) /\ ranked \in Seq(Hits) /\ degraded \subseteq Skips /\ past \in Pasts

(* A model and its version belong together, as a rebuild switches both.    *)
Together(x) == x.model = "old" <=> x.ver = 1
Rebuilt ==
  /\ \A k \in Kbs : Together(base[k])
  /\ \A i \in 1 .. Len(snaps) : Together(snaps[i])
  /\ \A s \in past.spaces : s[1] = "old" <=> s[2] = 1

(* How far the search has come, and what it has left behind.               *)
Found1 == past.found = 0 /\ ranked = <<>> /\ past.traces = 0 /\ ~past.applied
Progress ==
  /\ turn.phase = "find" => past.spaces = {} /\ groups = <<>> /\ (turn.at = 1 => snaps = <<>>)
  /\ turn.phase \in Searching => turn.at <= Len(snaps)
  /\ turn.phase \in Before => Found1
  /\ turn.phase \in {"fts", "fuse", "rerank", "select"} => snaps # <<>> /\ past.spaces # {}
  /\ turn.phase \in {"answer"} \union Late => (snaps = <<>> <=> past.spaces = {})
  /\ turn.phase \notin {"done"} \union Late => past.traces = 0
  /\ turn.phase \in Late => past.traces <= 1 /\ (past.traces > 0 <=> past.spaces # {})
  /\ turn.phase = "fail" => past.unsaved
  /\ turn.phase = "rerank" => Len(ranked) <= Params.limit
  /\ turn.phase \in {"rerank", "select"} /\ past.found > 0 /\ ~past.applied => ranked # <<>>

(* The vectors that were bought are those in the cache.                    *)
ModelsAsked == {snaps[i].model : i \in 1 .. Len(snaps)}
Bought == past.bought = Cardinality(cache) /\ cache \subseteq ModelsAsked

(* What was withdrawn before the search was in no result.                  *)
Untouched(hits) == \A r \in 1 .. Len(hits) : hits[r].chunk \notin past.withdrawn
Withdrawals ==
  /\ \A k \in Kbs : \A i \in 1 .. PerKb : <<k, i>> \in past.withdrawn => i \in base[k].gone
  /\ \A g \in 1 .. Len(groups) : Untouched(groups[g])
  /\ Untouched(ranked)

(* No list has a chunk twice, and a route no more than there are.          *)
Distinct(hits) == \A i, j \in 1 .. Len(hits) : i # j => hits[i].chunk # hits[j].chunk
Orderly ==
  /\ \A g \in 1 .. Len(groups) : Len(groups[g]) <= PerKb /\ Distinct(groups[g])
  /\ Distinct(ranked)
  /\ past.changes = 0 => \A k \in Kbs : base[k].gone = {}

RetrievalInv ==
  /\ RetrievalShape /\ Rebuilt /\ Progress /\ Bought /\ Withdrawals /\ Orderly
  /\ EnhancementsMayFail /\ FailuresAreTold /\ OneRecord /\ RankingIsSound

-----------------------------------------------------------------------------
(***************************************************************************)
(* Finite sets in order                                                    *)
(***************************************************************************)
InOrder(R, S) ==
  /\ \A x \in S : <<x, x>> \notin R
  /\ \A x, y \in S : x # y => <<x, y>> \in R \/ <<y, x>> \in R
  /\ \A x, y, z \in S : <<x, y>> \in R /\ <<y, z>> \in R => <<x, z>> \in R
Lower(R, S, c) == {d \in S : <<d, c>> \in R}

LEMMA OneLessIsAhead ==
  ASSUME NEW S, NEW R, IsFiniteSet(S), InOrder(R, S),
         NEW x \in S, NEW y \in S, <<x, y>> \in R
  PROVE  Cardinality(Lower(R, S, x)) + 1 <= Cardinality(Lower(R, S, y))
<1>. DEFINE A == Lower(R, S, x)
            B == Lower(R, S, y)
<1>1. A \subseteq S /\ B \subseteq S /\ x \notin A /\ A \union {x} \subseteq B
  BY DEF Lower, InOrder
<1>2. IsFiniteSet(A) /\ IsFiniteSet(B)
  BY <1>1, FS_Subset
<1>. HIDE DEF A, B
<1>3. Cardinality(A \union {x}) = Cardinality(A) + 1
  BY <1>1, <1>2, FS_AddElement
<1>4. Cardinality(A \union {x}) <= Cardinality(B)
  BY <1>1, <1>2, FS_Subset
<1>. QED  BY <1>3, <1>4 DEF A, B

(* Every place of a finite set in order is taken.                          *)
LEMMA PlaceIsTaken ==
  ASSUME NEW S, NEW R, IsFiniteSet(S), InOrder(R, S), NEW n \in 1 .. Cardinality(S)
  PROVE  \E c \in S : Cardinality(Lower(R, S, c)) = n - 1
<1>. DEFINE m == Cardinality(S)
            T == 0 .. (m - 1)
            f == [c \in S |-> Cardinality(Lower(R, S, c))]
<1>1. m \in Nat /\ m >= 1
  BY FS_CardinalityType
<1>2. IsFiniteSet(T) /\ Cardinality(T) = m
  <2>1. m - 1 \in Int /\ 0 \in Int /\ ~ (0 > m - 1)
    BY <1>1
  <2>2. IsFiniteSet(T) /\ Cardinality(T) = (m - 1) - 0 + 1
    BY <2>1, FS_Interval
  <2>. QED  BY <1>1, <2>2
<1>3. \A c \in S : Cardinality(Lower(R, S, c)) \in T
  <2>. TAKE c \in S
  <2>1. Lower(R, S, c) \subseteq S \ {c}
    BY DEF Lower, InOrder
  <2>2. IsFiniteSet(S \ {c}) /\ Cardinality(S \ {c}) = m - 1
    BY FS_RemoveElement
  <2>3. /\ IsFiniteSet(Lower(R, S, c))
        /\ Cardinality(Lower(R, S, c)) <= m - 1
    BY <2>1, <2>2, FS_Subset
  <2>4. Cardinality(Lower(R, S, c)) \in Nat
    BY <2>3, FS_CardinalityType
  <2>. QED  BY <1>1, <2>3, <2>4
<1>4. \A x, y \in S : <<x, y>> \in R => f[x] < f[y]
  <2>. SUFFICES ASSUME NEW x \in S, NEW y \in S, <<x, y>> \in R
                PROVE  f[x] < f[y]
    OBVIOUS
  <2>1. f[x] \in Nat /\ f[y] \in Nat
    BY <1>3, <1>1
  <2>2. f[x] + 1 <= f[y]
    BY OneLessIsAhead
  <2>. HIDE DEF f
  <2>. QED  BY <2>1, <2>2
<1>5. f \in Injection(S, T)
  <2>1. f \in [S -> T]
    BY <1>3
  <2>2. \A x \in S : f[x] \in Int
    BY <1>1, <2>1
  <2>. HIDE DEF f
  <2>3. ASSUME NEW x \in S, NEW y \in S, x # y
        PROVE  f[x] # f[y]
    <3>1. <<x, y>> \in R \/ <<y, x>> \in R
      BY <2>3 DEF InOrder
    <3>2. f[x] < f[y] \/ f[y] < f[x]
      BY <1>4, <3>1
    <3>. QED  BY <2>2, <3>2
  <2>. QED  BY <2>1, <2>3 DEF Injection, IsInjective
<1>6. Cardinality(S) = Cardinality(T)
  BY <1>2
<1>7. f \in Surjection(S, T)
  <2>. HIDE DEF f, T
  <2>. QED  BY <1>2, <1>5, <1>6, FS_Injection
<1>8. n - 1 \in T
  BY <1>1
<1>9. PICK c \in S : f[c] = n - 1
  BY <1>7, <1>8 DEF Surjection
<1>. QED  BY <1>9

(* The elements of a finite set in order, as a sequence.                   *)
LEMMA SortedSequence ==
  ASSUME NEW S, NEW R, IsFiniteSet(S), InOrder(R, S)
  PROVE  \E s \in [1 .. Cardinality(S) -> S] :
           \A i, j \in 1 .. Cardinality(S) : i < j => <<s[i], s[j]>> \in R
<1>. DEFINE m == Cardinality(S)
            s == [i \in 1 .. m |-> CHOOSE c \in S : Cardinality(Lower(R, S, c)) = i - 1]
<1>1. m \in Nat
  BY FS_CardinalityType
<1>2. \A i \in 1 .. m : s[i] \in S /\ Cardinality(Lower(R, S, s[i])) = i - 1
  <2>. TAKE i \in 1 .. m
  <2>1. \E c \in S : Cardinality(Lower(R, S, c)) = i - 1
    BY PlaceIsTaken
  <2>. QED  BY <2>1
<1>3. s \in [1 .. m -> S]
  BY <1>2
<1>. HIDE DEF s
<1>4. ASSUME NEW i \in 1 .. m, NEW j \in 1 .. m, i < j
      PROVE  <<s[i], s[j]>> \in R
  <2>1. s[i] # s[j]
    BY <1>1, <1>2, <1>4
  <2>2. CASE <<s[j], s[i]>> \in R
    <3>1. Cardinality(Lower(R, S, s[j])) + 1 <= Cardinality(Lower(R, S, s[i]))
      BY <1>2, <2>2, OneLessIsAhead
    <3>. QED  BY <1>1, <1>2, <1>4, <3>1
  <2>. QED  BY <1>2, <2>1, <2>2 DEF InOrder
<1>. QED  BY <1>3, <1>4

(* Nth(n, places): the n-th of some numbers is one of them, and they grow. *)
LEMMA NthIsAPlace ==
  ASSUME NEW places \in SUBSET Int, IsFiniteSet(places), NEW n \in 1 .. Cardinality(places)
  PROVE  Nth(n, places) \in places /\ Cardinality({j \in places : j <= Nth(n, places)}) = n
<1>. DEFINE R == {p \in places \X places : p[1] < p[2]}
<1>1. \A x, y \in places : <<x, y>> \in R <=> x < y
  OBVIOUS
<1>. HIDE DEF R
<1>2. InOrder(R, places)
  BY <1>1 DEF InOrder
<1>3. PICK c \in places : Cardinality(Lower(R, places, c)) = n - 1
  BY <1>2, PlaceIsTaken
<1>4. /\ Lower(R, places, c) \subseteq places /\ c \notin Lower(R, places, c)
      /\ {j \in places : j <= c} = Lower(R, places, c) \union {c}
  <2>1. \A j \in places : j \in Int /\ c \in Int
    OBVIOUS
  <2>2. \A j \in places : j <= c <=> j < c \/ j = c
    BY <2>1
  <2>3. \A j : j \in Lower(R, places, c) <=> j \in places /\ j < c
    BY <1>1 DEF Lower
  <2>4. ~ (c < c)
    BY <2>1
  <2>. QED  BY <2>2, <2>3, <2>4
<1>5. IsFiniteSet(Lower(R, places, c))
  BY <1>4, FS_Subset
<1>6. Cardinality({j \in places : j <= c}) = Cardinality(Lower(R, places, c)) + 1
  BY <1>4, <1>5, FS_AddElement
<1>7. Cardinality({j \in places : j <= c}) = n
  BY <1>3, <1>6
<1>8. \E i \in places : Cardinality({j \in places : j <= i}) = n
  BY <1>7
<1>. QED  BY <1>8 DEF Nth

LEMMA NthGrows ==
  ASSUME NEW places \in SUBSET Int, IsFiniteSet(places),
         NEW m \in 1 .. Cardinality(places), NEW n \in 1 .. Cardinality(places), m < n
  PROVE  Nth(m, places) < Nth(n, places)
<1>. DEFINE a == Nth(m, places)
            b == Nth(n, places)
            A == {j \in places : j <= a}
            B == {j \in places : j <= b}
<1>1. a \in places /\ b \in places /\ Cardinality(A) = m /\ Cardinality(B) = n
  BY NthIsAPlace
<1>2. a \in Int /\ b \in Int
  BY <1>1
<1>3. IsFiniteSet(A) /\ IsFiniteSet(B)
  BY FS_Subset
<1>. HIDE DEF a, b
<1>4. CASE b <= a
  <2>1. B \subseteq A
    <3>1. \A j \in places : j \in Int
      OBVIOUS
    <3>2. \A j \in places : j <= b => j <= a
      BY <1>2, <1>4, <3>1
    <3>. QED  BY <3>2
  <2>2. Cardinality(B) <= Cardinality(A)
    BY <2>1, <1>3, FS_Subset
  <2>. QED  BY <1>1, <2>2
<1>. QED  BY <1>2, <1>4 DEF a, b

(* Picked(s, places): some elements of s, each of its own place.           *)
LEMMA PickedElements ==
  ASSUME NEW X, NEW s \in Seq(X), NEW places \in SUBSET (1 .. Len(s))
  PROVE  /\ IsFiniteSet(places) /\ Cardinality(places) \in 0 .. Len(s)
         /\ Picked(s, places) \in Seq(X) /\ Len(Picked(s, places)) = Cardinality(places)
         /\ \A n \in 1 .. Cardinality(places) :
              Nth(n, places) \in places /\ Picked(s, places)[n] = s[Nth(n, places)]
<1>1. Len(s) \in Nat /\ IsFiniteSet(1 .. Len(s)) /\ Cardinality(1 .. Len(s)) = Len(s)
  <2>1. Len(s) \in Nat
    OBVIOUS
  <2>2. 1 \in Int /\ Len(s) \in Int
    BY <2>1
  <2>3. IsFiniteSet(1 .. Len(s)) /\ Cardinality(1 .. Len(s)) = IF 1 > Len(s) THEN 0 ELSE Len(s) - 1 + 1
    BY <2>2, FS_Interval
  <2>. QED  BY <2>1, <2>3
<1>2. IsFiniteSet(places) /\ Cardinality(places) <= Len(s)
  BY <1>1, FS_Subset
<1>3. Cardinality(places) \in Nat
  BY <1>2, FS_CardinalityType
<1>4. places \in SUBSET Int
  BY <1>1
<1>5. \A n \in 1 .. Cardinality(places) : Nth(n, places) \in places
  BY <1>2, <1>4, NthIsAPlace
<1>6. \A n \in 1 .. Cardinality(places) : s[Nth(n, places)] \in X
  <2>1. \A i \in 1 .. Len(s) : s[i] \in X
    OBVIOUS
  <2>. QED  BY <1>5, <2>1
<1>7. Picked(s, places) \in Seq(X) /\ Len(Picked(s, places)) = Cardinality(places)
  BY <1>3, <1>6 DEF Picked
<1>. QED  BY <1>1, <1>2, <1>3, <1>5, <1>7 DEF Picked

-----------------------------------------------------------------------------
(***************************************************************************)
(* The hits of a route                                                     *)
(***************************************************************************)
LEMMA ScoresAreNumbers ==
  VectorScores \subseteq Int /\ KeywordScores \subseteq Int /\ RerankScores \subseteq Int
BY RetrievalAssumption DEF RetrievalAssumption

LEMMA SizesAreNumbers ==
  /\ PerKb \in Nat \ {0} /\ Params.k \in Nat \ {0} /\ Params.limit \in Nat \ {0}
  /\ Params.chunks \in Nat \ {0}
BY RetrievalAssumption DEF RetrievalAssumption

LEMMA ChunksAreFinite == IsFiniteSet(Chunks)
<1>1. 1 \in Int /\ PerKb \in Int
  BY SizesAreNumbers
<1>2. IsFiniteSet(1 .. PerKb)
  BY <1>1, FS_Interval
<1>. QED  BY <1>2, FS_Product, RetrievalAssumption DEF Chunks, RetrievalAssumption

(* A knowledge base has no more chunks to find than it has.                *)
LEMMA ActiveFits ==
  ASSUME NEW k \in Kbs, NEW some \in SUBSET Active(k)
  PROVE  some \subseteq Chunks /\ IsFiniteSet(some) /\ Cardinality(some) \in 0 .. PerKb
<1>1. Active(k) \subseteq Chunks
  BY DEF Active, Chunks
<1>2. 1 \in Int /\ PerKb \in Int /\ ~ (1 > PerKb) /\ PerKb - 1 + 1 = PerKb
  BY SizesAreNumbers
<1>3. IsFiniteSet(1 .. PerKb) /\ Cardinality(1 .. PerKb) = PerKb
  BY <1>2, FS_Interval
<1>. DEFINE N == (1 .. PerKb) \ base[k].gone
            f == [i \in N |-> <<k, i>>]
<1>4. IsFiniteSet(N) /\ Cardinality(N) <= PerKb
  BY <1>3, FS_Subset
<1>5. f \in Surjection(N, Active(k))
  BY DEF Surjection, Active
<1>. HIDE DEF f, N
<1>6. IsFiniteSet(Active(k)) /\ Cardinality(Active(k)) <= Cardinality(N)
  BY <1>4, <1>5, FS_Surjection
<1>7. IsFiniteSet(some) /\ Cardinality(some) <= Cardinality(Active(k))
  BY <1>6, FS_Subset
<1>8. Cardinality(some) \in Nat /\ Cardinality(Active(k)) \in Nat /\ Cardinality(N) \in Nat
  BY <1>4, <1>6, <1>7, FS_CardinalityType
<1>. QED  BY <1>1, <1>2, <1>4, <1>6, <1>7, <1>8

LEMMA RouteHits ==
  ASSUME NEW k \in Kbs, NEW some \in SUBSET Active(k), NEW scores \in SUBSET Int,
         NEW h \in HitsOn(some, scores)
  PROVE  /\ h \in Seq(Hits) /\ Len(h) = Cardinality(some) /\ Len(h) \in 0 .. PerKb
         /\ \A i \in 1 .. Len(h) : h[i].chunk \in some
         /\ \A i, j \in 1 .. Len(h) : i < j => h[i].chunk # h[j].chunk /\ h[i].score >= h[j].score
<1>1. some \subseteq Chunks /\ Cardinality(some) \in 0 .. PerKb
  BY ActiveFits
<1>2. h \in [1 .. Cardinality(some) -> [chunk : some, score : scores]]
  BY DEF HitsOn
<1>3. \A i \in 1 .. Cardinality(some) : h[i] \in [chunk : some, score : scores]
  BY <1>2
<1>4. \A i \in 1 .. Cardinality(some) : h[i] \in Hits /\ h[i].chunk \in some
  BY <1>1, <1>3 DEF Hits
<1>5. h \in [1 .. Cardinality(some) -> Hits] /\ Cardinality(some) \in Nat
  BY <1>1, <1>2, <1>4
<1>6. h \in Seq(Hits) /\ Len(h) = Cardinality(some)
  BY <1>5
<1>7. DOMAIN h = 1 .. Len(h)
  BY <1>6
<1>8. \A i, j \in DOMAIN h : i < j => h[i].chunk # h[j].chunk /\ h[i].score >= h[j].score
  BY DEF HitsOn
<1>. QED  BY <1>1, <1>4, <1>6, <1>7, <1>8

(* gate_by_score keeps some of the hits, in their order, and the best one. *)
LEMMA GatedHits ==
  ASSUME NEW hits \in Seq(Hits)
  PROVE  /\ Close(hits) \in Seq(Hits) /\ Len(Close(hits)) \in 0 .. Len(hits)
         /\ \E at \in [1 .. Len(Close(hits)) -> 1 .. Len(hits)] :
              /\ \A i \in 1 .. Len(Close(hits)) : Close(hits)[i] = hits[at[i]]
              /\ \A i, j \in 1 .. Len(Close(hits)) : i < j => at[i] < at[j]
         /\ hits # <<>> => Close(hits) # <<>> /\ Close(hits)[1] = hits[1]
<1>1. CASE hits = <<>> \/ hits[1].score <= 0 \/ Params.ratio <= 0
  <2>1. Close(hits) = hits
    BY <1>1 DEF Close
  <2>2. Len(hits) \in 0 .. Len(hits)
    OBVIOUS
  <2>. DEFINE at == [i \in 1 .. Len(hits) |-> i]
  <2>3. /\ at \in [1 .. Len(hits) -> 1 .. Len(hits)]
        /\ \A i \in 1 .. Len(hits) : hits[i] = hits[at[i]]
        /\ \A i, j \in 1 .. Len(hits) : i < j => at[i] < at[j]
    OBVIOUS
  <2>. HIDE DEF at
  <2>. QED  BY <2>1, <2>2, <2>3
<1>2. CASE ~ (hits = <<>> \/ hits[1].score <= 0 \/ Params.ratio <= 0)
  <2>. DEFINE places == {i \in 1 .. Len(hits) : i = 1 \/ hits[i].score * 100 >= hits[1].score * Params.ratio}
              m == Cardinality(places)
              at == [n \in 1 .. m |-> Nth(n, places)]
  <2>1. Close(hits) = Picked(hits, places)
    BY <1>2 DEF Close
  <2>2. places \in SUBSET (1 .. Len(hits)) /\ 1 \in places
    BY <1>2
  <2>. HIDE DEF places
  <2>3. /\ IsFiniteSet(places) /\ m \in 0 .. Len(hits)
        /\ Picked(hits, places) \in Seq(Hits) /\ Len(Picked(hits, places)) = m
        /\ \A n \in 1 .. m : Nth(n, places) \in places /\ Picked(hits, places)[n] = hits[Nth(n, places)]
    BY <2>2, PickedElements
  <2>4. places \in SUBSET Int
    BY <2>2
  <2>5. \A i, j \in 1 .. m : i < j => Nth(i, places) < Nth(j, places)
    BY <2>3, <2>4, NthGrows
  <2>6. m # 0
    BY <2>2, <2>3, FS_EmptySet
  <2>7. m \in Nat /\ 1 \in 1 .. m
    BY <2>3, <2>6
  <2>8. Nth(1, places) = 1
    <3>1. Nth(1, places) \in places /\ Cardinality({j \in places : j <= Nth(1, places)}) = 1
      BY <2>3, <2>4, <2>7, NthIsAPlace
    <3>. DEFINE A == {j \in places : j <= Nth(1, places)}
    <3>2. Nth(1, places) \in Int /\ Nth(1, places) >= 1
      <4>1. \A i \in places : i \in Int /\ i >= 1
        BY <2>2
      <4>. QED  BY <3>1, <4>1
    <3>3. 1 \in A /\ Nth(1, places) \in A
      BY <2>2, <3>1, <3>2
    <3>4. IsFiniteSet(A)
      BY <2>3, FS_Subset
    <3>. HIDE DEF A
    <3>5. \E x : A = {x}
      BY <3>1, <3>4, FS_Singleton DEF A
    <3>. QED  BY <3>3, <3>5
  <2>9. /\ at \in [1 .. m -> 1 .. Len(hits)]
        /\ \A i \in 1 .. m : Picked(hits, places)[i] = hits[at[i]]
        /\ \A i, j \in 1 .. m : i < j => at[i] < at[j]
    BY <2>2, <2>3, <2>5
  <2>10. Picked(hits, places) # <<>> /\ Picked(hits, places)[1] = hits[1]
    BY <2>3, <2>7, <2>8
  <2>. HIDE DEF m, at
  <2>. QED  BY <2>1, <2>3, <2>9, <2>10
<1>. QED  BY <1>1, <1>2

-----------------------------------------------------------------------------
(***************************************************************************)
(* Sums and products along a sequence                                      *)
(***************************************************************************)
(* The least of some numbers.                                              *)
LessThan == {ss \in Nat \X Nat : ss[1] < ss[2]}
LEMMA LeastOf ==
  ASSUME NEW S \in SUBSET Nat, S # {}
  PROVE  \E x \in S : \A y \in S : x <= y
<1>1. IsWellFoundedOn(LessThan, Nat)
  BY NatLessThanWellFounded DEF OpToRel, LessThan
<1>2. \A x, y \in Nat : x < y => <<x, y>> \in LessThan
  BY DEF LessThan
<1>3. PICK x \in S : \A y \in S : ~ (<<y, x>> \in LessThan)
  BY <1>1, WFMin
<1>4. \A y \in S : ~ (y < x)
  BY <1>2, <1>3
<1>. QED  BY <1>4

(* What holds of no least number that it fails for fails for none.         *)
LEMMA HoldsOfAll ==
  ASSUME NEW N \in Nat, NEW Holds, 0 \in Holds,
         \A n \in 1 .. N : n - 1 \in Holds => n \in Holds
  PROVE  \A n \in 0 .. N : n \in Holds
<1>. DEFINE Exceptions == {n \in 0 .. N : n \notin Holds}
<1>1. SUFFICES ASSUME Exceptions # {} PROVE FALSE
  OBVIOUS
<1>2. Exceptions \in SUBSET Nat
  OBVIOUS
<1>3. PICK n \in Exceptions : \A m \in Exceptions : n <= m
  BY <1>1, <1>2, LeastOf
<1>4. n \in 1 .. N /\ n - 1 \in 0 .. N /\ ~ (n <= n - 1)
  BY <1>3
<1>5. n - 1 \in Holds
  BY <1>3, <1>4
<1>. QED  BY <1>3, <1>4, <1>5

(* A function that goes through step exists, and is a function of numbers. *)
Going(g, zero, step, N) ==
  g = [n \in 0 .. N |-> IF n = 0 THEN zero ELSE step[<<g[n - 1], n>>]]
LEMMA GoingIsTyped ==
  ASSUME NEW N \in Nat, NEW zero \in Nat, NEW step \in [Nat \X (1 .. N) -> Nat], NEW g,
         Going(g, zero, step, N)
  PROVE  /\ g \in [0 .. N -> Nat] /\ g[0] = zero
         /\ \A n \in 1 .. N : g[n] = step[<<g[n - 1], n>>]
<1>. DEFINE Holds == {n \in 0 .. N : g[n] \in Nat}
<1>1. \A n \in 0 .. N : g[n] = IF n = 0 THEN zero ELSE step[<<g[n - 1], n>>]
  BY DEF Going
<1>2. 0 \in Holds /\ g[0] = zero
  <2>1. 0 \in 0 .. N
    OBVIOUS
  <2>2. g[0] = zero
    BY <1>1, <2>1
  <2>. QED  BY <2>1, <2>2
<1>3. \A n \in 1 .. N : g[n] = step[<<g[n - 1], n>>]
  BY <1>1
<1>4. ASSUME NEW n \in 1 .. N, n - 1 \in Holds
      PROVE  n \in Holds
  <2>1. <<g[n - 1], n>> \in Nat \X (1 .. N)
    BY <1>4
  <2>. QED  BY <1>3, <2>1
<1>. HIDE DEF Holds
<1>5. \A n \in 0 .. N : n \in Holds
  BY <1>2, <1>4, HoldsOfAll
<1>6. g = [n \in 0 .. N |-> g[n]]
  BY DEF Going
<1>. QED  BY <1>2, <1>3, <1>5, <1>6 DEF Holds

LEMMA GoingExists ==
  ASSUME NEW N \in Nat, NEW zero \in Nat, NEW step \in [Nat \X (1 .. N) -> Nat]
  PROVE  \E g : Going(g, zero, step, N)
<1>. DEFINE Upto(m) == \E g \in [0 .. m -> Nat] :
              \A n \in 0 .. m : g[n] = IF n = 0 THEN zero ELSE step[<<g[n - 1], n>>]
            Holds == {m \in 0 .. N : Upto(m)}
<1>1. 0 \in Holds
  <2>. DEFINE g == [n \in 0 .. 0 |-> zero]
  <2>1. g \in [0 .. 0 -> Nat] /\ \A n \in 0 .. 0 : g[n] = IF n = 0 THEN zero ELSE step[<<g[n - 1], n>>]
    OBVIOUS
  <2>. HIDE DEF g
  <2>2. Upto(0)
    BY <2>1
  <2>. HIDE DEF Upto
  <2>3. 0 \in 0 .. N
    OBVIOUS
  <2>. QED  BY <2>2, <2>3
<1>2. ASSUME NEW m \in 1 .. N, m - 1 \in Holds
      PROVE  m \in Holds
  <2>1. PICK g \in [0 .. (m - 1) -> Nat] :
          \A n \in 0 .. (m - 1) : g[n] = IF n = 0 THEN zero ELSE step[<<g[n - 1], n>>]
    BY <1>2
  <2>2. m - 1 \in 0 .. (m - 1) /\ g[m - 1] \in Nat
    BY <2>1
  <2>. DEFINE next == step[<<g[m - 1], m>>]
              h == [n \in 0 .. m |-> IF n = m THEN next ELSE g[n]]
  <2>3. next \in Nat
    <3>1. <<g[m - 1], m>> \in Nat \X (1 .. N)
      BY <2>2
    <3>. QED  BY <3>1
  <2>4. \A n \in 0 .. m : n # m => n \in 0 .. (m - 1)
    OBVIOUS
  <2>5. h \in [0 .. m -> Nat]
    <3>. HIDE DEF next
    <3>. QED  BY <2>1, <2>3, <2>4
  <2>6. ASSUME NEW n \in 0 .. m
        PROVE  h[n] = IF n = 0 THEN zero ELSE step[<<h[n - 1], n>>]
    <3>1. CASE n = m
      <4>1. h[m] = next /\ h[m - 1] = g[m - 1] /\ m # 0
        OBVIOUS
      <4>. QED  BY <3>1, <4>1
    <3>2. CASE n # m /\ n # 0
      <4>1. n \in 0 .. (m - 1) /\ h[n] = g[n] /\ h[n - 1] = g[n - 1]
        BY <3>2
      <4>. HIDE DEF h
      <4>. QED  BY <2>1, <3>2, <4>1
    <3>3. CASE n # m /\ n = 0
      <4>1. n \in 0 .. (m - 1) /\ h[n] = g[n]
        BY <3>3
      <4>. HIDE DEF h
      <4>. QED  BY <2>1, <3>3, <4>1
    <3>. QED  BY <3>1, <3>2, <3>3
  <2>. HIDE DEF h
  <2>7. Upto(m)
    BY <2>5, <2>6
  <2>. HIDE DEF Upto
  <2>8. m \in 0 .. N
    OBVIOUS
  <2>. QED  BY <2>7, <2>8
<1>. HIDE DEF Holds
<1>3. \A m \in 0 .. N : m \in Holds
  BY <1>1, <1>2, HoldsOfAll
<1>4. N \in Holds
  BY <1>3
<1>5. PICK g \in [0 .. N -> Nat] :
        \A n \in 0 .. N : g[n] = IF n = 0 THEN zero ELSE step[<<g[n - 1], n>>]
  BY <1>4 DEF Holds
<1>6. Going(g, zero, step, N)
  BY <1>5 DEF Going
<1>. QED  BY <1>6

-----------------------------------------------------------------------------
(***************************************************************************)
(* fuse_candidates: the order of the candidates                            *)
(***************************************************************************)
(* The votes of the ranks, over their common denominator.                  *)
LEMMA VotesOfRanks ==
  /\ Denominator \in Nat \ {0}
  /\ \A r \in 1 .. Longest : Vote(r) \in Nat \ {0} /\ Vote(r) * (Params.k + r) = Denominator
<1>. DEFINE N == Longest
            k == Params.k
            step == [p \in Nat \X (1 .. N) |-> p[1] * (k + p[2])]
            Body(g) == [n \in 0 .. N |-> IF n = 0 THEN 1 ELSE g[n - 1] * (k + n)]
            h == CHOOSE g : g = Body(g)
<1>1. N \in Nat /\ N # 0 /\ k \in Nat /\ k # 0
  BY SizesAreNumbers DEF Longest
<1>2. Denominator = h[N]
  BY DEF Denominator
<1>. HIDE DEF N, k
<1>3. \E g : g = Body(g)
  <2>1. \A a \in Nat, n \in 1 .. N : a * (k + n) \in Nat
    BY <1>1
  <2>2. step \in [Nat \X (1 .. N) -> Nat]
    <3>1. \A p \in Nat \X (1 .. N) : p[1] \in Nat /\ p[2] \in 1 .. N
      OBVIOUS
    <3>. QED  BY <2>1, <3>1
  <2>3. \A a \in Nat, n \in 1 .. N : step[<<a, n>>] = a * (k + n)
    OBVIOUS
  <2>. HIDE DEF step
  <2>4. 1 \in Nat
    OBVIOUS
  <2>5. PICK g : Going(g, 1, step, N)
    BY <1>1, <2>2, <2>4, GoingExists
  <2>6. g \in [0 .. N -> Nat]
    BY <1>1, <2>2, <2>4, <2>5, GoingIsTyped
  <2>7. \A n \in 0 .. N : n # 0 => n \in 1 .. N /\ n - 1 \in 0 .. N
    BY <1>1
  <2>8. \A n \in 0 .. N : n # 0 => step[<<g[n - 1], n>>] = g[n - 1] * (k + n)
    BY <2>3, <2>6, <2>7
  <2>9. [n \in 0 .. N |-> IF n = 0 THEN 1 ELSE step[<<g[n - 1], n>>]] = Body(g)
    BY <2>8
  <2>. HIDE DEF Body
  <2>10. g = Body(g)
    BY <2>5, <2>9 DEF Going
  <2>. QED  BY <2>10
<1>4. h = Body(h)
  <2>. HIDE DEF Body
  <2>. QED  BY <1>3
<1>. HIDE DEF h
<1>5. h[0] = 1 /\ \A n \in 1 .. N : h[n] = h[n - 1] * (k + n)
  <2>1. \A n \in 0 .. N : h[n] = IF n = 0 THEN 1 ELSE h[n - 1] * (k + n)
    BY <1>4
  <2>2. 0 \in 0 .. N /\ \A n \in 1 .. N : n \in 0 .. N /\ n # 0
    BY <1>1
  <2>. QED  BY <2>1, <2>2
<1>6. \A n \in 0 .. N : h[n] \in Nat \ {0}
  <2>. DEFINE Holds == {n \in 0 .. N : h[n] \in Nat \ {0}}
  <2>1. 0 \in Holds
    BY <1>1, <1>5
  <2>2. ASSUME NEW n \in 1 .. N, n - 1 \in Holds
        PROVE  n \in Holds
    <3>1. h[n] = h[n - 1] * (k + n) /\ k + n \in Nat \ {0} /\ h[n - 1] \in Nat \ {0}
      BY <1>1, <1>5, <2>2
    <3>2. h[n] \in Nat \ {0}
      BY <3>1
    <3>. QED  BY <3>2
  <2>. HIDE DEF Holds
  <2>3. \A n \in 0 .. N : n \in Holds
    BY <1>1, <2>1, <2>2, HoldsOfAll
  <2>. QED  BY <2>3 DEF Holds
<1>7. ASSUME NEW r \in 1 .. N
      PROVE  Vote(r) \in Nat \ {0} /\ Vote(r) * (k + r) = Denominator
  <2>. DEFINE Holds == {n \in 0 .. N : n >= r => \E q \in Nat : h[n] = q * (k + r)}
  <2>1. 0 \in Holds
    BY <1>1
  <2>2. ASSUME NEW n \in 1 .. N, n - 1 \in Holds
        PROVE  n \in Holds
    <3>1. h[n] = h[n - 1] * (k + n) /\ h[n - 1] \in Nat
      BY <1>1, <1>5, <1>6, <2>2
    <3>2. CASE n > r
      <4>1. PICK q \in Nat : h[n - 1] = q * (k + r)
        BY <2>2, <3>2
      <4>2. q * (k + n) \in Nat /\ h[n] = (q * (k + n)) * (k + r)
        BY <1>1, <3>1, <4>1
      <4>. QED  BY <4>2
    <3>3. CASE n = r
      BY <3>1, <3>3
    <3>4. CASE n < r
      BY <3>4
    <3>. QED  BY <3>2, <3>3, <3>4
  <2>. HIDE DEF Holds
  <2>3. \A n \in 0 .. N : n \in Holds
    BY <1>1, <2>1, <2>2, HoldsOfAll
  <2>4. N \in Holds /\ N >= r /\ k + r \in Nat \ {0}
    BY <1>1, <2>3
  <2>5. PICK q \in Nat : h[N] = q * (k + r)
    BY <2>4 DEF Holds
  <2>6. \A a \in Nat, b \in Nat \ {0} : (a * b) \div b = a
    OBVIOUS
  <2>7. Vote(r) = (q * (k + r)) \div (k + r)
    BY <1>2, <2>5 DEF Vote, k
  <2>8. Vote(r) = q
    BY <2>4, <2>6, <2>7
  <2>9. N \in 0 .. N
    BY <1>1
  <2>10. h[N] \in Nat \ {0}
    BY <1>6, <2>9
  <2>11. q # 0
    BY <2>4, <2>5, <2>10
  <2>. QED  BY <1>2, <2>5, <2>8, <2>11
<1>8. N \in 0 .. N
  BY <1>1
<1>. QED  BY <1>2, <1>6, <1>7, <1>8 DEF N, k

(* A better rank has the greater vote.                                     *)
LEMMA BetterRank ==
  ASSUME NEW r \in 1 .. Longest, NEW s \in 1 .. Longest, r < s
  PROVE  Vote(s) < Vote(r)
<1>. DEFINE a == Vote(r)
            b == Vote(s)
            x == Params.k + r
            y == Params.k + s
<1>1. /\ a \in Nat \ {0} /\ b \in Nat \ {0} /\ a * x = Denominator /\ b * y = Denominator
      /\ x \in Nat \ {0} /\ y \in Nat \ {0} /\ x < y
  BY VotesOfRanks, SizesAreNumbers DEF Longest
<1>. HIDE DEF a, b, x, y
<1>2. b < a
  BY <1>1
<1>. QED  BY <1>2 DEF a, b

GroupsFit == groups \in Seq(Seq(Hits)) /\ \A g \in 1 .. Len(groups) : Len(groups[g]) <= PerKb

LEMMA VoteIsANumber ==
  ASSUME GroupsFit, NEW c, NEW g \in 1 .. Len(groups)
  PROVE  VoteOf(c, groups[g]) \in Nat
<1>1. groups[g] \in Seq(Hits) /\ Len(groups[g]) <= Longest /\ Longest \in Nat /\ Len(groups[g]) \in Nat
  BY SizesAreNumbers DEF GroupsFit, Longest
<1>2. RanksIn(c, groups[g]) \subseteq 1 .. Longest
  BY <1>1 DEF RanksIn
<1>3. CASE RanksIn(c, groups[g]) = {}
  BY <1>3 DEF VoteOf
<1>4. CASE RanksIn(c, groups[g]) # {}
  <2>1. PICK r \in 1 .. Longest : r = CHOOSE x \in RanksIn(c, groups[g]) : TRUE
    BY <1>2, <1>4
  <2>2. VoteOf(c, groups[g]) = Vote(r)
    BY <1>4, <2>1 DEF VoteOf
  <2>. QED  BY <2>2, VotesOfRanks
<1>. QED  BY <1>3, <1>4

(* The score of a chunk is the sum of its votes.                           *)
Summed(h, c) ==
  /\ h \in [0 .. Len(groups) -> Nat] /\ h[0] = 0
  /\ \A n \in 1 .. Len(groups) : h[n] = h[n - 1] + VoteOf(c, groups[n])
  /\ ScoreOf(c) = h[Len(groups)]
LEMMA ScoreIsASum ==
  ASSUME GroupsFit, NEW c
  PROVE  ScoreOf(c) \in Nat /\ \E h : Summed(h, c)
<1>. DEFINE N == Len(groups)
            V == [n \in 1 .. N |-> VoteOf(c, groups[n])]
            step == [p \in Nat \X (1 .. N) |-> p[1] + V[p[2]]]
            Body(g) == [n \in 0 .. N |-> IF n = 0 THEN 0 ELSE g[n - 1] + VoteOf(c, groups[n])]
            h == CHOOSE g : g = Body(g)
<1>1. N \in Nat
  BY DEF GroupsFit
<1>2. ScoreOf(c) = h[N]
  BY DEF ScoreOf
<1>3. V \in [1 .. N -> Nat] /\ \A n \in 1 .. N : V[n] = VoteOf(c, groups[n])
  BY VoteIsANumber
<1>. HIDE DEF V
<1>4. \E g : g = Body(g)
  <2>1. step \in [Nat \X (1 .. N) -> Nat]
    <3>1. \A p \in Nat \X (1 .. N) : p[1] \in Nat /\ V[p[2]] \in Nat
      BY <1>3
    <3>. HIDE DEF N
    <3>. QED  BY <3>1
  <2>2. \A a \in Nat, n \in 1 .. N : step[<<a, n>>] = a + V[n]
    OBVIOUS
  <2>. HIDE DEF step, N
  <2>3. 0 \in Nat
    OBVIOUS
  <2>4. PICK g : Going(g, 0, step, N)
    BY <1>1, <2>1, <2>3, GoingExists
  <2>5. g \in [0 .. N -> Nat]
    BY <1>1, <2>1, <2>3, <2>4, GoingIsTyped
  <2>6. \A n \in 0 .. N : n # 0 => n \in 1 .. N /\ n - 1 \in 0 .. N
    BY <1>1
  <2>7. \A n \in 0 .. N : n # 0 => step[<<g[n - 1], n>>] = g[n - 1] + VoteOf(c, groups[n])
    <3>. SUFFICES ASSUME NEW n \in 0 .. N, n # 0
                  PROVE  step[<<g[n - 1], n>>] = g[n - 1] + VoteOf(c, groups[n])
      OBVIOUS
    <3>1. n \in 1 .. N /\ g[n - 1] \in Nat
      BY <2>5, <2>6
    <3>2. V[n] = VoteOf(c, groups[n])
      BY <1>3, <3>1
    <3>. QED  BY <2>2, <3>1, <3>2
  <2>8. [n \in 0 .. N |-> IF n = 0 THEN 0 ELSE step[<<g[n - 1], n>>]] = Body(g)
    BY <2>7
  <2>. HIDE DEF Body
  <2>9. g = Body(g)
    BY <2>4, <2>8 DEF Going
  <2>. QED  BY <2>9
<1>5. h = Body(h)
  <2>. HIDE DEF Body
  <2>. QED  BY <1>4
<1>. HIDE DEF h
<1>6. h[0] = 0 /\ \A n \in 1 .. N : h[n] = h[n - 1] + VoteOf(c, groups[n])
  <2>. HIDE DEF N
  <2>1. \A n \in 0 .. N : h[n] = IF n = 0 THEN 0 ELSE h[n - 1] + VoteOf(c, groups[n])
    BY <1>5
  <2>2. 0 \in 0 .. N /\ \A n \in 1 .. N : n \in 0 .. N /\ n # 0
    BY <1>1
  <2>. QED  BY <2>1, <2>2
<1>7. \A n \in 0 .. N : h[n] \in Nat
  <2>. DEFINE Holds == {n \in 0 .. N : h[n] \in Nat}
  <2>. HIDE DEF N
  <2>1. 0 \in Holds
    BY <1>1, <1>6
  <2>2. ASSUME NEW n \in 1 .. N, n - 1 \in Holds
        PROVE  n \in Holds
    <3>1. h[n] = h[n - 1] + V[n] /\ V[n] \in Nat /\ h[n - 1] \in Nat
      BY <1>3, <1>6, <2>2
    <3>2. h[n] \in Nat
      BY <3>1
    <3>. QED  BY <3>2
  <2>. HIDE DEF Holds
  <2>3. \A n \in 0 .. N : n \in Holds
    BY <1>1, <2>1, <2>2, HoldsOfAll
  <2>. QED  BY <2>3 DEF Holds
<1>8. h \in [0 .. N -> Nat]
  <2>1. h = [n \in 0 .. N |-> h[n]]
    BY <1>5
  <2>. HIDE DEF N
  <2>. QED  BY <1>7, <2>1
<1>9. N \in 0 .. N
  BY <1>1
<1>. QED  BY <1>2, <1>6, <1>8, <1>9 DEF Summed

LEMMA EarlierIsTotal ==
  ASSUME NEW p \in Nat \X Nat, NEW q \in Nat \X Nat
  PROVE  /\ ~ Earlier(p, p)
         /\ p = q \/ Earlier(p, q) \/ Earlier(q, p)
         /\ Earlier(p, q) => p # q /\ ~ Earlier(q, p)
         /\ \A r \in Nat \X Nat : Earlier(p, q) /\ Earlier(q, r) => Earlier(p, r)
<1>1. \A x \in Nat \X Nat : x[1] \in Nat /\ x[2] \in Nat /\ x = <<x[1], x[2]>>
  OBVIOUS
<1>2. p = q <=> p[1] = q[1] /\ p[2] = q[2]
  BY <1>1
<1>. QED  BY <1>1, <1>2 DEF Earlier

LEMMA EarliestOf ==
  ASSUME NEW S \in SUBSET (Nat \X Nat), S # {}
  PROVE  \E p \in S : \A q \in S : p = q \/ Earlier(p, q)
<1>1. \A x \in S : x[1] \in Nat /\ x[2] \in Nat /\ x = <<x[1], x[2]>>
  OBVIOUS
<1>. DEFINE A == {x[1] : x \in S}
<1>2. A \in SUBSET Nat /\ A # {}
  BY <1>1
<1>3. PICK a \in A : \A b \in A : a <= b
  BY <1>2, LeastOf
<1>. DEFINE B == {n \in Nat : <<a, n>> \in S}
<1>4. B \in SUBSET Nat /\ B # {}
  BY <1>1, <1>3
<1>5. PICK b \in B : \A n \in B : b <= n
  BY <1>4, LeastOf
<1>6. <<a, b>> \in S
  BY <1>5
<1>7. ASSUME NEW q \in S
      PROVE  <<a, b>> = q \/ Earlier(<<a, b>>, q)
  <2>1. q[1] \in A /\ a <= q[1] /\ a \in Nat /\ b \in Nat
    BY <1>2, <1>3, <1>5
  <2>2. CASE q[1] = a
    <3>1. q[2] \in B
      BY <1>1, <2>2
    <3>2. b <= q[2]
      BY <1>5, <3>1
    <3>. QED  BY <1>1, <2>1, <2>2, <3>2 DEF Earlier
  <2>3. CASE q[1] # a
    <3>1. a < q[1]
      BY <1>1, <2>1, <2>3
    <3>. QED  BY <3>1 DEF Earlier
  <2>. QED  BY <2>2, <2>3
<1>. QED  BY <1>6, <1>7

LEMMA CandidatesAreChunks ==
  ASSUME GroupsFit
  PROVE  /\ Candidates \subseteq Chunks /\ IsFiniteSet(Candidates) /\ Cardinality(Candidates) \in Nat
         /\ \A c \in Candidates : \E g \in 1 .. Len(groups) : c \in ChunksIn(groups[g])
<1>1. \A c \in Candidates : \E g \in 1 .. Len(groups) : c \in ChunksIn(groups[g])
  BY DEF Candidates
<1>2. ASSUME NEW c \in Candidates
      PROVE  c \in Chunks
  <2>1. PICK g \in 1 .. Len(groups) : c \in ChunksIn(groups[g])
    BY <1>1
  <2>2. groups[g] \in Seq(Hits)
    BY DEF GroupsFit
  <2>3. PICK r \in 1 .. Len(groups[g]) : c = groups[g][r].chunk
    BY <2>1 DEF ChunksIn
  <2>4. groups[g][r] \in Hits
    BY <2>2
  <2>. QED  BY <2>3, <2>4 DEF Hits
<1>3. Candidates \in SUBSET Chunks
  BY <1>2
<1>4. IsFiniteSet(Candidates)
  BY <1>3, ChunksAreFinite, FS_Subset
<1>. QED  BY <1>1, <1>3, <1>4, FS_CardinalityType

LEMMA ChunksAreNumbers == Chunks \subseteq Nat \X Nat
<1>1. Kbs \subseteq Nat
  BY RetrievalAssumption DEF RetrievalAssumption
<1>2. 1 .. PerKb \subseteq Nat
  BY SizesAreNumbers
<1>. QED  BY <1>1, <1>2 DEF Chunks

LEMMA BestPlaceExists ==
  ASSUME GroupsFit, NEW c \in Candidates
  PROVE  /\ BestPlace(c) \in Places(c) /\ BestPlace(c) \in Nat \X Nat
         /\ \A q \in Places(c) : BestPlace(c) = q \/ Earlier(BestPlace(c), q)
<1>1. PICK g \in 1 .. Len(groups) : c \in ChunksIn(groups[g])
  BY CandidatesAreChunks
<1>2. PICK r \in 1 .. Len(groups[g]) : c = groups[g][r].chunk
  BY <1>1 DEF ChunksIn
<1>3. groups[g] \in Seq(Hits) /\ Len(groups[g]) <= Longest /\ Longest \in Nat
  BY SizesAreNumbers DEF GroupsFit, Longest
<1>4. r \in 1 .. Longest /\ r \in RanksIn(c, groups[g])
  BY <1>2, <1>3 DEF RanksIn
<1>5. <<r, g>> \in Places(c)
  BY <1>4 DEF Places
<1>6. Places(c) \in SUBSET (Nat \X Nat)
  BY <1>3 DEF Places
<1>7. \E p \in Places(c) : \A q \in Places(c) : p = q \/ Earlier(p, q)
  BY <1>5, <1>6, EarliestOf
<1>8. /\ BestPlace(c) \in Places(c)
      /\ \A q \in Places(c) : BestPlace(c) = q \/ Earlier(BestPlace(c), q)
  BY <1>7 DEF BestPlace
<1>. QED  BY <1>6, <1>8

(* Ahead is an order of the candidates, without ties.                      *)
AheadOf == {p \in Candidates \X Candidates : Ahead(p[1], p[2])}
LEMMA AheadIsAnOrder ==
  ASSUME GroupsFit
  PROVE  InOrder(AheadOf, Candidates)
<1>1. \A c, d \in Candidates : <<c, d>> \in AheadOf <=> Ahead(c, d)
  BY DEF AheadOf
<1>2. \A c \in Candidates : ScoreOf(c) \in Nat /\ BestPlace(c) \in Nat \X Nat /\ c \in Nat \X Nat
  BY ScoreIsASum, BestPlaceExists, CandidatesAreChunks, ChunksAreNumbers
<1>3. ASSUME NEW c \in Candidates
      PROVE  <<c, c>> \notin AheadOf
  <2>1. ~ (ScoreOf(c) > ScoreOf(c))
    BY <1>2
  <2>2. ~ Earlier(c, c) /\ ~ Earlier(BestPlace(c), BestPlace(c))
    BY <1>2, EarlierIsTotal
  <2>. QED  BY <1>1, <2>1, <2>2 DEF Ahead
<1>4. ASSUME NEW c \in Candidates, NEW d \in Candidates, c # d
      PROVE  <<c, d>> \in AheadOf \/ <<d, c>> \in AheadOf
  <2>1. ScoreOf(c) > ScoreOf(d) \/ ScoreOf(d) > ScoreOf(c) \/ ScoreOf(c) = ScoreOf(d)
    BY <1>2
  <2>2. \/ BestPlace(c) = BestPlace(d) \/ Earlier(BestPlace(c), BestPlace(d))
        \/ Earlier(BestPlace(d), BestPlace(c))
    BY <1>2, EarlierIsTotal
  <2>3. Earlier(c, d) \/ Earlier(d, c)
    BY <1>2, <1>4, EarlierIsTotal
  <2>4. Ahead(c, d) \/ Ahead(d, c)
    BY <2>1, <2>2, <2>3 DEF Ahead
  <2>. QED  BY <1>1, <2>4
<1>5. ASSUME NEW c \in Candidates, NEW d \in Candidates, NEW e \in Candidates,
             <<c, d>> \in AheadOf, <<d, e>> \in AheadOf
      PROVE  <<c, e>> \in AheadOf
  <2>1. Ahead(c, d) /\ Ahead(d, e)
    BY <1>1, <1>5
  <2>2. Earlier(c, d) /\ Earlier(d, e) => Earlier(c, e)
    BY <1>2, EarlierIsTotal
  <2>3. Earlier(BestPlace(c), BestPlace(d)) /\ Earlier(BestPlace(d), BestPlace(e))
          => Earlier(BestPlace(c), BestPlace(e))
    BY <1>2, EarlierIsTotal
  <2>4. ScoreOf(c) \in Nat /\ ScoreOf(d) \in Nat /\ ScoreOf(e) \in Nat
    BY <1>2
  <2>5. CASE ScoreOf(c) > ScoreOf(d) \/ ScoreOf(d) > ScoreOf(e)
    <3>1. ScoreOf(c) >= ScoreOf(d) /\ ScoreOf(d) >= ScoreOf(e)
      BY <2>1, <2>4 DEF Ahead
    <3>2. ScoreOf(c) > ScoreOf(e)
      BY <2>4, <2>5, <3>1
    <3>. QED  BY <1>1, <3>2 DEF Ahead
  <2>6. CASE ~ (ScoreOf(c) > ScoreOf(d) \/ ScoreOf(d) > ScoreOf(e))
    <3>1. ScoreOf(c) = ScoreOf(d) /\ ScoreOf(d) = ScoreOf(e)
      BY <2>1, <2>6 DEF Ahead
    <3>2. Ahead(c, e)
      BY <2>1, <2>2, <2>3, <2>6, <3>1 DEF Ahead
    <3>. QED  BY <1>1, <3>2
  <2>. QED  BY <2>5, <2>6
<1>. QED  BY <1>3, <1>4, <1>5 DEF InOrder

(* The candidates, from the first to the last, each in its own place.      *)
LEMMA FusedCandidates ==
  ASSUME GroupsFit, NEW i \in 1 .. Cardinality(Candidates)
  PROVE  Fused(i) \in Candidates /\ Cardinality(Lower(AheadOf, Candidates, Fused(i))) = i - 1
<1>1. IsFiniteSet(Candidates) /\ InOrder(AheadOf, Candidates)
  BY CandidatesAreChunks, AheadIsAnOrder
<1>2. \A c \in Candidates : {d \in Candidates : d # c /\ Ahead(d, c)} = Lower(AheadOf, Candidates, c)
  <2>. TAKE c \in Candidates
  <2>1. \A d \in Candidates : <<d, c>> \in AheadOf <=> Ahead(d, c)
    BY DEF AheadOf
  <2>2. <<c, c>> \notin AheadOf
    BY <1>1 DEF InOrder
  <2>. QED  BY <2>1, <2>2 DEF Lower
<1>3. \E c \in Candidates : Cardinality(Lower(AheadOf, Candidates, c)) = i - 1
  BY <1>1, PlaceIsTaken
<1>4. \E c \in Candidates : Cardinality({d \in Candidates : d # c /\ Ahead(d, c)}) = i - 1
  BY <1>2, <1>3
<1>5. Fused(i) \in Candidates /\ Cardinality({d \in Candidates : d # Fused(i) /\ Ahead(d, Fused(i))}) = i - 1
  BY <1>4 DEF Fused
<1>. QED  BY <1>2, <1>5

LEMMA FusedDiffer ==
  ASSUME GroupsFit, NEW i \in 1 .. Cardinality(Candidates), NEW j \in 1 .. Cardinality(Candidates), i # j
  PROVE  Fused(i) # Fused(j)
<1>1. Cardinality(Candidates) \in Nat
  BY CandidatesAreChunks
<1>2. i - 1 # j - 1
  BY <1>1
<1>. QED  BY <1>2, FusedCandidates

LEMMA AheadComesFirst ==
  ASSUME GroupsFit, NEW c \in Candidates, NEW j \in 1 .. Cardinality(Candidates), Ahead(c, Fused(j))
  PROVE  \E i \in 1 .. (j - 1) : Fused(i) = c
<1>. DEFINE m == Cardinality(Candidates)
            n == Cardinality(Lower(AheadOf, Candidates, c))
<1>1. IsFiniteSet(Candidates) /\ InOrder(AheadOf, Candidates) /\ m \in Nat
  BY CandidatesAreChunks, AheadIsAnOrder
<1>2. Fused(j) \in Candidates /\ Cardinality(Lower(AheadOf, Candidates, Fused(j))) = j - 1
  BY FusedCandidates
<1>3. <<c, Fused(j)>> \in AheadOf
  BY <1>2 DEF AheadOf
<1>4. n + 1 <= j - 1
  BY <1>1, <1>2, <1>3, OneLessIsAhead
<1>5. n \in Nat
  <2>1. Lower(AheadOf, Candidates, c) \in SUBSET Candidates
    BY DEF Lower
  <2>. QED  BY <1>1, <2>1, FS_Subset, FS_CardinalityType
<1>6. n + 1 \in 1 .. m /\ n + 1 \in 1 .. (j - 1) /\ (n + 1) - 1 = n
  BY <1>1, <1>4, <1>5
<1>7. Fused(n + 1) \in Candidates /\ Cardinality(Lower(AheadOf, Candidates, Fused(n + 1))) = n
  BY <1>6, FusedCandidates
<1>8. Fused(n + 1) = c
  <2>. DEFINE d == Fused(n + 1)
              nd == Cardinality(Lower(AheadOf, Candidates, d))
  <2>1. d \in Candidates /\ nd = n
    BY <1>7
  <2>. HIDE DEF d
  <2>2. <<c, d>> \in AheadOf => n + 1 <= nd
    BY <1>1, <2>1, OneLessIsAhead
  <2>3. <<d, c>> \in AheadOf => nd + 1 <= n
    BY <1>1, <2>1, OneLessIsAhead
  <2>. HIDE DEF n, nd
  <2>4. ~ (<<c, d>> \in AheadOf) /\ ~ (<<d, c>> \in AheadOf)
    BY <1>5, <2>1, <2>2, <2>3
  <2>5. c = d
    BY <1>1, <2>1, <2>4 DEF InOrder
  <2>. QED  BY <2>5 DEF d
<1>. QED  BY <1>6, <1>8

-----------------------------------------------------------------------------
(***************************************************************************)
(* _rerank and select_context                                              *)
(***************************************************************************)
Rows == [index : Nat, score : Int]

LEMMA RowsAreTyped ==
  ASSUME NEW n \in 0 .. Params.limit, NEW rows \in Rankings[n]
  PROVE  rows \in Seq(Rows)
<1>. DEFINE OrdersOf(m) == {RowsOf(some, scores) : some \in SUBSET (1 .. m), scores \in [1 .. m -> RerankScores]}
            Of(m) == OrdersOf(m) \union {Reversed(r) : r \in OrdersOf(m)}
                       \union {Append(r, Head(r)) : r \in OrdersOf(m) \ {<<>>}}
                       \union {Append(r, [index |-> m + 1, score |-> 1]) : r \in OrdersOf(m)}
            Orders == OrdersOf(n)
<1>1. n \in Nat
  BY SizesAreNumbers
<1>2. rows \in Of(n)
  <2>1. Rankings = [m \in 0 .. Params.limit |-> Of(m)]
    BY DEF Rankings
  <2>. HIDE DEF Of
  <2>. QED  BY <2>1
<1>3. ASSUME NEW some \in SUBSET (1 .. n), NEW scores \in [1 .. n -> RerankScores]
      PROVE  RowsOf(some, scores) \in Seq(Rows)
  <2>1. 1 \in Int /\ n \in Int
    BY <1>1
  <2>2. IsFiniteSet(some)
    BY <2>1, FS_Interval, FS_Subset
  <2>3. Cardinality(some) \in Nat
    BY <2>2, FS_CardinalityType
  <2>4. some \in SUBSET Int
    BY <1>1
  <2>5. \A i \in 1 .. Cardinality(some) : Nth(i, some) \in some
    BY <2>2, <2>4, NthIsAPlace
  <2>6. \A j \in 1 .. n : scores[j] \in Int /\ j \in Nat
    <3>1. \A j \in 1 .. n : scores[j] \in RerankScores
      OBVIOUS
    <3>2. \A j \in 1 .. n : j \in Nat
      BY <1>1
    <3>. QED  BY <3>1, <3>2, ScoresAreNumbers
  <2>7. \A i \in 1 .. Cardinality(some) :
           [index |-> Nth(i, some), score |-> scores[Nth(i, some)]] \in Rows
    BY <2>5, <2>6 DEF Rows
  <2>. QED  BY <2>3, <2>7 DEF RowsOf
<1>4. Orders \subseteq Seq(Rows)
  <2>. SUFFICES ASSUME NEW r \in Orders PROVE r \in Seq(Rows)
    OBVIOUS
  <2>1. PICK some \in SUBSET (1 .. n), scores \in [1 .. n -> RerankScores] : r = RowsOf(some, scores)
    OBVIOUS
  <2>. QED  BY <1>3, <2>1
<1>. HIDE DEF OrdersOf
<1>5. \A r \in Seq(Rows) : Reversed(r) \in Seq(Rows)
  <2>. TAKE r \in Seq(Rows)
  <2>1. Len(r) \in Nat /\ \A i \in 1 .. Len(r) : r[i] \in Rows
    OBVIOUS
  <2>2. \A i \in 1 .. Len(r) : Len(r) + 1 - i \in 1 .. Len(r)
    BY <2>1
  <2>3. \A i \in 1 .. Len(r) : r[Len(r) + 1 - i] \in Rows
    BY <2>1, <2>2
  <2>. QED  BY <2>1, <2>3 DEF Reversed
<1>6. \A r \in Seq(Rows) : r # <<>> => Append(r, Head(r)) \in Seq(Rows)
  OBVIOUS
<1>7. [index |-> n + 1, score |-> 1] \in Rows
  BY <1>1 DEF Rows
<1>8. CASE rows \in Orders
  BY <1>4, <1>8
<1>9. CASE rows \in {Reversed(r) : r \in Orders}
  <2>1. PICK r \in Orders : rows = Reversed(r)
    BY <1>9
  <2>. QED  BY <1>4, <1>5, <2>1
<1>10. CASE rows \in {Append(r, Head(r)) : r \in Orders \ {<<>>}}
  <2>1. PICK r \in Orders \ {<<>>} : rows = Append(r, Head(r))
    BY <1>10
  <2>2. r \in Seq(Rows) /\ r # <<>>
    BY <1>4, <2>1
  <2>. QED  BY <1>6, <2>1, <2>2
<1>11. CASE rows \in {Append(r, [index |-> n + 1, score |-> 1]) : r \in Orders}
  <2>1. PICK r \in Orders : rows = Append(r, [index |-> n + 1, score |-> 1])
    BY <1>11
  <2>2. r \in Seq(Rows)
    BY <1>4, <2>1
  <2>. QED  BY <1>7, <2>1, <2>2
<1>. QED  BY <1>2, <1>8, <1>9, <1>10, <1>11

(* The rows that name each candidate at most once have a strict order.     *)
LEMMA BestRows ==
  ASSUME NEW rows \in Seq(Rows), Valid(rows)
  PROVE  /\ Best(rows) \in [1 .. Len(rows) -> SetOf(rows)]
         /\ \A i, j \in 1 .. Len(rows) : i # j => Best(rows)[i].index # Best(rows)[j].index
<1>. DEFINE S == SetOf(rows)
            N == Len(rows)
            f == [i \in 1 .. N |-> rows[i]]
            Ord(a, b) == a.score > b.score \/ (a.score = b.score /\ a.index < b.index)
            R == {p \in S \X S : Ord(p[1], p[2])}
<1>1. N \in Nat /\ \A i \in 1 .. N : rows[i] \in Rows
  OBVIOUS
<1>2. \A x \in S : x.index \in Nat /\ x.score \in Int
  BY <1>1 DEF SetOf, Rows
<1>3. \A i, j \in 1 .. N : i # j => rows[i].index # rows[j].index
  BY DEF Valid
<1>4. \A x, y \in S : x # y => x.index # y.index
  BY <1>3 DEF SetOf
<1>5. 1 \in Int /\ N \in Int /\ (1 > N => N = 0) /\ N - 1 + 1 = N
  BY <1>1
<1>6. IsFiniteSet(1 .. N) /\ Cardinality(1 .. N) = N
  BY <1>5, FS_Interval
<1>7. f \in Surjection(1 .. N, S) /\ f \in Injection(1 .. N, S)
  <2>1. f \in [1 .. N -> S] /\ \A x \in S : \E i \in 1 .. N : f[i] = x
    BY DEF SetOf
  <2>2. \A i, j \in 1 .. N : f[i] = f[j] => i = j
    BY <1>3
  <2>. HIDE DEF f, S, N
  <2>. QED  BY <2>1, <2>2 DEF Surjection, Injection, IsInjective
<1>8. IsFiniteSet(S) /\ Cardinality(S) = N
  <2>. HIDE DEF f, S, N
  <2>. QED  BY <1>6, <1>7, FS_Surjection
<1>9. \A x, y \in S : <<x, y>> \in R <=> Ord(x, y)
  OBVIOUS
<1>10. InOrder(R, S)
  <2>. HIDE DEF R, S
  <2>1. \A x \in S : <<x, x>> \notin R
    BY <1>2, <1>9
  <2>2. \A x, y \in S : x # y => <<x, y>> \in R \/ <<y, x>> \in R
    BY <1>2, <1>4, <1>9
  <2>3. \A x, y, z \in S : <<x, y>> \in R /\ <<y, z>> \in R => <<x, z>> \in R
    BY <1>2, <1>9
  <2>. QED  BY <2>1, <2>2, <2>3 DEF InOrder
<1>11. PICK s \in [1 .. Cardinality(S) -> S] :
          \A i, j \in 1 .. Cardinality(S) : i < j => <<s[i], s[j]>> \in R
  <2>. HIDE DEF R, S
  <2>. QED  BY <1>8, <1>10, SortedSequence
<1>12. s \in [1 .. N -> S] /\ DOMAIN s = 1 .. N
  BY <1>8, <1>11
<1>13. \A i, j \in DOMAIN s : i < j => Ord(s[i], s[j])
  <2>. HIDE DEF R, S, N, Ord
  <2>. QED  BY <1>8, <1>9, <1>11, <1>12
<1>14. \E t \in [1 .. N -> S] : \A i, j \in DOMAIN t : i < j => Ord(t[i], t[j])
  BY <1>12, <1>13
<1>15. Best(rows) = CHOOSE t \in [1 .. N -> S] : \A i, j \in DOMAIN t : i < j => Ord(t[i], t[j])
  BY DEF Best
<1>16. PICK t \in [1 .. N -> S] : t = Best(rows) /\ \A i, j \in DOMAIN t : i < j => Ord(t[i], t[j])
  <2>. HIDE DEF S, N, Ord
  <2>. QED  BY <1>14, <1>15
<1>17. DOMAIN t = 1 .. N /\ \A i \in 1 .. N : t[i] \in S
  BY <1>16
<1>18. ASSUME NEW i \in 1 .. N, NEW j \in 1 .. N, i # j
       PROVE  t[i].index # t[j].index
  <2>1. i < j \/ j < i
    BY <1>1, <1>18
  <2>2. Ord(t[i], t[j]) \/ Ord(t[j], t[i])
    <3>. HIDE DEF Ord
    <3>. QED  BY <1>16, <1>17, <2>1
  <2>3. t[i] \in S /\ t[j] \in S
    BY <1>17
  <2>4. t[i] # t[j]
    <3>. HIDE DEF S
    <3>. QED  BY <1>2, <2>2, <2>3
  <2>. HIDE DEF S
  <2>. QED  BY <1>4, <2>3, <2>4
<1>. QED  BY <1>16, <1>18

(* What a rerank makes of the candidates: some of them, none twice.        *)
Reranked(rows) ==
  Above([i \in 1 .. Len(TopOf(rows)) |->
           [chunk |-> Sent[TopOf(rows)[i].index], score |-> TopOf(rows)[i].score]])
LEMMA RerankedHits ==
  ASSUME ranked \in Seq(Hits), Distinct(ranked), NEW rows \in Seq(Rows), Valid(rows),
         NEW new, new = Reranked(rows)
  PROVE  /\ new \in Seq(Hits) /\ Distinct(new)
         /\ \A i \in 1 .. Len(new) : \E j \in 1 .. Len(ranked) : new[i].chunk = ranked[j].chunk
<1>. DEFINE N == Len(rows)
            M == Shorter(Params.chunks, N)
            top == TopOf(rows)
            hits == [i \in 1 .. Len(top) |-> [chunk |-> Sent[top[i].index], score |-> top[i].score]]
<1>1. N \in Nat /\ M \in Nat /\ M <= N
  BY SizesAreNumbers DEF Shorter
<1>2. \A i \in 1 .. N : rows[i] \in Rows /\ rows[i].index \in 1 .. Len(ranked)
  <2>1. DOMAIN Sent = 1 .. Len(ranked)
    BY DEF Sent
  <2>. QED  BY <2>1 DEF Valid
<1>. DEFINE b == Best(rows)
<1>3. /\ b \in [1 .. N -> SetOf(rows)]
      /\ \A i, j \in 1 .. N : i # j => b[i].index # b[j].index
  BY BestRows
<1>. HIDE DEF b
<1>4. \A i \in 1 .. N : b[i] \in Rows /\ b[i].index \in 1 .. Len(ranked)
  <2>1. \A x \in SetOf(rows) : x \in Rows /\ x.index \in 1 .. Len(ranked)
    BY <1>2 DEF SetOf
  <2>. QED  BY <1>3, <2>1
<1>5. Len(top) = M /\ \A i \in 1 .. M : top[i] = b[i]
  <2>1. b \in Seq(SetOf(rows)) /\ Len(b) = N
    BY <1>1, <1>3
  <2>2. top = SubSeq(b, 1, M)
    BY DEF TopOf, b
  <2>. HIDE DEF top, M, N
  <2>. QED  BY <1>1, <2>1, <2>2
<1>. HIDE DEF top, M
<1>6. \A i \in 1 .. M : top[i] \in Rows /\ top[i].index \in 1 .. Len(ranked) /\ i \in 1 .. N
  BY <1>1, <1>4, <1>5
<1>7. \A j \in 1 .. Len(ranked) : Sent[j] = ranked[j].chunk /\ ranked[j] \in Hits
  BY DEF Sent
<1>8. \A i \in 1 .. M : hits[i].chunk = ranked[top[i].index].chunk /\ hits[i] \in Hits
  BY <1>5, <1>6, <1>7 DEF Hits, Rows
<1>9. hits \in Seq(Hits) /\ Len(hits) = M
  BY <1>1, <1>5, <1>8
<1>10. \A i, j \in 1 .. M : i # j => hits[i].chunk # hits[j].chunk
  <2>1. \A i, j \in 1 .. M : i # j => top[i].index # top[j].index
    BY <1>3, <1>5, <1>6
  <2>. HIDE DEF hits
  <2>. SUFFICES ASSUME NEW i \in 1 .. M, NEW j \in 1 .. M, i # j
                PROVE  hits[i].chunk # hits[j].chunk
    OBVIOUS
  <2>2. top[i].index \in 1 .. Len(ranked) /\ top[j].index \in 1 .. Len(ranked) /\ top[i].index # top[j].index
    BY <1>6, <2>1
  <2>3. ranked[top[i].index].chunk # ranked[top[j].index].chunk
    BY <2>2 DEF Distinct
  <2>. QED  BY <1>8, <2>3
<1>11. \A i \in 1 .. M : \E j \in 1 .. Len(ranked) : hits[i].chunk = ranked[j].chunk
  <2>. HIDE DEF hits
  <2>. QED  BY <1>6, <1>8
<1>12. new = Above(hits)
  BY DEF top, Reranked
<1>. HIDE DEF hits
<1>. DEFINE places == {i \in 1 .. Len(hits) : Params.threshold <= 0 \/ hits[i].score >= Params.threshold}
            m == Cardinality(places)
<1>13. places \in SUBSET (1 .. Len(hits)) /\ new = Picked(hits, places)
  BY <1>12 DEF Above
<1>. HIDE DEF places
<1>14. /\ IsFiniteSet(places) /\ m \in 0 .. Len(hits)
       /\ new \in Seq(Hits) /\ Len(new) = m
       /\ \A n \in 1 .. m : Nth(n, places) \in places /\ new[n] = hits[Nth(n, places)]
  BY <1>9, <1>13, PickedElements
<1>15. places \in SUBSET Int
  BY <1>9, <1>13
<1>16. ASSUME NEW i \in 1 .. m, NEW j \in 1 .. m, i # j
       PROVE  new[i].chunk # new[j].chunk
  <2>1. i < j \/ j < i
    BY <1>14, <1>16
  <2>2. Nth(i, places) < Nth(j, places) \/ Nth(j, places) < Nth(i, places)
    BY <1>14, <1>15, <2>1, NthGrows
  <2>3. Nth(i, places) \in 1 .. M /\ Nth(j, places) \in 1 .. M
    BY <1>9, <1>13, <1>14
  <2>4. Nth(i, places) # Nth(j, places)
    BY <1>1, <2>2, <2>3
  <2>. QED  BY <1>10, <1>14, <2>3, <2>4
<1>17. ASSUME NEW i \in 1 .. m
       PROVE  \E j \in 1 .. Len(ranked) : new[i].chunk = ranked[j].chunk
  <2>1. Nth(i, places) \in 1 .. M
    BY <1>9, <1>13, <1>14
  <2>. QED  BY <1>11, <1>14, <2>1
<1>. QED  BY <1>14, <1>16, <1>17 DEF Distinct

(* The context: from the best downwards, never empty when something was    *)
(* found, and within the budget when it is more than one.                  *)
LEMMA SelectedHits ==
  ASSUME ranked \in Seq(Hits), Distinct(ranked)
  PROVE  /\ Selected \in Seq(Hits) /\ Distinct(Selected)
         /\ Len(Selected) <= 1 \/ CostOf(Selected) <= Params.budget
         /\ ranked # <<>> => Selected # <<>>
         /\ \A i \in 1 .. Len(Selected) : \E j \in 1 .. Len(ranked) : Selected[i].chunk = ranked[j].chunk
<1>. DEFINE M == Shorter(Params.chunks, Len(ranked))
            Fits(m) == /\ \A l \in 0 .. m : Fitting(l)
                       /\ m = M \/ ~ Fitting(m + 1)
            n == CHOOSE m \in 0 .. M : Fits(m)
<1>1. M \in Nat /\ M <= Len(ranked) /\ Len(ranked) \in Nat /\ (ranked # <<>> => M >= 1)
  BY SizesAreNumbers DEF Shorter
<1>2. Selected = SubSeq(ranked, 1, n)
  BY DEF Selected
<1>. HIDE DEF M
<1>3. \E m \in 0 .. M : Fits(m)
  <2>1. CASE \A l \in 0 .. M : Fitting(l)
    <3>1. M \in 0 .. M
      BY <1>1
    <3>. QED  BY <2>1, <3>1
  <2>2. CASE \E l \in 0 .. M : ~ Fitting(l)
    <3>. DEFINE Bad == {l \in 0 .. M : ~ Fitting(l)}
    <3>1. Bad \in SUBSET Nat /\ Bad # {}
      BY <1>1, <2>2
    <3>2. PICK f \in Bad : \A l \in Bad : f <= l
      BY <3>1, LeastOf
    <3>3. f \in 0 .. M /\ f # 0 /\ ~ Fitting(f)
      BY <3>2 DEF Fitting
    <3>4. f - 1 \in 0 .. M /\ (f - 1) + 1 = f /\ \A l \in 0 .. (f - 1) : l \in 0 .. M /\ ~ (f <= l)
      BY <1>1, <3>3
    <3>5. \A l \in 0 .. (f - 1) : Fitting(l)
      BY <3>2, <3>4
    <3>6. Fits(f - 1)
      BY <3>3, <3>4, <3>5
    <3>. HIDE DEF Fits
    <3>. QED  BY <3>4, <3>6
  <2>. QED  BY <2>1, <2>2
<1>4. n \in 0 .. M /\ Fits(n)
  <2>. HIDE DEF Fits
  <2>. QED  BY <1>3
<1>. HIDE DEF n
<1>5. n \in Nat /\ n <= Len(ranked) /\ Fitting(n)
  <2>1. n \in 0 .. n
    BY <1>1, <1>4
  <2>. QED  BY <1>1, <1>4, <2>1
<1>6. Len(Selected) = n /\ Selected \in Seq(Hits) /\ \A i \in 1 .. n : Selected[i] = ranked[i] /\ i \in 1 .. Len(ranked)
  BY <1>2, <1>5
<1>7. Distinct(Selected)
  BY <1>6 DEF Distinct
<1>8. n <= 1 \/ CostOf(Selected) <= Params.budget
  BY <1>2, <1>5 DEF Fitting
<1>9. ranked # <<>> => n # 0
  <2>1. Fitting(1)
    BY DEF Fitting
  <2>. QED  BY <1>1, <1>4, <2>1
<1>. QED  BY <1>5, <1>6, <1>7, <1>8, <1>9

-----------------------------------------------------------------------------
(***************************************************************************)
(* The invariant holds at first, and every step keeps it                   *)
(***************************************************************************)
LEMMA RoutesFit == RetrievalInv => GroupsFit
BY DEF RetrievalInv, RetrievalShape, Orderly, GroupsFit

LEMMA GotoFields ==
  ASSUME turn \in Turns, NEW p \in Phases, Goto(p)
  PROVE  /\ turn' \in Turns /\ turn'.phase = p /\ turn'.asked = turn.asked
         /\ turn'.kbs = turn.kbs /\ turn'.query = turn.query /\ turn'.mode = turn.mode /\ turn'.at = turn.at
BY DEF Goto, Turns

LEMMA InitIsSound == RetrievalInit => RetrievalInv
<1>. SUFFICES ASSUME RetrievalInit PROVE RetrievalInv
  OBVIOUS
<1>1. PICK r \in Requests :
        /\ base = [k \in Kbs |-> [alive |-> TRUE, model |-> "old", ver |-> 1, gone |-> {}, mode |-> r.mode]]
        /\ turn = [asked |-> r.asked, kbs |-> r.kbs, query |-> r.query, mode |-> "vector",
                   phase |-> "find", at |-> 1]
  BY DEF RetrievalInit, RetrievalBegin
<1>2. /\ snaps = <<>> /\ cache = {} /\ groups = <<>> /\ ranked = <<>> /\ degraded = {} /\ cites = NoCites
      /\ past = [failed |-> {}, spaces |-> {}, withdrawn |-> {}, bought |-> 0, found |-> 0,
                 applied |-> FALSE, traces |-> 0, told |-> {}, unsaved |-> FALSE, changes |-> 0]
  BY DEF RetrievalInit, RetrievalBegin
<1>3. r.asked \in {"chat", "query"} /\ r.kbs \in Seq(Kbs) /\ r.mode \in Asked
  BY RetrievalAssumption DEF RetrievalAssumption, Asked
<1>4. RetrievalShape
  <2>1. base \in [Kbs -> Base]
    BY <1>1, <1>3 DEF Base
  <2>2. turn \in Turns
    BY <1>1, <1>3 DEF Turns, Phases, Before, Asked
  <2>3. past \in Pasts
    BY <1>2 DEF Pasts
  <2>. QED  BY <1>2, <2>1, <2>2, <2>3 DEF RetrievalShape
<1>5. Rebuilt
  BY <1>1, <1>2 DEF Rebuilt, Together
<1>6. Progress
  BY <1>1, <1>2 DEF Progress, Late, Found1, Searching, Before
<1>7. Bought
  BY <1>2, FS_EmptySet DEF Bought
<1>8. Withdrawals
  BY <1>2 DEF Withdrawals, Untouched
<1>9. Orderly
  BY <1>1, <1>2 DEF Orderly, Distinct
<1>10. EnhancementsMayFail /\ FailuresAreTold /\ OneRecord
  BY <1>1, <1>2 DEF EnhancementsMayFail, FailuresAreTold, OneRecord
<1>11. RanksDecide /\ GatesKeepTheBest /\ ContextFits
  BY <1>1, <1>2 DEF RanksDecide, GatesKeepTheBest, ContextFits
<1>12. CitationsStand
  BY <1>2 DEF CitationsStand, NoCites, SetOf
<1>. QED  BY <1>4, <1>5, <1>6, <1>7, <1>8, <1>9, <1>10, <1>11, <1>12 DEF RetrievalInv, RankingIsSound

LEMMA NothingToFindStep ==
  ASSUME RetrievalInv, NothingToFind
  PROVE  RetrievalInv'
<1>1. /\ turn.phase = "find" /\ turn.at = 1 /\ (turn.query = <<>> \/ turn.kbs = <<>>)
      /\ turn \in Turns /\ snaps = <<>> /\ past.spaces = {} /\ Found1
  BY DEF NothingToFind, RetrievalInv, RetrievalShape, Progress, Late, Before
<1>2. UNCHANGED <<base, snaps, cache, groups, ranked, degraded, cites, past>>
  BY DEF NothingToFind
<1>3. PICK p \in {"answer", "failed"} : Goto(p)
  BY DEF NothingToFind
<1>4. /\ turn' \in Turns /\ turn'.phase = p /\ turn'.asked = turn.asked /\ turn'.kbs = turn.kbs
      /\ turn'.query = turn.query /\ turn'.mode = turn.mode /\ turn'.at = turn.at
  <2>1. p \in Phases
    BY DEF Phases, EndOfTurn
  <2>. QED  BY <1>1, <1>3, <2>1, GotoFields
<1>5. RetrievalShape'
  BY <1>1, <1>2, <1>3, <1>4 DEF RetrievalInv, RankingIsSound, RetrievalShape
<1>6. Rebuilt'
  BY <1>1, <1>2, <1>3, <1>4 DEF RetrievalInv, RankingIsSound, Rebuilt, Together
<1>7. Progress'
  BY <1>1, <1>2, <1>3, <1>4 DEF RetrievalInv, Progress, Late, Found1, Searching, Before
<1>8. Bought'
  BY <1>1, <1>2, <1>3, <1>4 DEF RetrievalInv, RankingIsSound, Bought, ModelsAsked
<1>9. Withdrawals'
  BY <1>1, <1>2, <1>3, <1>4 DEF RetrievalInv, RankingIsSound, Withdrawals, Untouched
<1>10. Orderly'
  BY <1>1, <1>2, <1>3, <1>4 DEF RetrievalInv, RankingIsSound, Orderly
<1>11. EnhancementsMayFail'
  BY <1>1, <1>2, <1>3, <1>4 DEF RetrievalInv, EnhancementsMayFail, Found1
<1>12. FailuresAreTold'
  BY <1>1, <1>2, <1>3, <1>4 DEF RetrievalInv, RankingIsSound, FailuresAreTold
<1>13. OneRecord'
  BY <1>1, <1>2, <1>3, <1>4 DEF RetrievalInv, RankingIsSound, OneRecord, Progress, Late, Searching
<1>14. RanksDecide'
  BY <1>1, <1>2, <1>3, <1>4 DEF RetrievalInv, RankingIsSound, RanksDecide
<1>15. GatesKeepTheBest'
  BY <1>1, <1>2, <1>3, <1>4 DEF RetrievalInv, RankingIsSound, GatesKeepTheBest
<1>16. ContextFits'
  BY <1>1, <1>2, <1>3, <1>4 DEF ContextFits, Found1
<1>17. CitationsStand'
  BY <1>1, <1>2, <1>3, <1>4 DEF RetrievalInv, RankingIsSound, CitationsStand
<1>. QED  BY <1>5, <1>6, <1>7, <1>8, <1>9, <1>10, <1>11, <1>12, <1>13, <1>14, <1>15, <1>16, <1>17 DEF RetrievalInv, RankingIsSound

(* What happens to the knowledge bases meanwhile.                          *)
LEMMA ChangeStep ==
  ASSUME RetrievalInv, NEW k \in Kbs, NEW to \in Base, Change(k, to), Together(to),
         base[k].gone \subseteq to.gone, NEW w \in SUBSET Chunks,
         past' \in Pasts, past' = [past EXCEPT !.changes = @ + 1, !.withdrawn = w],
         \A q \in Kbs : \A i \in 1 .. PerKb :
           <<q, i>> \in w => <<q, i>> \in past.withdrawn \/ (q = k /\ i \in to.gone),
         turn.phase # "find" => w = past.withdrawn
  PROVE  RetrievalInv'
<1>1. /\ turn.phase \in Before /\ turn.phase # "fuse" /\ base' = [base EXCEPT ![k] = to]
      /\ UNCHANGED <<turn, snaps, cache, groups, ranked, degraded, cites>>
  BY DEF RetrievalInv, RetrievalShape, Turns, Phases, Late, Before, Change
<1>2. /\ base \in [Kbs -> Base] /\ base' \in [Kbs -> Base] /\ base'[k] = to
      /\ \A q \in Kbs : q # k => base'[q] = base[q]
      /\ \A q \in Kbs : base[q].gone \subseteq base'[q].gone /\ base'[q].gone \subseteq 1 .. PerKb
  <2>1. base \in [Kbs -> Base]
    BY DEF RetrievalInv, RetrievalShape
  <2>2. /\ base' \in [Kbs -> Base] /\ base'[k] = to
        /\ \A q \in Kbs : q # k => base'[q] = base[q]
    BY <1>1, <2>1
  <2>3. \A q \in Kbs : base'[q].gone \subseteq 1 .. PerKb
    BY <2>2 DEF Base
  <2>. QED  BY <2>1, <2>2, <2>3
<1>3. /\ past'.changes = past.changes + 1 /\ past'.withdrawn = w /\ past.changes \in Nat
      /\ past'.failed = past.failed /\ past'.spaces = past.spaces /\ past'.bought = past.bought
      /\ past'.found = past.found /\ past'.applied = past.applied /\ past'.traces = past.traces
      /\ past'.told = past.told
  BY DEF RetrievalInv, RetrievalShape, Pasts
<1>4. RetrievalShape'
  BY <1>1, <1>2, <1>3 DEF RetrievalInv, RankingIsSound, RetrievalShape
<1>5. Rebuilt'
  BY <1>1, <1>2, <1>3 DEF RetrievalInv, RankingIsSound, Rebuilt, Together
<1>6. Progress'
  BY <1>1, <1>2, <1>3 DEF RetrievalInv, RankingIsSound, Progress, Late, Found1, Searching, Before
<1>7. Bought'
  BY <1>1, <1>2, <1>3 DEF RetrievalInv, RankingIsSound, Bought, ModelsAsked
<1>8. Withdrawals'
  <2>1. \A q \in Kbs : \A i \in 1 .. PerKb : <<q, i>> \in past'.withdrawn => i \in base'[q].gone
    BY <1>2, <1>3 DEF RetrievalInv, Withdrawals
  <2>2. turn.phase = "find" => groups = <<>> /\ ranked = <<>>
    BY DEF RetrievalInv, Progress, Late, Before, Found1
  <2>3. turn.phase # "find" => past'.withdrawn = past.withdrawn
    BY <1>3
  <2>. QED  BY <1>1, <2>1, <2>2, <2>3 DEF RetrievalInv, Withdrawals, Untouched
<1>9. Orderly'
  <2>1. past'.changes # 0
    BY <1>3
  <2>. QED  BY <1>1, <2>1 DEF RetrievalInv, Orderly
<1>10. EnhancementsMayFail'
  BY <1>1, <1>2, <1>3 DEF RetrievalInv, RankingIsSound, EnhancementsMayFail
<1>11. FailuresAreTold'
  BY <1>1, <1>2, <1>3 DEF RetrievalInv, RankingIsSound, FailuresAreTold
<1>12. OneRecord'
  BY <1>1, <1>2, <1>3 DEF RetrievalInv, RankingIsSound, OneRecord, Progress, Late, Searching
<1>13. RanksDecide'
  BY <1>1 DEF RanksDecide, Before, Searching
<1>14. GatesKeepTheBest'
  <2>1. past'.changes # 0
    BY <1>3
  <2>2. \A q \in Kbs : base[q].gone = 1 .. PerKb => base'[q].gone = 1 .. PerKb
    BY <1>2
  <2>. QED  BY <1>1, <2>1, <2>2 DEF RetrievalInv, RankingIsSound, GatesKeepTheBest
<1>15. ContextFits'
  BY <1>1 DEF ContextFits, Before, Searching
<1>16. CitationsStand'
  BY <1>1, <1>2, <1>3 DEF RetrievalInv, RankingIsSound, CitationsStand
<1>. QED  BY <1>4, <1>5, <1>6, <1>7, <1>8, <1>9, <1>10, <1>11, <1>12, <1>13, <1>14, <1>15, <1>16 DEF RetrievalInv, RankingIsSound

LEMMA MeanwhileStep ==
  ASSUME RetrievalInv, NEW k \in Kbs, DeleteKb(k) \/ Rebuild(k)
  PROVE  RetrievalInv'
<1>1. base[k] \in Base /\ Together(base[k]) /\ past \in Pasts
  BY DEF RetrievalInv, RetrievalShape, Rebuilt
<1>2. past' = [past EXCEPT !.changes = @ + 1, !.withdrawn = past.withdrawn]
  <2>1. past' = [past EXCEPT !.changes = @ + 1]
    BY DEF DeleteKb, Rebuild, Changed
  <2>. QED  BY <1>1, <2>1 DEF Pasts
<1>3. past' \in Pasts /\ past.withdrawn \in SUBSET Chunks
  <2>1. PICK n \in Nat : n = past.changes + 1
    BY <1>1 DEF Pasts
  <2>2. past' = [past EXCEPT !.changes = n, !.withdrawn = past.withdrawn]
    BY <1>2, <2>1
  <2>. QED  BY <1>1, <2>2 DEF Pasts
<1>4. CASE DeleteKb(k)
  <2>. DEFINE to == [base[k] EXCEPT !.alive = FALSE]
  <2>1. Change(k, to)
    BY <1>4 DEF DeleteKb
  <2>2. to \in Base /\ Together(to) /\ base[k].gone \subseteq to.gone
    BY <1>1 DEF Base, Together
  <2>. HIDE DEF to
  <2>. QED  BY <1>2, <1>3, <2>1, <2>2, ChangeStep
<1>5. CASE Rebuild(k)
  <2>. PICK m \in {"old", "new"}, v \in {1, 2} : m = "new" /\ v = 2
    OBVIOUS
  <2>. DEFINE to == [base[k] EXCEPT !.model = m, !.ver = v]
  <2>1. Change(k, to)
    BY <1>5 DEF Rebuild
  <2>2. to \in Base /\ to.gone = base[k].gone /\ to.model = m /\ to.ver = v
    BY <1>1 DEF Base
  <2>3. m = "new" /\ v = 2 /\ "new" # "old" /\ 2 # 1
    OBVIOUS
  <2>. HIDE DEF to
  <2>4. Together(to)
    BY <2>2, <2>3 DEF Together
  <2>. QED  BY <1>2, <1>3, <2>1, <2>2, <2>4, ChangeStep
<1>. QED  BY <1>4, <1>5

LEMMA WithdrawStep ==
  ASSUME RetrievalInv, NEW k \in Kbs, NEW i \in 1 .. PerKb, Withdraw(k, i)
  PROVE  RetrievalInv'
<1>1. base[k] \in Base /\ Together(base[k]) /\ past \in Pasts
  BY DEF RetrievalInv, RetrievalShape, Rebuilt
<1>. DEFINE to == [base[k] EXCEPT !.gone = @ \union {i}]
            w == IF turn.phase = "find" THEN past.withdrawn \union {<<k, i>>} ELSE past.withdrawn
<1>2. Change(k, to)
  BY DEF Withdraw
<1>3. to \in Base /\ Together(to) /\ to.gone = base[k].gone \union {i}
  BY <1>1 DEF Base, Together
<1>4. w \in SUBSET Chunks
  BY <1>1 DEF Pasts, Chunks
<1>5. past' = [past EXCEPT !.changes = @ + 1, !.withdrawn = w]
  BY DEF Withdraw
<1>6. \A q \in Kbs : \A j \in 1 .. PerKb :
        <<q, j>> \in w => <<q, j>> \in past.withdrawn \/ (q = k /\ j \in to.gone)
  BY <1>3
<1>7. turn.phase # "find" => w = past.withdrawn
  OBVIOUS
<1>. HIDE DEF to, w
<1>8. past' \in Pasts
  <2>1. PICK n \in Nat : n = past.changes + 1
    BY <1>1 DEF Pasts
  <2>2. past' = [past EXCEPT !.changes = n, !.withdrawn = w]
    BY <1>5, <2>1
  <2>. QED  BY <1>1, <1>4, <2>2 DEF Pasts
<1>9. base[k].gone \subseteq to.gone
  BY <1>3
<1>. QED  BY <1>2, <1>3, <1>4, <1>5, <1>6, <1>7, <1>8, <1>9, ChangeStep

(* query and retrieve_for_chat, up to the vector of the question.          *)
LEMMA FindKbStep ==
  ASSUME RetrievalInv, FindKb
  PROVE  RetrievalInv'
<1>1. /\ turn \in Turns /\ snaps \in Seq(Snap) /\ turn.phase = "find" /\ past.spaces = {} /\ groups = <<>> /\ Found1
      /\ turn.at \in 1 .. Len(turn.kbs)
  <2>1. turn \in Turns /\ snaps \in Seq(Snap) /\ turn.phase = "find" /\ turn.at <= Len(turn.kbs)
    BY DEF FindKb, RetrievalInv, RetrievalShape
  <2>2. turn.at \in Nat \ {0} /\ Len(turn.kbs) \in Nat
    BY <2>1 DEF Turns
  <2>. QED  BY <2>1, <2>2 DEF RetrievalInv, Progress, Late, Before
<1>2. PICK k \in Kbs : k = turn.kbs[turn.at]
  BY <1>1 DEF Turns
<1>3. UNCHANGED <<base, cache, groups, ranked, degraded, cites, past>>
  BY DEF FindKb
<1>4. /\ turn' \in Turns /\ turn'.phase = "find" /\ turn'.asked = turn.asked /\ turn'.kbs = turn.kbs
      /\ turn'.query = turn.query /\ turn'.at # 1
  <2>1. PICK n \in Nat \ {0} : n = turn.at + 1 /\ n # 1
    BY <1>1
  <2>2. turn' = [turn EXCEPT !.at = n]
    BY <2>1 DEF FindKb
  <2>. QED  BY <1>1, <2>1, <2>2 DEF Turns
<1>5. /\ snaps' \in Seq(Snap) /\ Len(snaps) <= Len(snaps')
      /\ \A i \in 1 .. Len(snaps) : snaps'[i] = snaps[i]
      /\ \A i \in 1 .. Len(snaps') : Together(snaps'[i])
  <2>1. base[k] \in Base /\ Together(base[k]) /\ \A i \in 1 .. Len(snaps) : Together(snaps[i])
    BY DEF RetrievalInv, RetrievalShape, Rebuilt
  <2>. DEFINE snap == [kb |-> k, model |-> base[k].model, ver |-> base[k].ver, mode |-> base[k].mode]
  <2>2. snap \in Snap /\ Together(snap)
    BY <2>1 DEF Base, Snap, Together
  <2>3. snaps' = Append(snaps, snap) \/ snaps' = snaps
    BY <1>2 DEF FindKb
  <2>. HIDE DEF snap
  <2>4. CASE snaps' = Append(snaps, snap)
    BY <1>1, <2>1, <2>2, <2>4
  <2>5. CASE snaps' = snaps
    BY <1>1, <2>1, <2>5
  <2>. QED  BY <2>3, <2>4, <2>5
<1>6. RetrievalShape'
  BY <1>1, <1>2, <1>3, <1>4, <1>5 DEF RetrievalInv, RankingIsSound, RetrievalShape
<1>7. Rebuilt'
  BY <1>1, <1>2, <1>3, <1>4, <1>5 DEF RetrievalInv, RankingIsSound, Rebuilt, Together
<1>8. Progress'
  BY <1>1, <1>2, <1>3, <1>4, <1>5 DEF RetrievalInv, RankingIsSound, Progress, Late, Found1, Searching, Before
<1>9. Bought'
  <2>1. Len(snaps) \in Nat /\ Len(snaps') \in Nat
    BY <1>1, <1>5
  <2>2. ModelsAsked \subseteq ModelsAsked'
    BY <1>5, <2>1 DEF ModelsAsked
  <2>. QED  BY <1>3, <2>2 DEF RetrievalInv, Bought
<1>10. Withdrawals'
  BY <1>1, <1>2, <1>3, <1>4, <1>5 DEF RetrievalInv, RankingIsSound, Withdrawals, Untouched
<1>11. Orderly'
  BY <1>1, <1>2, <1>3, <1>4, <1>5 DEF RetrievalInv, RankingIsSound, Orderly
<1>12. EnhancementsMayFail'
  BY <1>1, <1>2, <1>3, <1>4, <1>5 DEF RetrievalInv, RankingIsSound, EnhancementsMayFail
<1>13. FailuresAreTold'
  BY <1>1, <1>2, <1>3, <1>4, <1>5 DEF RetrievalInv, RankingIsSound, FailuresAreTold
<1>14. OneRecord'
  BY <1>1, <1>2, <1>3, <1>4, <1>5 DEF RetrievalInv, RankingIsSound, OneRecord, Progress, Late, Searching
<1>15. RanksDecide'
  BY <1>4 DEF RanksDecide
<1>16. GatesKeepTheBest'
  BY <1>1, <1>2, <1>3, <1>4, <1>5 DEF RetrievalInv, RankingIsSound, GatesKeepTheBest
<1>17. ContextFits'
  BY <1>4 DEF ContextFits
<1>18. CitationsStand'
  <2>1. cites' = cites
    BY DEF FindKb
  <2>. QED  BY <2>1 DEF RetrievalInv, RankingIsSound, CitationsStand
<1>. QED  BY <1>6, <1>7, <1>8, <1>9, <1>10, <1>11, <1>12, <1>13, <1>14, <1>15, <1>16, <1>17, <1>18 DEF RetrievalInv, RankingIsSound

LEMMA FoundStep ==
  ASSUME RetrievalInv, Found
  PROVE  RetrievalInv'
<1>1. /\ turn \in Turns /\ snaps \in Seq(Snap) /\ turn.phase = "find" /\ past.spaces = {} /\ groups = <<>> /\ Found1
      /\ turn.query # <<>> /\ turn.kbs # <<>>
  BY DEF Found, RetrievalInv, RetrievalShape, Progress, Late, Before
<1>2. UNCHANGED <<base, snaps, cache, groups, ranked, degraded, cites, past>>
  BY DEF Found
<1>3. /\ turn' \in Turns /\ turn'.asked = turn.asked /\ turn'.kbs = turn.kbs /\ turn'.query = turn.query
      /\ \/ turn'.phase = "embed" /\ turn'.at = 1 /\ 1 <= Len(snaps)
         \/ turn'.phase \in {"answer", "not_found"} /\ snaps = <<>>
  <2>1. CASE snaps # <<>>
    <3>1. turn' = [turn EXCEPT !.phase = "embed", !.at = 1, !.mode = snaps[1].mode]
      BY <2>1 DEF Found
    <3>2. snaps[1] \in Snap /\ 1 <= Len(snaps)
      BY <1>1, <2>1
    <3>3. snaps[1].mode \in Asked
      BY <3>2 DEF Snap
    <3>4. PICK p \in Phases, n \in Nat \ {0}, m \in Asked : p = "embed" /\ n = 1 /\ m = snaps[1].mode
      BY <3>3 DEF Phases, Before, Searching
    <3>5. turn' = [turn EXCEPT !.phase = p, !.at = n, !.mode = m]
      BY <3>1, <3>4
    <3>6. /\ turn' \in Turns /\ turn'.asked = turn.asked /\ turn'.kbs = turn.kbs /\ turn'.query = turn.query
          /\ turn'.phase = p /\ turn'.at = n
      BY <1>1, <3>5 DEF Turns
    <3>. QED  BY <3>2, <3>4, <3>6
  <2>2. CASE snaps = <<>>
    <3>1. PICK p \in {"answer", "not_found"} : turn' = [turn EXCEPT !.phase = p]
      BY <2>2 DEF Found
    <3>2. p \in Phases
      BY DEF Phases, EndOfTurn
    <3>. QED  BY <1>1, <2>2, <3>1, <3>2 DEF Turns
  <2>. QED  BY <2>1, <2>2
<1>4. RetrievalShape'
  BY <1>1, <1>2, <1>3 DEF RetrievalInv, RankingIsSound, RetrievalShape
<1>5. Rebuilt'
  BY <1>1, <1>2, <1>3 DEF RetrievalInv, RankingIsSound, Rebuilt, Together
<1>6. Progress'
  BY <1>1, <1>2, <1>3 DEF RetrievalInv, RankingIsSound, Progress, Late, Found1, Searching, Before
<1>7. Bought'
  BY <1>1, <1>2, <1>3 DEF RetrievalInv, RankingIsSound, Bought, ModelsAsked
<1>8. Withdrawals'
  BY <1>1, <1>2, <1>3 DEF RetrievalInv, RankingIsSound, Withdrawals, Untouched
<1>9. Orderly'
  BY <1>1, <1>2, <1>3 DEF RetrievalInv, RankingIsSound, Orderly
<1>10. EnhancementsMayFail'
  BY <1>1, <1>2, <1>3 DEF RetrievalInv, EnhancementsMayFail, Found1
<1>11. FailuresAreTold'
  BY <1>1, <1>2, <1>3 DEF RetrievalInv, FailuresAreTold
<1>12. OneRecord'
  BY <1>1, <1>2, <1>3 DEF RetrievalInv, RankingIsSound, OneRecord, Progress, Late, Searching
<1>13. RanksDecide'
  BY <1>1, <1>2, <1>3 DEF RetrievalInv, RankingIsSound, RanksDecide
<1>14. GatesKeepTheBest'
  BY <1>1, <1>2, <1>3 DEF RetrievalInv, RankingIsSound, GatesKeepTheBest
<1>15. ContextFits'
  BY <1>1, <1>2, <1>3 DEF ContextFits, Found1
<1>16. CitationsStand'
  BY <1>1, <1>2, <1>3 DEF RetrievalInv, RankingIsSound, CitationsStand
<1>. QED  BY <1>4, <1>5, <1>6, <1>7, <1>8, <1>9, <1>10, <1>11, <1>12, <1>13, <1>14, <1>15, <1>16 DEF RetrievalInv, RankingIsSound

LEMMA FailsStep ==
  ASSUME RetrievalInv, Fails
  PROVE  RetrievalInv'
<1>1. turn \in Turns /\ past \in Pasts /\ turn.phase \in Searching /\ past.traces = 0
  BY DEF Fails, RetrievalInv, RetrievalShape, Progress, Late, Before, Found1, Searching
<1>2. UNCHANGED <<base, snaps, cache, groups, ranked, degraded, cites>>
  BY DEF Fails
<1>3. /\ turn' \in Turns /\ turn'.phase = "failed" /\ turn'.asked = turn.asked /\ turn'.kbs = turn.kbs
      /\ turn'.query = turn.query /\ turn'.mode = turn.mode /\ turn'.at = turn.at
  <2>1. "failed" \in Phases
    BY DEF Phases, EndOfTurn, Before, Searching
  <2>2. Goto("failed")
    BY DEF Fails
  <2>. QED  BY <1>1, <2>1, <2>2, GotoFields
<1>4. /\ past' \in Pasts /\ past'.failed = past.failed \union {"search"} /\ past'.spaces = past.spaces
      /\ past'.bought = past.bought /\ past'.found = past.found /\ past'.applied = past.applied
      /\ past'.traces = past.traces /\ past'.told = past.told /\ past'.changes = past.changes
      /\ past'.withdrawn = past.withdrawn
  BY <1>1 DEF Fails, Pasts
<1>5. RetrievalShape'
  BY <1>1, <1>2, <1>3, <1>4 DEF RetrievalInv, RankingIsSound, RetrievalShape
<1>6. Rebuilt'
  BY <1>1, <1>2, <1>3, <1>4 DEF RetrievalInv, RankingIsSound, Rebuilt, Together
<1>7. Progress'
  BY <1>1, <1>2, <1>3, <1>4 DEF RetrievalInv, RankingIsSound, Progress, Late, Found1, Searching, Before
<1>8. Bought'
  BY <1>1, <1>2, <1>3, <1>4 DEF RetrievalInv, RankingIsSound, Bought, ModelsAsked
<1>9. Withdrawals'
  BY <1>1, <1>2, <1>3, <1>4 DEF RetrievalInv, RankingIsSound, Withdrawals, Untouched
<1>10. Orderly'
  BY <1>1, <1>2, <1>3, <1>4 DEF RetrievalInv, RankingIsSound, Orderly
<1>11. EnhancementsMayFail'
  BY <1>1, <1>2, <1>3, <1>4 DEF RetrievalInv, RankingIsSound, EnhancementsMayFail
<1>12. FailuresAreTold'
  BY <1>1, <1>2, <1>3, <1>4 DEF RetrievalInv, RankingIsSound, FailuresAreTold
<1>13. OneRecord'
  BY <1>1, <1>2, <1>3, <1>4 DEF RetrievalInv, RankingIsSound, OneRecord, Progress, Late, Searching
<1>14. RanksDecide'
  BY <1>1, <1>2, <1>3, <1>4 DEF RetrievalInv, RankingIsSound, RanksDecide
<1>15. GatesKeepTheBest'
  BY <1>1, <1>2, <1>3, <1>4 DEF RetrievalInv, RankingIsSound, GatesKeepTheBest
<1>16. ContextFits'
  BY <1>1, <1>2, <1>3, <1>4 DEF RetrievalInv, RankingIsSound, ContextFits
<1>17. CitationsStand'
  BY <1>1, <1>2, <1>3, <1>4 DEF RetrievalInv, RankingIsSound, CitationsStand
<1>. QED  BY <1>5, <1>6, <1>7, <1>8, <1>9, <1>10, <1>11, <1>12, <1>13, <1>14, <1>15, <1>16, <1>17 DEF RetrievalInv, RankingIsSound

LEMMA EmbedStep ==
  ASSUME RetrievalInv, Embed
  PROVE  RetrievalInv'
<1>1. /\ turn \in Turns /\ past \in Pasts /\ turn.phase = "embed" /\ Found1 /\ snaps \in Seq(Snap)
      /\ turn.at \in 1 .. Len(snaps)
  <2>1. turn \in Turns /\ past \in Pasts /\ turn.phase = "embed" /\ Found1 /\ snaps \in Seq(Snap) /\ turn.at <= Len(snaps)
    BY DEF Embed, RetrievalInv, RetrievalShape, Progress, Late, Before, Searching
  <2>2. turn.at \in Nat \ {0}
    BY <2>1 DEF Turns
  <2>. QED  BY <2>1, <2>2
<1>2. UNCHANGED <<base, snaps, groups, ranked, degraded, cites>>
  BY DEF Embed
<1>3. /\ turn' \in Turns /\ turn'.phase = "vector" /\ turn'.asked = turn.asked /\ turn'.kbs = turn.kbs
      /\ turn'.query = turn.query /\ turn'.mode = turn.mode /\ turn'.at = turn.at
  <2>1. "vector" \in Phases
    BY DEF Phases, EndOfTurn, Before, Searching
  <2>2. Goto("vector")
    BY DEF Embed
  <2>. QED  BY <1>1, <2>1, <2>2, GotoFields
<1>4. PICK model \in {"old", "new"} :
        /\ model = snaps[turn.at].model /\ cache' = cache \union {model}
        /\ past' = [past EXCEPT !.bought = @ + IF Cached(model) THEN 0 ELSE 1]
  <2>1. snaps[turn.at] \in Snap
    BY <1>1
  <2>2. snaps[turn.at].model \in {"old", "new"}
    BY <2>1 DEF Snap
  <2>. QED  BY <2>2 DEF Embed
<1>5. /\ past' \in Pasts /\ past'.bought = past.bought + (IF model \in cache THEN 0 ELSE 1) /\ past.bought \in Nat
      /\ past'.failed = past.failed /\ past'.spaces = past.spaces /\ past'.found = past.found
      /\ past'.applied = past.applied /\ past'.traces = past.traces /\ past'.told = past.told
      /\ past'.changes = past.changes /\ past'.withdrawn = past.withdrawn
  <2>1. PICK n \in Nat : n = past.bought + (IF model \in cache THEN 0 ELSE 1)
    BY <1>1 DEF Pasts
  <2>2. past' = [past EXCEPT !.bought = n]
    BY <1>4, <2>1 DEF Cached
  <2>3. past.bought \in Nat
    BY <1>1 DEF Pasts
  <2>. QED  BY <1>1, <2>1, <2>2, <2>3 DEF Pasts
<1>6. RetrievalShape'
  BY <1>1, <1>2, <1>3, <1>4, <1>5 DEF RetrievalInv, RankingIsSound, RetrievalShape
<1>7. Rebuilt'
  BY <1>1, <1>2, <1>3, <1>4, <1>5 DEF RetrievalInv, RankingIsSound, Rebuilt, Together
<1>8. Progress'
  BY <1>1, <1>2, <1>3, <1>4, <1>5 DEF RetrievalInv, RankingIsSound, Progress, Late, Found1, Searching, Before
<1>9. Bought'
  <2>1. cache \subseteq {"old", "new"} /\ past.bought = Cardinality(cache) /\ cache \subseteq ModelsAsked
    BY DEF RetrievalInv, RetrievalShape, Bought
  <2>2. IsFiniteSet({"old", "new"})
    <3>1. {"old", "new"} = {"old"} \union {"new"}
      OBVIOUS
    <3>2. IsFiniteSet({"old"})
      BY FS_Singleton
    <3>3. IsFiniteSet({"old"} \union {"new"})
      BY <3>2, FS_AddElement
    <3>. QED  BY <3>1, <3>3
  <2>3. IsFiniteSet(cache)
    BY <2>1, <2>2, FS_Subset
  <2>4. Cardinality(cache \union {model}) = IF model \in cache THEN Cardinality(cache) ELSE Cardinality(cache) + 1
    BY <2>3, FS_AddElement
  <2>5. past'.bought = Cardinality(cache')
    BY <1>4, <1>5, <2>1, <2>4
  <2>6. model \in ModelsAsked /\ ModelsAsked' = ModelsAsked
    BY <1>1, <1>2, <1>4 DEF ModelsAsked
  <2>. QED  BY <1>4, <2>1, <2>5, <2>6 DEF Bought
<1>10. Withdrawals'
  BY <1>1, <1>2, <1>3, <1>4, <1>5 DEF RetrievalInv, RankingIsSound, Withdrawals, Untouched
<1>11. Orderly'
  BY <1>1, <1>2, <1>3, <1>4, <1>5 DEF RetrievalInv, RankingIsSound, Orderly
<1>12. EnhancementsMayFail'
  BY <1>1, <1>2, <1>3, <1>4, <1>5 DEF RetrievalInv, RankingIsSound, EnhancementsMayFail
<1>13. FailuresAreTold'
  BY <1>1, <1>2, <1>3, <1>4, <1>5 DEF RetrievalInv, RankingIsSound, FailuresAreTold
<1>14. OneRecord'
  BY <1>1, <1>2, <1>3, <1>4, <1>5 DEF RetrievalInv, RankingIsSound, OneRecord, Progress, Late, Searching
<1>15. RanksDecide'
  BY <1>1, <1>2, <1>3, <1>4, <1>5 DEF RetrievalInv, RankingIsSound, RanksDecide
<1>16. GatesKeepTheBest'
  BY <1>1, <1>2, <1>3, <1>4, <1>5 DEF RetrievalInv, RankingIsSound, GatesKeepTheBest
<1>17. ContextFits'
  BY <1>1, <1>2, <1>3, <1>4, <1>5 DEF RetrievalInv, RankingIsSound, ContextFits
<1>18. CitationsStand'
  BY <1>1, <1>2, <1>3, <1>4, <1>5 DEF RetrievalInv, RankingIsSound, CitationsStand
<1>. QED  BY <1>6, <1>7, <1>8, <1>9, <1>10, <1>11, <1>12, <1>13, <1>14, <1>15, <1>16, <1>17, <1>18 DEF RetrievalInv, RankingIsSound

-----------------------------------------------------------------------------
(***************************************************************************)
(* The routes                                                              *)
(***************************************************************************)
LEMMA NewRoute ==
  ASSUME RetrievalInv, NEW k \in Kbs, NEW some \in SUBSET Active(k), NEW scores \in SUBSET Int,
         NEW hits \in HitsOn(some, scores), NEW new, new = Close(hits)
  PROVE  /\ hits \in Seq(Hits) /\ Len(hits) = Cardinality(some)
         /\ new \in Seq(Hits) /\ Len(new) <= PerKb /\ Distinct(new) /\ Untouched(new)
         /\ hits # <<>> => new # <<>> /\ new[1] = hits[1] /\ new[1].score \in scores
         /\ new # <<>> /\ new[1].score <= 0 => new = hits
<1>1. /\ hits \in Seq(Hits) /\ Len(hits) = Cardinality(some) /\ Len(hits) \in 0 .. PerKb
      /\ \A i \in 1 .. Len(hits) : hits[i].chunk \in some
      /\ \A i, j \in 1 .. Len(hits) : i < j => hits[i].chunk # hits[j].chunk /\ hits[i].score >= hits[j].score
  BY RouteHits
<1>2. /\ new \in Seq(Hits) /\ Len(new) \in 0 .. Len(hits)
      /\ hits # <<>> => new # <<>> /\ new[1] = hits[1]
  BY <1>1, GatedHits
<1>3. PICK at \in [1 .. Len(new) -> 1 .. Len(hits)] :
        /\ \A i \in 1 .. Len(new) : new[i] = hits[at[i]]
        /\ \A i, j \in 1 .. Len(new) : i < j => at[i] < at[j]
  BY <1>1, GatedHits
<1>4. Distinct(new)
  <2>. SUFFICES ASSUME NEW i \in 1 .. Len(new), NEW j \in 1 .. Len(new), i # j
                PROVE  new[i].chunk # new[j].chunk
    BY DEF Distinct
  <2>1. at[i] \in 1 .. Len(hits) /\ at[j] \in 1 .. Len(hits)
    BY <1>3
  <2>2. i < j \/ j < i
    BY <1>2
  <2>3. at[i] < at[j] \/ at[j] < at[i]
    BY <1>3, <2>2
  <2>. QED  BY <1>1, <1>3, <2>1, <2>3
<1>5. Untouched(new)
  <2>. SUFFICES ASSUME NEW i \in 1 .. Len(new)
                PROVE  new[i].chunk \notin past.withdrawn
    BY DEF Untouched
  <2>1. at[i] \in 1 .. Len(hits)
    BY <1>3
  <2>2. new[i].chunk \in Active(k)
    BY <1>1, <1>3, <2>1
  <2>3. PICK n \in (1 .. PerKb) \ base[k].gone : new[i].chunk = <<k, n>>
    BY <2>2 DEF Active
  <2>4. <<k, n>> \notin past.withdrawn
    BY <2>3 DEF RetrievalInv, Withdrawals
  <2>. QED  BY <2>3, <2>4
<1>6. hits # <<>> => hits[1].score \in scores
  <2>. SUFFICES ASSUME hits # <<>> PROVE hits[1].score \in scores
    OBVIOUS
  <2>1. hits \in [1 .. Cardinality(some) -> [chunk : some, score : scores]]
    BY DEF HitsOn
  <2>2. 1 \in 1 .. Cardinality(some)
    BY <1>1
  <2>3. hits[1] \in [chunk : some, score : scores]
    BY <2>1, <2>2
  <2>. QED  BY <2>3
<1>7. new # <<>> /\ new[1].score <= 0 => new = hits
  <2>. SUFFICES ASSUME new # <<>>, new[1].score <= 0 PROVE new = hits
    OBVIOUS
  <2>1. hits # <<>>
    BY <1>1, <1>2
  <2>2. hits[1].score <= 0
    BY <1>2, <2>1
  <2>. QED  BY <2>2 DEF Close
<1>8. Len(new) <= PerKb
  BY <1>1, <1>2, SizesAreNumbers
<1>. QED  BY <1>1, <1>2, <1>4, <1>5, <1>6, <1>7, <1>8

LEMMA AllAreActive ==
  ASSUME NEW k \in Kbs, base[k].gone \in SUBSET (1 .. PerKb)
  PROVE  /\ base[k].gone = {} => Cardinality(Active(k)) = PerKb
         /\ Cardinality(Active(k)) = 0 => base[k].gone = 1 .. PerKb
<1>1. 1 \in Int /\ PerKb \in Int /\ ~ (1 > PerKb) /\ PerKb - 1 + 1 = PerKb
  BY SizesAreNumbers
<1>2. IsFiniteSet(1 .. PerKb) /\ Cardinality(1 .. PerKb) = PerKb
  BY <1>1, FS_Interval
<1>3. ASSUME base[k].gone = {}
      PROVE  Cardinality(Active(k)) = PerKb
  <2>. DEFINE f == [i \in 1 .. PerKb |-> <<k, i>>]
  <2>1. /\ f \in [1 .. PerKb -> Active(k)] /\ \A x \in Active(k) : \E i \in 1 .. PerKb : f[i] = x
        /\ \A i, j \in 1 .. PerKb : f[i] = f[j] => i = j
    BY <1>3 DEF Active
  <2>. HIDE DEF f
  <2>2. f \in Surjection(1 .. PerKb, Active(k)) /\ f \in Injection(1 .. PerKb, Active(k))
    BY <2>1 DEF Surjection, Injection, IsInjective
  <2>. QED  BY <1>2, <2>2, FS_Surjection
<1>4. ASSUME Cardinality(Active(k)) = 0
      PROVE  base[k].gone = 1 .. PerKb
  <2>1. Active(k) \in SUBSET Active(k)
    OBVIOUS
  <2>2. IsFiniteSet(Active(k))
    BY <2>1, ActiveFits
  <2>3. Active(k) = {}
    BY <1>4, <2>2, FS_EmptySet
  <2>. QED  BY <2>3 DEF Active
<1>. QED  BY <1>3, <1>4

(* What a new route does to the routes there are.                          *)
LEMMA RouteAppended ==
  ASSUME RetrievalInv, NEW new \in Seq(Hits), groups' = Append(groups, new)
  PROVE  /\ groups' \in Seq(Seq(Hits)) /\ Len(groups') = Len(groups) + 1 /\ Len(groups) \in Nat
         /\ \A g \in 1 .. Len(groups') : \/ g \in 1 .. Len(groups) /\ groups'[g] = groups[g]
                                         \/ groups'[g] = new
<1>1. groups \in Seq(Seq(Hits))
  BY DEF RetrievalInv, RetrievalShape
<1>. QED  BY <1>1

(* The next route, the next knowledge base, or the end of the routes.      *)
LEMMA NextPhase ==
  ASSUME turn \in Turns, turn.at \in 1 .. Len(snaps), snaps \in Seq(Snap),
         \/ turn' = [turn EXCEPT !.phase = "fts"]
         \/ turn.at < Len(snaps) /\ turn' = [turn EXCEPT !.phase = "embed", !.at = @ + 1]
         \/ turn' = [turn EXCEPT !.phase = "fuse"]
  PROVE  /\ turn' \in Turns /\ turn'.asked = turn.asked /\ turn'.kbs = turn.kbs /\ turn'.query = turn.query
         /\ turn'.phase \in {"fts", "embed", "fuse"} /\ (turn'.phase # "fuse" => turn'.at <= Len(snaps))
<1>1. {"fts", "embed", "fuse"} \subseteq Phases /\ turn.at \in Nat \ {0} /\ Len(snaps) \in Nat
  BY DEF Phases, Before, Searching, Turns
<1>2. CASE turn.at < Len(snaps) /\ turn' = [turn EXCEPT !.phase = "embed", !.at = @ + 1]
  <2>1. PICK p \in Phases, n \in Nat \ {0} : p = "embed" /\ n = turn.at + 1 /\ n <= Len(snaps)
    BY <1>1, <1>2
  <2>2. turn' = [turn EXCEPT !.phase = p, !.at = n]
    BY <1>2, <2>1
  <2>3. /\ turn' \in Turns /\ turn'.asked = turn.asked /\ turn'.kbs = turn.kbs /\ turn'.query = turn.query
        /\ turn'.phase = p /\ turn'.at = n
    BY <2>2 DEF Turns
  <2>. QED  BY <2>1, <2>3
<1>3. CASE turn' = [turn EXCEPT !.phase = "fts"] \/ turn' = [turn EXCEPT !.phase = "fuse"]
  <2>1. PICK p \in Phases : p \in {"fts", "fuse"} /\ turn' = [turn EXCEPT !.phase = p]
    BY <1>1, <1>3
  <2>2. /\ turn' \in Turns /\ turn'.asked = turn.asked /\ turn'.kbs = turn.kbs /\ turn'.query = turn.query
        /\ turn'.phase = p /\ turn'.at = turn.at
    BY <2>1 DEF Turns
  <2>. QED  BY <1>1, <2>1, <2>2
<1>. QED  BY <1>2, <1>3

LEMMA VectorSearchStep ==
  ASSUME RetrievalInv, VectorSearch
  PROVE  RetrievalInv'
<1>1. /\ turn \in Turns /\ past \in Pasts /\ turn.phase = "vector" /\ Found1 /\ snaps \in Seq(Snap)
      /\ turn.at \in 1 .. Len(snaps) /\ base \in [Kbs -> Base]
  <2>1. /\ turn \in Turns /\ past \in Pasts /\ turn.phase = "vector" /\ Found1 /\ snaps \in Seq(Snap)
        /\ turn.at <= Len(snaps) /\ base \in [Kbs -> Base]
    BY DEF VectorSearch, RetrievalInv, RetrievalShape, Progress, Late, Before, Searching
  <2>2. turn.at \in Nat \ {0}
    BY <2>1 DEF Turns
  <2>. QED  BY <2>1, <2>2
<1>2. UNCHANGED <<base, snaps, cache, ranked, degraded, cites>>
  BY DEF VectorSearch
<1>3. PICK snap \in Snap : snap = snaps[turn.at] /\ Together(snap)
  BY <1>1 DEF RetrievalInv, Rebuilt
<1>4. PICK hits \in HitsOn(Active(snap.kb), VectorScores) : groups' = Append(groups, Close(hits))
  BY <1>3 DEF VectorSearch
<1>5. PICK new : new = Close(hits)
  OBVIOUS
<1>6. /\ snap.kb \in Kbs /\ hits \in Seq(Hits) /\ Len(hits) = Cardinality(Active(snap.kb))
      /\ new \in Seq(Hits) /\ Len(new) <= PerKb /\ Distinct(new) /\ Untouched(new)
      /\ hits # <<>> => new # <<>> /\ new[1] = hits[1]
      /\ new # <<>> /\ new[1].score <= 0 => new = hits
  <2>1. snap.kb \in Kbs
    BY DEF Snap
  <2>2. Active(snap.kb) \in SUBSET Active(snap.kb) /\ VectorScores \in SUBSET Int
    BY ScoresAreNumbers
  <2>3. /\ hits \in Seq(Hits) /\ Len(hits) = Cardinality(Active(snap.kb))
        /\ new \in Seq(Hits) /\ Len(new) <= PerKb /\ Distinct(new) /\ Untouched(new)
        /\ hits # <<>> => new # <<>> /\ new[1] = hits[1] /\ new[1].score \in VectorScores
        /\ new # <<>> /\ new[1].score <= 0 => new = hits
    BY <1>5, <2>1, <2>2, NewRoute
  <2>. QED  BY <2>1, <2>3
<1>7. /\ groups' \in Seq(Seq(Hits))
      /\ \A g \in 1 .. Len(groups') : \/ g \in 1 .. Len(groups) /\ groups'[g] = groups[g]
                                      \/ groups'[g] = new
  BY <1>4, <1>5, <1>6, RouteAppended
<1>8. /\ past' \in Pasts /\ past'.spaces = past.spaces \union {<<snap.model, snap.ver>>}
      /\ past'.failed = past.failed /\ past'.bought = past.bought /\ past'.found = past.found
      /\ past'.applied = past.applied /\ past'.traces = past.traces /\ past'.told = past.told
      /\ past'.changes = past.changes /\ past'.withdrawn = past.withdrawn
  <2>1. PICK s \in {"old", "new"} \X {1, 2} : s = <<snap.model, snap.ver>>
    BY DEF Snap
  <2>2. past' = [past EXCEPT !.spaces = @ \union {s}]
    BY <1>3, <2>1 DEF VectorSearch, Version
  <2>. QED  BY <1>1, <2>1, <2>2 DEF Pasts
<1>9. /\ turn' \in Turns /\ turn'.asked = turn.asked /\ turn'.kbs = turn.kbs /\ turn'.query = turn.query
      /\ turn'.phase \in {"fts", "embed", "fuse"} /\ (turn'.phase # "fuse" => turn'.at <= Len(snaps))
  <2>1. /\ turn' = IF turn.mode \in Hybrid THEN [turn EXCEPT !.phase = "fts"]
                    ELSE IF turn.at < Len(snaps) THEN [turn EXCEPT !.phase = "embed", !.at = @ + 1]
                    ELSE [turn EXCEPT !.phase = "fuse"]
    BY DEF VectorSearch
  <2>. QED  BY <1>1, <2>1, NextPhase
<1>10. RetrievalShape'
  BY <1>2, <1>7, <1>8, <1>9 DEF RetrievalInv, RetrievalShape
<1>11. Rebuilt'
  BY <1>2, <1>3, <1>8 DEF RetrievalInv, Rebuilt, Together
<1>12. Progress'
  <2>1. snaps # <<>>
    BY <1>1
  <2>2. past'.spaces # {}
    BY <1>8
  <2>. QED  BY <1>1, <1>2, <1>8, <1>9, <2>1, <2>2 DEF RetrievalInv, Progress, Late, Found1, Searching, Before
<1>13. Bought'
  BY <1>1, <1>2, <1>3, <1>4, <1>5, <1>6, <1>7, <1>8, <1>9 DEF RetrievalInv, RankingIsSound, Bought, ModelsAsked
<1>14. Withdrawals'
  <2>1. \A g \in 1 .. Len(groups') : Untouched(groups'[g])
    BY <1>6, <1>7 DEF RetrievalInv, Withdrawals
  <2>. QED  BY <1>2, <1>8, <2>1 DEF RetrievalInv, Withdrawals, Untouched
<1>15. Orderly'
  <2>1. \A g \in 1 .. Len(groups') : Len(groups'[g]) <= PerKb /\ Distinct(groups'[g])
    BY <1>6, <1>7 DEF RetrievalInv, Orderly
  <2>. QED  BY <1>2, <1>8, <2>1 DEF RetrievalInv, Orderly
<1>16. EnhancementsMayFail'
  BY <1>9 DEF EnhancementsMayFail
<1>17. FailuresAreTold'
  BY <1>1, <1>2, <1>3, <1>4, <1>5, <1>6, <1>7, <1>8, <1>9 DEF RetrievalInv, RankingIsSound, FailuresAreTold
<1>18. OneRecord'
  BY <1>1, <1>2, <1>3, <1>4, <1>5, <1>6, <1>7, <1>8, <1>9 DEF RetrievalInv, OneRecord, Progress, Late, Searching
<1>19. RanksDecide'
  BY <1>9 DEF RanksDecide
<1>20. GatesKeepTheBest'
  <2>1. base[snap.kb] \in Base
    BY <1>1, <1>6
  <2>2. base[snap.kb].gone \in SUBSET (1 .. PerKb)
    BY <2>1 DEF Base
  <2>3. new = <<>> => base[snap.kb].gone = 1 .. PerKb
    <3>. SUFFICES ASSUME new = <<>> PROVE base[snap.kb].gone = 1 .. PerKb
      OBVIOUS
    <3>1. Cardinality(Active(snap.kb)) = 0
      BY <1>6
    <3>. QED  BY <1>6, <2>2, <3>1, AllAreActive
  <2>4. new # <<>> /\ new[1].score < 0 /\ past.changes = 0 => Len(new) = PerKb
    <3>. SUFFICES ASSUME new # <<>>, new[1].score < 0, past.changes = 0 PROVE Len(new) = PerKb
      OBVIOUS
    <3>1. base[snap.kb].gone = {}
      BY <1>6 DEF RetrievalInv, Orderly
    <3>2. Cardinality(Active(snap.kb)) = PerKb
      BY <1>6, <2>2, <3>1, AllAreActive
    <3>3. new[1] \in Hits
      BY <1>6
    <3>4. new[1].score \in Int /\ new[1].score <= 0
      BY <3>3 DEF Hits
    <3>. QED  BY <1>6, <3>2, <3>4
  <2>5. Len(new) > 0 <=> new # <<>>
    BY <1>6
  <2>. SUFFICES ASSUME NEW g \in 1 .. Len(groups')
                PROVE  /\ Len(groups'[g]) > 0 \/ \E k \in Kbs : base[k].gone = 1 .. PerKb
                       /\ Len(groups'[g]) > 0 /\ groups'[g][1].score < 0 /\ past.changes = 0
                            => Len(groups'[g]) = PerKb
    BY <1>2, <1>8 DEF GatesKeepTheBest
  <2>6. CASE groups'[g] = new
    BY <1>6, <2>3, <2>4, <2>5, <2>6
  <2>7. CASE g \in 1 .. Len(groups) /\ groups'[g] = groups[g]
    BY <2>7 DEF RetrievalInv, RankingIsSound, GatesKeepTheBest
  <2>. QED  BY <1>7, <2>6, <2>7
<1>21. ContextFits'
  BY <1>9 DEF ContextFits
<1>22. CitationsStand'
  BY <1>2 DEF RetrievalInv, RankingIsSound, CitationsStand
<1>. QED  BY <1>10, <1>11, <1>12, <1>13, <1>14, <1>15, <1>16, <1>17, <1>18, <1>19, <1>20, <1>21, <1>22 DEF RetrievalInv, RankingIsSound

LEMMA KeywordSearchStep ==
  ASSUME RetrievalInv, KeywordSearch
  PROVE  RetrievalInv'
<1>1. /\ turn \in Turns /\ past \in Pasts /\ turn.phase = "fts" /\ Found1 /\ snaps \in Seq(Snap)
      /\ snaps # <<>> /\ past.spaces # {} /\ turn.at \in 1 .. Len(snaps) /\ base \in [Kbs -> Base]
  <2>1. /\ turn \in Turns /\ past \in Pasts /\ turn.phase = "fts" /\ Found1 /\ snaps \in Seq(Snap)
        /\ snaps # <<>> /\ past.spaces # {} /\ turn.at <= Len(snaps) /\ base \in [Kbs -> Base]
    BY DEF KeywordSearch, RetrievalInv, RetrievalShape, Progress, Late, Before, Searching
  <2>2. turn.at \in Nat \ {0}
    BY <2>1 DEF Turns
  <2>. QED  BY <2>1, <2>2
<1>2. /\ turn' \in Turns /\ turn'.asked = turn.asked /\ turn'.kbs = turn.kbs /\ turn'.query = turn.query
      /\ turn'.phase \in {"fts", "embed", "fuse"} /\ (turn'.phase # "fuse" => turn'.at <= Len(snaps))
  <2>1. turn' = IF turn.at < Len(snaps) THEN [turn EXCEPT !.phase = "embed", !.at = @ + 1]
                ELSE [turn EXCEPT !.phase = "fuse"]
    BY DEF KeywordSearch, NextKb
  <2>. QED  BY <1>1, <2>1, NextPhase
<1>3. UNCHANGED <<base, snaps, cache, ranked, degraded, cites, past>>
  BY DEF KeywordSearch
<1>4. /\ groups' \in Seq(Seq(Hits))
      /\ \A g \in 1 .. Len(groups') :
           \/ g \in 1 .. Len(groups) /\ groups'[g] = groups[g]
           \/ /\ Len(groups'[g]) <= PerKb /\ Distinct(groups'[g]) /\ Untouched(groups'[g])
              /\ Len(groups'[g]) > 0 /\ ~ (groups'[g][1].score < 0)
  <2>1. CASE UNCHANGED groups
    BY <2>1 DEF RetrievalInv, RetrievalShape
  <2>2. CASE ~ (UNCHANGED groups)
    <3>1. PICK k \in Kbs : k = snaps[turn.at].kb
      <4>1. snaps[turn.at] \in Snap
        BY <1>1
      <4>. QED  BY <4>1 DEF Snap
    <3>2. PICK some \in SUBSET Active(k) : \E hits \in HitsOn(some, KeywordScores) :
            groups' = IF hits = <<>> THEN groups ELSE Append(groups, Close(hits))
      BY <2>2, <3>1 DEF KeywordSearch
    <3>3. PICK hits \in HitsOn(some, KeywordScores) : hits # <<>> /\ groups' = Append(groups, Close(hits))
      BY <2>2, <3>2
    <3>4. PICK new : new = Close(hits)
      OBVIOUS
    <3>5. /\ new \in Seq(Hits) /\ Len(new) <= PerKb /\ Distinct(new) /\ Untouched(new)
          /\ new # <<>> /\ new[1].score \in KeywordScores
      BY <3>3, <3>4, ScoresAreNumbers, NewRoute
    <3>6. new[1].score \in Nat
      BY <3>5, RetrievalAssumption DEF RetrievalAssumption
    <3>7. ~ (new[1].score < 0) /\ Len(new) > 0
      BY <3>5, <3>6
    <3>8. /\ groups' \in Seq(Seq(Hits))
          /\ \A g \in 1 .. Len(groups') : \/ g \in 1 .. Len(groups) /\ groups'[g] = groups[g]
                                          \/ groups'[g] = new
      BY <3>3, <3>4, <3>5, RouteAppended
    <3>. QED  BY <3>5, <3>7, <3>8
  <2>. QED  BY <2>1, <2>2
<1>5. RetrievalShape'
  BY <1>1, <1>2, <1>3, <1>4 DEF RetrievalInv, RankingIsSound, RetrievalShape
<1>6. Rebuilt'
  BY <1>1, <1>2, <1>3, <1>4 DEF RetrievalInv, RankingIsSound, Rebuilt, Together
<1>7. Progress'
  BY <1>1, <1>2, <1>3 DEF RetrievalInv, Progress, Late, Found1, Searching, Before
<1>8. Bought'
  BY <1>1, <1>2, <1>3, <1>4 DEF RetrievalInv, RankingIsSound, Bought, ModelsAsked
<1>9. Withdrawals'
  <2>1. \A g \in 1 .. Len(groups') : Untouched(groups'[g])
    BY <1>4 DEF RetrievalInv, Withdrawals
  <2>. QED  BY <1>3, <2>1 DEF RetrievalInv, Withdrawals, Untouched
<1>10. Orderly'
  <2>1. \A g \in 1 .. Len(groups') : Len(groups'[g]) <= PerKb /\ Distinct(groups'[g])
    BY <1>4 DEF RetrievalInv, Orderly
  <2>. QED  BY <1>3, <2>1 DEF RetrievalInv, Orderly
<1>11. EnhancementsMayFail'
  BY <1>2 DEF EnhancementsMayFail
<1>12. FailuresAreTold'
  BY <1>3 DEF RetrievalInv, FailuresAreTold
<1>13. OneRecord'
  BY <1>1, <1>2, <1>3, <1>4 DEF RetrievalInv, OneRecord, Progress, Late, Searching
<1>14. RanksDecide'
  BY <1>2 DEF RanksDecide
<1>15. GatesKeepTheBest'
  <2>. SUFFICES ASSUME NEW g \in 1 .. Len(groups')
                PROVE  /\ Len(groups'[g]) > 0 \/ \E k \in Kbs : base[k].gone = 1 .. PerKb
                       /\ Len(groups'[g]) > 0 /\ groups'[g][1].score < 0 /\ past.changes = 0
                            => Len(groups'[g]) = PerKb
    BY <1>3 DEF GatesKeepTheBest
  <2>1. CASE Len(groups'[g]) > 0 /\ ~ (groups'[g][1].score < 0)
    BY <2>1
  <2>2. CASE g \in 1 .. Len(groups) /\ groups'[g] = groups[g]
    BY <2>2 DEF RetrievalInv, RankingIsSound, GatesKeepTheBest
  <2>. QED  BY <1>4, <2>1, <2>2
<1>16. ContextFits'
  BY <1>2 DEF ContextFits
<1>17. CitationsStand'
  BY <1>1, <1>2, <1>3, <1>4 DEF RetrievalInv, RankingIsSound, CitationsStand
<1>. QED  BY <1>5, <1>6, <1>7, <1>8, <1>9, <1>10, <1>11, <1>12, <1>13, <1>14, <1>15, <1>16, <1>17 DEF RetrievalInv, RankingIsSound

LEMMA KeywordSearchFailsStep ==
  ASSUME RetrievalInv, KeywordSearchFails
  PROVE  RetrievalInv'
<1>1. /\ turn \in Turns /\ past \in Pasts /\ turn.phase = "fts" /\ Found1 /\ snaps \in Seq(Snap)
      /\ snaps # <<>> /\ past.spaces # {} /\ turn.at \in 1 .. Len(snaps) /\ base \in [Kbs -> Base]
  <2>1. /\ turn \in Turns /\ past \in Pasts /\ turn.phase = "fts" /\ Found1 /\ snaps \in Seq(Snap)
        /\ snaps # <<>> /\ past.spaces # {} /\ turn.at <= Len(snaps) /\ base \in [Kbs -> Base]
    BY DEF KeywordSearchFails, RetrievalInv, RetrievalShape, Progress, Late, Before, Searching
  <2>2. turn.at \in Nat \ {0}
    BY <2>1 DEF Turns
  <2>. QED  BY <2>1, <2>2
<1>2. /\ turn' \in Turns /\ turn'.asked = turn.asked /\ turn'.kbs = turn.kbs /\ turn'.query = turn.query
      /\ turn'.phase \in {"fts", "embed", "fuse"} /\ (turn'.phase # "fuse" => turn'.at <= Len(snaps))
  <2>1. turn' = IF turn.at < Len(snaps) THEN [turn EXCEPT !.phase = "embed", !.at = @ + 1]
                ELSE [turn EXCEPT !.phase = "fuse"]
    BY DEF KeywordSearchFails, NextKb
  <2>. QED  BY <1>1, <2>1, NextPhase
<1>3. UNCHANGED <<base, snaps, cache, groups, ranked, cites>>
  BY DEF KeywordSearchFails
<1>4. /\ past' \in Pasts /\ past'.failed = past.failed \union {"fts"} /\ degraded' = degraded \union {"fts"}
      /\ past'.spaces = past.spaces /\ past'.bought = past.bought /\ past'.found = past.found
      /\ past'.applied = past.applied /\ past'.traces = past.traces /\ past'.told = past.told
      /\ past'.changes = past.changes /\ past'.withdrawn = past.withdrawn
  <2>1. PICK what \in Skips : what = "fts"
    BY DEF Skips
  <2>2. past' = [past EXCEPT !.failed = @ \union {what}]
    BY <2>1 DEF KeywordSearchFails
  <2>. QED  BY <1>1, <2>1, <2>2 DEF Pasts, KeywordSearchFails, Skipped
<1>5. RetrievalShape'
  BY <1>2, <1>3, <1>4 DEF RetrievalInv, RetrievalShape, Skips
<1>6. Rebuilt'
  BY <1>1, <1>2, <1>3, <1>4 DEF RetrievalInv, RankingIsSound, Rebuilt, Together
<1>7. Progress'
  BY <1>1, <1>2, <1>3, <1>4 DEF RetrievalInv, Progress, Late, Found1, Searching, Before
<1>8. Bought'
  BY <1>1, <1>2, <1>3, <1>4 DEF RetrievalInv, RankingIsSound, Bought, ModelsAsked
<1>9. Withdrawals'
  BY <1>1, <1>2, <1>3, <1>4 DEF RetrievalInv, RankingIsSound, Withdrawals, Untouched
<1>10. Orderly'
  BY <1>1, <1>2, <1>3, <1>4 DEF RetrievalInv, RankingIsSound, Orderly
<1>11. EnhancementsMayFail'
  BY <1>2 DEF EnhancementsMayFail
<1>12. FailuresAreTold'
  BY <1>1, <1>4 DEF RetrievalInv, FailuresAreTold, Found1
<1>13. OneRecord'
  BY <1>1, <1>2, <1>3, <1>4 DEF RetrievalInv, OneRecord, Progress, Late, Searching
<1>14. RanksDecide'
  BY <1>2 DEF RanksDecide
<1>15. GatesKeepTheBest'
  BY <1>1, <1>2, <1>3, <1>4 DEF RetrievalInv, RankingIsSound, GatesKeepTheBest
<1>16. ContextFits'
  BY <1>2 DEF ContextFits
<1>17. CitationsStand'
  BY <1>1, <1>2, <1>3, <1>4 DEF RetrievalInv, RankingIsSound, CitationsStand
<1>. QED  BY <1>5, <1>6, <1>7, <1>8, <1>9, <1>10, <1>11, <1>12, <1>13, <1>14, <1>15, <1>16, <1>17 DEF RetrievalInv, RankingIsSound

-----------------------------------------------------------------------------
(***************************************************************************)
(* fuse_candidates, and what is made of the candidates                     *)
(***************************************************************************)
(* A chunk that is ahead wherever another one was found has more votes.    *)
LEMMA AheadEverywhere ==
  ASSUME GroupsFit, \A g \in 1 .. Len(groups) : Distinct(groups[g]),
         NEW c \in Candidates, NEW d \in Candidates,
         \A g \in 1 .. Len(groups) : d \in ChunksIn(groups[g]) =>
           c \in ChunksIn(groups[g]) /\ RankIn(c, groups[g]) < RankIn(d, groups[g])
  PROVE  Ahead(c, d)
<1>. DEFINE N == Len(groups)
            vc(n) == VoteOf(c, groups[n])
            vd(n) == VoteOf(d, groups[n])
<1>1. N \in Nat /\ Longest \in Nat
  BY SizesAreNumbers DEF GroupsFit, Longest
<1>2. ASSUME NEW g \in 1 .. N, NEW x \in ChunksIn(groups[g])
      PROVE  RankIn(x, groups[g]) \in 1 .. Longest /\ VoteOf(x, groups[g]) = Vote(RankIn(x, groups[g]))
  <2>1. groups[g] \in Seq(Hits) /\ Len(groups[g]) <= Longest /\ Len(groups[g]) \in Nat
    BY DEF GroupsFit, Longest
  <2>2. PICK r \in 1 .. Len(groups[g]) : groups[g][r].chunk = x
    BY <1>2 DEF ChunksIn
  <2>3. \A s \in 1 .. Len(groups[g]) : groups[g][s].chunk = x => s = r
    BY <2>2 DEF Distinct
  <2>4. RankIn(x, groups[g]) = r
    BY <2>2, <2>3 DEF RankIn
  <2>5. RanksIn(x, groups[g]) = {r}
    BY <2>2, <2>3 DEF RanksIn
  <2>6. VoteOf(x, groups[g]) = Vote(r)
    BY <2>5 DEF VoteOf
  <2>. QED  BY <1>1, <2>1, <2>4, <2>6
<1>3. ASSUME NEW g \in 1 .. N, d \in ChunksIn(groups[g])
      PROVE  vd(g) < vc(g)
  <2>. DEFINE r == RankIn(c, groups[g])
              s == RankIn(d, groups[g])
  <2>1. c \in ChunksIn(groups[g]) /\ r < s
    BY <1>3
  <2>2. r \in 1 .. Longest /\ s \in 1 .. Longest /\ vc(g) = Vote(r) /\ vd(g) = Vote(s)
    BY <1>2, <1>3, <2>1
  <2>. HIDE DEF r, s
  <2>. QED  BY <2>1, <2>2, BetterRank
<1>4. ASSUME NEW g \in 1 .. N, d \notin ChunksIn(groups[g])
      PROVE  vd(g) = 0
  <2>1. RanksIn(d, groups[g]) = {}
    BY <1>4 DEF RanksIn, ChunksIn
  <2>. QED  BY <2>1 DEF VoteOf
<1>5. \A g \in 1 .. N : vc(g) \in Nat /\ vd(g) \in Nat
  BY VoteIsANumber
<1>6. \A g \in 1 .. N : vd(g) <= vc(g)
  <2>. TAKE g \in 1 .. N
  <2>1. vc(g) \in Nat /\ vd(g) \in Nat
    BY <1>5
  <2>. HIDE DEF vc, vd
  <2>. QED  BY <1>3, <1>4, <2>1
<1>7. PICK top \in 1 .. N : d \in ChunksIn(groups[top])
  BY CandidatesAreChunks
<1>8. PICK hc : Summed(hc, c)
  BY ScoreIsASum
<1>9. PICK hd : Summed(hd, d)
  BY ScoreIsASum
<1>10. /\ hc \in [0 .. N -> Nat] /\ hc[0] = 0 /\ (\A n \in 1 .. N : hc[n] = hc[n - 1] + vc(n)) /\ ScoreOf(c) = hc[N]
       /\ hd \in [0 .. N -> Nat] /\ hd[0] = 0 /\ (\A n \in 1 .. N : hd[n] = hd[n - 1] + vd(n)) /\ ScoreOf(d) = hd[N]
  BY <1>8, <1>9 DEF Summed
<1>. HIDE DEF N
<1>11. vd(top) < vc(top)
  BY <1>3, <1>7
<1>. HIDE DEF vc, vd
<1>. DEFINE Holds == {n \in 0 .. N : hd[n] <= hc[n] /\ (n >= top => hd[n] < hc[n])}
<1>12. 0 \in Holds
  BY <1>1, <1>7, <1>10
<1>13. ASSUME NEW n \in 1 .. N, n - 1 \in Holds
       PROVE  n \in Holds
  <2>1. /\ hc[n - 1] \in Nat /\ hd[n - 1] \in Nat /\ hc[n] = hc[n - 1] + vc(n) /\ hd[n] = hd[n - 1] + vd(n)
        /\ vc(n) \in Nat /\ vd(n) \in Nat /\ vd(n) <= vc(n) /\ hd[n - 1] <= hc[n - 1]
    <3>1. n - 1 \in 0 .. N
      BY <1>1
    <3>. QED  BY <1>5, <1>6, <1>10, <1>13, <3>1
  <2>2. hd[n] <= hc[n]
    BY <2>1
  <2>3. n = top => hd[n] < hc[n]
    BY <1>11, <2>1
  <2>4. n >= top /\ n # top => hd[n] < hc[n]
    <3>1. n >= top /\ n # top => n - 1 >= top
      BY <1>7
    <3>2. n >= top /\ n # top => hd[n - 1] < hc[n - 1]
      BY <1>13, <3>1
    <3>. QED  BY <2>1, <3>2
  <2>. QED  BY <2>2, <2>3, <2>4
<1>. HIDE DEF Holds
<1>14. \A n \in 0 .. N : n \in Holds
  BY <1>1, <1>12, <1>13, HoldsOfAll
<1>15. N \in Holds /\ N >= top
  BY <1>1, <1>7, <1>14
<1>16. hd[N] < hc[N] /\ hd[N] \in Nat /\ hc[N] \in Nat
  <2>1. N \in 0 .. N
    BY <1>1
  <2>. QED  BY <1>10, <1>15, <2>1 DEF Holds
<1>17. ScoreOf(c) > ScoreOf(d)
  BY <1>10, <1>16
<1>. QED  BY <1>17 DEF Ahead

LEMMA FuseStep ==
  ASSUME RetrievalInv, Fuse
  PROVE  RetrievalInv'
<1>1. /\ turn \in Turns /\ past \in Pasts /\ turn.phase = "fuse" /\ Found1 /\ snaps # <<>> /\ past.spaces # {}
      /\ GroupsFit
  BY RoutesFit DEF Fuse, RetrievalInv, RetrievalShape, Progress, Late, Before, Searching
<1>2. UNCHANGED <<base, snaps, cache, groups, degraded, cites>>
  BY DEF Fuse
<1>3. /\ turn' \in Turns /\ turn'.phase = "rerank" /\ turn'.asked = turn.asked /\ turn'.kbs = turn.kbs
      /\ turn'.query = turn.query /\ turn'.mode = turn.mode /\ turn'.at = turn.at
  <2>1. "rerank" \in Phases
    BY DEF Phases, EndOfTurn, Before, Searching
  <2>2. Goto("rerank")
    BY DEF Fuse
  <2>. QED  BY <1>1, <2>1, <2>2, GotoFields
<1>4. PICK m \in Nat : m = Shorter(Params.limit, Cardinality(Candidates))
  <2>1. Shorter(Params.limit, Cardinality(Candidates)) \in Nat
    BY <1>1, SizesAreNumbers, CandidatesAreChunks DEF Shorter
  <2>. QED  BY <2>1
<1>5. /\ m <= Params.limit /\ m <= Cardinality(Candidates) /\ Cardinality(Candidates) \in Nat
      /\ Cardinality(Candidates) > 0 => m > 0
  BY <1>1, <1>4, SizesAreNumbers, CandidatesAreChunks DEF Shorter
<1>6. /\ past' \in Pasts /\ past'.found = Cardinality(Candidates)
      /\ past'.failed = past.failed /\ past'.spaces = past.spaces /\ past'.withdrawn = past.withdrawn
      /\ past'.bought = past.bought /\ past'.applied = past.applied /\ past'.traces = past.traces
      /\ past'.told = past.told /\ past'.changes = past.changes
  BY <1>1, <1>5 DEF Fuse, Pasts
<1>7. /\ ranked' \in Seq(Hits) /\ Len(ranked') = m
      /\ \A i \in 1 .. m : ranked'[i].chunk = Fused(i) /\ Fused(i) \in Candidates /\ i \in 1 .. Cardinality(Candidates)
  <2>1. ranked' = [i \in 1 .. m |-> [chunk |-> Fused(i), score |-> 0]]
    BY <1>4 DEF Fuse
  <2>2. \A i \in 1 .. m : i \in 1 .. Cardinality(Candidates)
    BY <1>5
  <2>3. \A i \in 1 .. m : Fused(i) \in Candidates
    BY <1>1, <2>2, FusedCandidates
  <2>4. \A i \in 1 .. m : Fused(i) \in Chunks
    BY <1>1, <2>3, CandidatesAreChunks
  <2>5. \A i \in 1 .. m : [chunk |-> Fused(i), score |-> 0] \in Hits
    BY <2>4 DEF Hits
  <2>. QED  BY <2>1, <2>2, <2>3, <2>5
<1>8. Distinct(ranked')
  <2>. SUFFICES ASSUME NEW i \in 1 .. m, NEW j \in 1 .. m, i # j
                PROVE  ranked'[i].chunk # ranked'[j].chunk
    BY <1>7 DEF Distinct
  <2>1. i \in 1 .. Cardinality(Candidates) /\ j \in 1 .. Cardinality(Candidates)
    BY <1>7
  <2>2. Fused(i) # Fused(j)
    BY <1>1, <2>1, FusedDiffer
  <2>. QED  BY <1>7, <2>2
<1>9. RetrievalShape'
  BY <1>2, <1>3, <1>6, <1>7 DEF RetrievalInv, RetrievalShape
<1>10. Rebuilt'
  BY <1>2, <1>6 DEF RetrievalInv, Rebuilt, Together
<1>11. Progress'
  <2>1. past'.found > 0 => ranked' # <<>>
    BY <1>4, <1>5, <1>6, <1>7
  <2>2. Len(ranked') <= Params.limit
    BY <1>5, <1>7
  <2>. QED  BY <1>1, <1>2, <1>3, <1>6, <2>1, <2>2 DEF RetrievalInv, Progress, Late, Found1, Searching, Before
<1>12. Bought'
  BY <1>2, <1>6 DEF RetrievalInv, Bought, ModelsAsked
<1>13. Withdrawals'
  <2>1. ASSUME NEW i \in 1 .. Len(ranked')
        PROVE  ranked'[i].chunk \notin past.withdrawn
    <3>1. ranked'[i].chunk \in Candidates
      BY <1>7, <2>1
    <3>2. PICK g \in 1 .. Len(groups) : ranked'[i].chunk \in ChunksIn(groups[g])
      BY <1>1, <3>1, CandidatesAreChunks
    <3>3. PICK r \in 1 .. Len(groups[g]) : groups[g][r].chunk = ranked'[i].chunk
      BY <3>2 DEF ChunksIn
    <3>. QED  BY <3>2, <3>3 DEF RetrievalInv, Withdrawals, Untouched
  <2>. QED  BY <1>2, <1>6, <2>1 DEF RetrievalInv, Withdrawals, Untouched
<1>14. Orderly'
  BY <1>2, <1>6, <1>8 DEF RetrievalInv, Orderly
<1>15. EnhancementsMayFail'
  BY <1>3 DEF EnhancementsMayFail
<1>16. FailuresAreTold'
  BY <1>1, <1>2, <1>6 DEF RetrievalInv, FailuresAreTold, Found1
<1>17. OneRecord'
  BY <1>1, <1>2, <1>3, <1>4, <1>5, <1>6, <1>7, <1>8 DEF RetrievalInv, OneRecord, Progress, Late, Searching
<1>18. RanksDecide'
  <2>1. \A i, j \in 1 .. Len(ranked') : i # j => ranked'[i].chunk # ranked'[j].chunk
    BY <1>8 DEF Distinct
  <2>2. ASSUME NEW c \in Candidates, NEW d \in Candidates,
               \A g \in 1 .. Len(groups) : d \in ChunksIn(groups[g]) =>
                 c \in ChunksIn(groups[g]) /\ RankIn(c, groups[g]) < RankIn(d, groups[g]),
               NEW j \in 1 .. Len(ranked'), ranked'[j].chunk = d
        PROVE  \E i \in 1 .. (j - 1) : ranked'[i].chunk = c
    <3>1. \A g \in 1 .. Len(groups) : Distinct(groups[g])
      BY DEF RetrievalInv, Orderly
    <3>2. Ahead(c, d)
      BY <1>1, <2>2, <3>1, AheadEverywhere
    <3>3. j \in 1 .. Cardinality(Candidates) /\ Fused(j) = d /\ j \in 1 .. m
      BY <1>7, <2>2
    <3>4. PICK i \in 1 .. (j - 1) : Fused(i) = c
      BY <1>1, <3>2, <3>3, AheadComesFirst
    <3>5. i \in 1 .. m
      BY <1>4, <3>3
    <3>. QED  BY <1>7, <3>4, <3>5
  <2>3. Candidates' = Candidates
    BY <1>2 DEF Candidates
  <2>. QED  BY <1>2, <2>1, <2>2, <2>3 DEF RanksDecide
<1>19. GatesKeepTheBest'
  BY <1>2, <1>6 DEF RetrievalInv, RankingIsSound, GatesKeepTheBest
<1>20. ContextFits'
  BY <1>3 DEF ContextFits
<1>21. CitationsStand'
  BY <1>2 DEF RetrievalInv, RankingIsSound, CitationsStand
<1>. QED  BY <1>9, <1>10, <1>11, <1>12, <1>13, <1>14, <1>15, <1>16, <1>17, <1>18, <1>19, <1>20, <1>21 DEF RetrievalInv, RankingIsSound

LEMMA NotRerankedStep ==
  ASSUME RetrievalInv, NotReranked
  PROVE  RetrievalInv'
<1>1. /\ turn \in Turns /\ past \in Pasts /\ turn.phase = "rerank" /\ snaps # <<>> /\ past.spaces # {}
      /\ ranked \in Seq(Hits) /\ Distinct(ranked) /\ Len(ranked) \in 0 .. Params.limit /\ past.traces = 0
      /\ past.found > 0 /\ ~past.applied => ranked # <<>>
  <2>1. /\ turn \in Turns /\ past \in Pasts /\ turn.phase = "rerank" /\ snaps # <<>> /\ past.spaces # {}
        /\ ranked \in Seq(Hits) /\ Distinct(ranked) /\ Len(ranked) <= Params.limit /\ past.traces = 0
        /\ past.found > 0 /\ ~past.applied => ranked # <<>>
    BY DEF NotReranked, RetrievalInv, RetrievalShape, Progress, Late, Orderly
  <2>2. Len(ranked) \in Nat
    BY <2>1
  <2>. QED  BY <2>1, <2>2, SizesAreNumbers
<1>2. /\ turn' \in Turns /\ turn'.phase = "select" /\ turn'.asked = turn.asked /\ turn'.kbs = turn.kbs
      /\ turn'.query = turn.query /\ turn'.mode = turn.mode /\ turn'.at = turn.at
  <2>1. "select" \in Phases
    BY DEF Phases, EndOfTurn, Before, Searching
  <2>2. Goto("select")
    BY DEF NotReranked
  <2>. QED  BY <1>1, <2>1, <2>2, GotoFields
<1>3. groups' = <<>> /\ UNCHANGED <<base, snaps, cache, ranked, degraded, cites, past>>
  BY DEF NotReranked
<1>4. RetrievalShape'
  BY <1>1, <1>2, <1>3 DEF RetrievalInv, RankingIsSound, RetrievalShape
<1>5. Rebuilt'
  BY <1>1, <1>2, <1>3 DEF RetrievalInv, RankingIsSound, Rebuilt, Together
<1>6. Progress'
  BY <1>1, <1>2, <1>3 DEF RetrievalInv, RankingIsSound, Progress, Late, Found1, Searching, Before
<1>7. Bought'
  BY <1>1, <1>2, <1>3 DEF RetrievalInv, RankingIsSound, Bought, ModelsAsked
<1>8. Withdrawals'
  BY <1>1, <1>2, <1>3 DEF RetrievalInv, RankingIsSound, Withdrawals, Untouched
<1>9. Orderly'
  BY <1>1, <1>2, <1>3 DEF RetrievalInv, RankingIsSound, Orderly
<1>10. EnhancementsMayFail'
  BY <1>2 DEF EnhancementsMayFail
<1>11. FailuresAreTold'
  BY <1>1, <1>2, <1>3 DEF RetrievalInv, RankingIsSound, FailuresAreTold
<1>12. OneRecord'
  BY <1>1, <1>2, <1>3 DEF RetrievalInv, OneRecord, Progress, Late, Searching
<1>13. RanksDecide'
  BY <1>2 DEF RanksDecide
<1>14. GatesKeepTheBest'
  BY <1>3 DEF GatesKeepTheBest
<1>15. ContextFits'
  BY <1>2 DEF ContextFits
<1>16. CitationsStand'
  BY <1>1, <1>2, <1>3 DEF RetrievalInv, RankingIsSound, CitationsStand
<1>. QED  BY <1>4, <1>5, <1>6, <1>7, <1>8, <1>9, <1>10, <1>11, <1>12, <1>13, <1>14, <1>15, <1>16 DEF RetrievalInv, RankingIsSound

(* A reranking that failed, or whose answer was refused.                   *)
LEMMA RerankSkipped ==
  ASSUME RetrievalInv, turn.phase = "rerank", Goto("select"), groups' = <<>>, ranked' = ranked,
         degraded' = Skipped("rerank"), past' = [past EXCEPT !.failed = @ \union {"rerank"}],
         UNCHANGED <<base, snaps, cache, cites>>
  PROVE  RetrievalInv'
<1>1. /\ turn \in Turns /\ past \in Pasts /\ turn.phase = "rerank" /\ snaps # <<>> /\ past.spaces # {}
      /\ ranked \in Seq(Hits) /\ Distinct(ranked) /\ Len(ranked) \in 0 .. Params.limit /\ past.traces = 0
      /\ past.found > 0 /\ ~past.applied => ranked # <<>>
  <2>1. /\ turn \in Turns /\ past \in Pasts /\ turn.phase = "rerank" /\ snaps # <<>> /\ past.spaces # {}
        /\ ranked \in Seq(Hits) /\ Distinct(ranked) /\ Len(ranked) <= Params.limit /\ past.traces = 0
        /\ past.found > 0 /\ ~past.applied => ranked # <<>>
    BY DEF RetrievalInv, RetrievalInv, RetrievalShape, Progress, Late, Orderly
  <2>2. Len(ranked) \in Nat
    BY <2>1
  <2>. QED  BY <2>1, <2>2, SizesAreNumbers
<1>2. /\ turn' \in Turns /\ turn'.phase = "select" /\ turn'.asked = turn.asked /\ turn'.kbs = turn.kbs
      /\ turn'.query = turn.query /\ turn'.mode = turn.mode /\ turn'.at = turn.at
  <2>1. "select" \in Phases
    BY DEF Phases
  <2>. QED  BY <1>1, <2>1, GotoFields
<1>3. /\ past' \in Pasts /\ past'.failed = past.failed \union {"rerank"} /\ degraded' = degraded \union {"rerank"}
      /\ past'.spaces = past.spaces /\ past'.withdrawn = past.withdrawn /\ past'.bought = past.bought
      /\ past'.found = past.found /\ past'.applied = past.applied /\ past'.traces = past.traces
      /\ past'.told = past.told /\ past'.changes = past.changes
  <2>1. PICK what \in Skips : what = "rerank"
    BY DEF Skips
  <2>2. past' = [past EXCEPT !.failed = @ \union {what}]
    BY <2>1
  <2>. QED  BY <1>1, <2>1, <2>2 DEF Pasts, Skipped
<1>4. RetrievalShape'
  BY <1>2, <1>3 DEF RetrievalInv, RetrievalShape, Skips
<1>5. Rebuilt'
  BY <1>1, <1>2, <1>3 DEF RetrievalInv, RankingIsSound, Rebuilt, Together
<1>6. Progress'
  BY <1>1, <1>2, <1>3 DEF RetrievalInv, RankingIsSound, Progress, Late, Found1, Searching, Before
<1>7. Bought'
  BY <1>1, <1>2, <1>3 DEF RetrievalInv, RankingIsSound, Bought, ModelsAsked
<1>8. Withdrawals'
  BY <1>1, <1>2, <1>3 DEF RetrievalInv, RankingIsSound, Withdrawals, Untouched
<1>9. Orderly'
  BY <1>1, <1>2, <1>3 DEF RetrievalInv, RankingIsSound, Orderly
<1>10. EnhancementsMayFail'
  BY <1>2 DEF EnhancementsMayFail
<1>11. FailuresAreTold'
  BY <1>1, <1>2, <1>3 DEF RetrievalInv, RankingIsSound, FailuresAreTold
<1>12. OneRecord'
  BY <1>1, <1>2, <1>3 DEF RetrievalInv, OneRecord, Progress, Late, Searching
<1>13. RanksDecide'
  BY <1>2 DEF RanksDecide
<1>14. GatesKeepTheBest'
  BY DEF GatesKeepTheBest
<1>15. ContextFits'
  BY <1>2 DEF ContextFits
<1>16. CitationsStand'
  BY <1>1, <1>2, <1>3 DEF RetrievalInv, RankingIsSound, CitationsStand
<1>. QED  BY <1>4, <1>5, <1>6, <1>7, <1>8, <1>9, <1>10, <1>11, <1>12, <1>13, <1>14, <1>15, <1>16 DEF RetrievalInv, RankingIsSound

LEMMA RerankFailsStep ==
  ASSUME RetrievalInv, RerankFails
  PROVE  RetrievalInv'
BY RerankSkipped DEF RerankFails, OnFailure

LEMMA RerankApplied ==
  ASSUME RetrievalInv, turn.phase = "rerank", Goto("select"), groups' = <<>>,
         NEW rows \in Rankings[Len(ranked)], Valid(rows),
         ranked' = Reranked(rows), past' = [past EXCEPT !.applied = TRUE], UNCHANGED <<base, snaps, cache, degraded, cites>>
  PROVE  RetrievalInv'
<1>1. /\ turn \in Turns /\ past \in Pasts /\ turn.phase = "rerank" /\ snaps # <<>> /\ past.spaces # {}
      /\ ranked \in Seq(Hits) /\ Distinct(ranked) /\ Len(ranked) \in 0 .. Params.limit /\ past.traces = 0
      /\ past.found > 0 /\ ~past.applied => ranked # <<>>
  <2>1. /\ turn \in Turns /\ past \in Pasts /\ turn.phase = "rerank" /\ snaps # <<>> /\ past.spaces # {}
        /\ ranked \in Seq(Hits) /\ Distinct(ranked) /\ Len(ranked) <= Params.limit /\ past.traces = 0
        /\ past.found > 0 /\ ~past.applied => ranked # <<>>
    BY DEF RetrievalInv, RetrievalInv, RetrievalShape, Progress, Late, Orderly
  <2>2. Len(ranked) \in Nat
    BY <2>1
  <2>. QED  BY <2>1, <2>2, SizesAreNumbers
<1>2. /\ turn' \in Turns /\ turn'.phase = "select" /\ turn'.asked = turn.asked /\ turn'.kbs = turn.kbs
      /\ turn'.query = turn.query /\ turn'.mode = turn.mode /\ turn'.at = turn.at
  <2>1. "select" \in Phases
    BY DEF Phases
  <2>. QED  BY <1>1, <2>1, GotoFields
<1>3. /\ past' \in Pasts /\ past'.applied
      /\ past'.failed = past.failed /\ past'.spaces = past.spaces /\ past'.withdrawn = past.withdrawn
      /\ past'.bought = past.bought /\ past'.found = past.found /\ past'.traces = past.traces
      /\ past'.told = past.told /\ past'.changes = past.changes
  <2>1. PICK b \in BOOLEAN : b
    OBVIOUS
  <2>2. past' = [past EXCEPT !.applied = b]
    BY <2>1
  <2>. QED  BY <1>1, <2>1, <2>2 DEF Pasts
<1>4. /\ ranked' \in Seq(Hits) /\ Distinct(ranked')
      /\ \A i \in 1 .. Len(ranked') : \E j \in 1 .. Len(ranked) : ranked'[i].chunk = ranked[j].chunk
  <2>1. rows \in Seq(Rows)
    BY <1>1, RowsAreTyped
  <2>2. PICK new : new = ranked'
    OBVIOUS
  <2>3. new = Reranked(rows)
    BY <2>2
  <2>4. /\ new \in Seq(Hits) /\ Distinct(new)
        /\ \A i \in 1 .. Len(new) : \E j \in 1 .. Len(ranked) : new[i].chunk = ranked[j].chunk
    <3>1. ranked \in Seq(Hits) /\ Distinct(ranked) /\ Valid(rows)
      BY <1>1
    <3>. QED  BY <2>1, <2>3, <3>1, RerankedHits
  <2>. QED  BY <2>2, <2>4
<1>5. \A i \in 1 .. Len(ranked') : ranked'[i].chunk \notin past'.withdrawn
  BY <1>3, <1>4 DEF RetrievalInv, Withdrawals, Untouched
<1>6. RetrievalShape'
  BY <1>1, <1>2, <1>3, <1>4, <1>5 DEF RetrievalInv, RankingIsSound, RetrievalShape
<1>7. Rebuilt'
  BY <1>1, <1>2, <1>3, <1>4, <1>5 DEF RetrievalInv, RankingIsSound, Rebuilt, Together
<1>8. Progress'
  BY <1>1, <1>2, <1>3, <1>4, <1>5 DEF RetrievalInv, RankingIsSound, Progress, Late, Found1, Searching, Before
<1>9. Bought'
  BY <1>1, <1>2, <1>3, <1>4, <1>5 DEF RetrievalInv, RankingIsSound, Bought, ModelsAsked
<1>10. Withdrawals'
  BY <1>1, <1>2, <1>3, <1>4, <1>5 DEF RetrievalInv, RankingIsSound, Withdrawals, Untouched
<1>11. Orderly'
  BY <1>1, <1>2, <1>3, <1>4, <1>5 DEF RetrievalInv, RankingIsSound, Orderly
<1>12. EnhancementsMayFail'
  BY <1>2 DEF EnhancementsMayFail
<1>13. FailuresAreTold'
  BY <1>1, <1>2, <1>3, <1>4, <1>5 DEF RetrievalInv, RankingIsSound, FailuresAreTold
<1>14. OneRecord'
  BY <1>1, <1>2, <1>3, <1>4, <1>5 DEF RetrievalInv, OneRecord, Progress, Late, Searching
<1>15. RanksDecide'
  BY <1>2 DEF RanksDecide
<1>16. GatesKeepTheBest'
  BY <1>1, <1>2, <1>3, <1>4, <1>5 DEF RetrievalInv, RankingIsSound, GatesKeepTheBest
<1>17. ContextFits'
  BY <1>2 DEF ContextFits
<1>18. CitationsStand'
  BY <1>1, <1>2, <1>3, <1>4, <1>5 DEF RetrievalInv, RankingIsSound, CitationsStand
<1>. QED  BY <1>6, <1>7, <1>8, <1>9, <1>10, <1>11, <1>12, <1>13, <1>14, <1>15, <1>16, <1>17, <1>18 DEF RetrievalInv, RankingIsSound

LEMMA RerankStep ==
  ASSUME RetrievalInv, Rerank
  PROVE  RetrievalInv'
<1>1. PICK rows \in Rankings[Len(ranked)] :
        \/ /\ Valid(rows)
           /\ ranked' = Reranked(rows)
           /\ past' = [past EXCEPT !.applied = TRUE] /\ UNCHANGED degraded
        \/ /\ ranked' = ranked /\ degraded' = Skipped("rerank")
           /\ past' = [past EXCEPT !.failed = @ \union {"rerank"}]
  BY DEF Rerank, OnFailure, Reranked
<1>2. /\ turn.phase = "rerank" /\ Goto("select") /\ groups' = <<>>
      /\ UNCHANGED <<base, snaps, cache, cites>>
  BY DEF Rerank
<1>. QED  BY <1>1, <1>2, RerankApplied, RerankSkipped

LEMMA SelectForChat ==
  ASSUME RetrievalInv, turn.phase = "select", turn.asked = "chat", ranked' = Selected, Goto("answer"),
         UNCHANGED <<base, snaps, cache, groups, degraded, cites, past>>
  PROVE  RetrievalInv'
<1>1. /\ turn \in Turns /\ past \in Pasts /\ snaps # <<>> /\ past.spaces # {} /\ past.traces = 0
      /\ ranked \in Seq(Hits) /\ Distinct(ranked) /\ (past.found > 0 /\ ~past.applied => ranked # <<>>)
  BY DEF RetrievalInv, RetrievalShape, Progress, Late, Orderly
<1>2. /\ turn' \in Turns /\ turn'.phase = "answer" /\ turn'.asked = turn.asked /\ turn'.kbs = turn.kbs
      /\ turn'.query = turn.query /\ turn'.mode = turn.mode /\ turn'.at = turn.at
  <2>1. "answer" \in Phases
    BY DEF Phases
  <2>. QED  BY <1>1, <2>1, GotoFields
<1>3. /\ ranked' \in Seq(Hits) /\ Distinct(ranked')
      /\ Len(ranked') <= 1 \/ CostOf(ranked') <= Params.budget
      /\ ranked # <<>> => ranked' # <<>>
      /\ \A i \in 1 .. Len(ranked') : \E j \in 1 .. Len(ranked) : ranked'[i].chunk = ranked[j].chunk
  BY <1>1, SelectedHits
<1>4. \A i \in 1 .. Len(ranked') : ranked'[i].chunk \notin past.withdrawn
  BY <1>3 DEF RetrievalInv, Withdrawals, Untouched
<1>5. RetrievalShape'
  BY <1>1, <1>2, <1>3, <1>4 DEF RetrievalInv, RankingIsSound, RetrievalShape
<1>6. Rebuilt'
  BY <1>1, <1>2, <1>3, <1>4 DEF RetrievalInv, RankingIsSound, Rebuilt, Together
<1>7. Progress'
  BY <1>1, <1>2, <1>3, <1>4 DEF RetrievalInv, RankingIsSound, Progress, Late, Found1, Searching, Before
<1>8. Bought'
  BY <1>1, <1>2, <1>3, <1>4 DEF RetrievalInv, RankingIsSound, Bought, ModelsAsked
<1>9. Withdrawals'
  BY <1>1, <1>2, <1>3, <1>4 DEF RetrievalInv, RankingIsSound, Withdrawals, Untouched
<1>10. Orderly'
  BY <1>1, <1>2, <1>3, <1>4 DEF RetrievalInv, RankingIsSound, Orderly
<1>11. EnhancementsMayFail'
  BY <1>1, <1>2, <1>3, <1>4 DEF RetrievalInv, RankingIsSound, EnhancementsMayFail
<1>12. FailuresAreTold'
  BY <1>1, <1>2, <1>3, <1>4 DEF RetrievalInv, RankingIsSound, FailuresAreTold
<1>13. OneRecord'
  BY <1>1, <1>2, <1>3, <1>4 DEF RetrievalInv, RankingIsSound, OneRecord, Progress, Late, Searching
<1>14. RanksDecide'
  BY <1>2 DEF RanksDecide
<1>15. GatesKeepTheBest'
  BY <1>1, <1>2, <1>3, <1>4 DEF RetrievalInv, RankingIsSound, GatesKeepTheBest
<1>16. ContextFits'
  <2>1. CostOf(ranked)' = CostOf(ranked')
    BY DEF CostOf
  <2>. QED  BY <1>3, <2>1 DEF ContextFits, Distinct
<1>17. CitationsStand'
  BY <1>1, <1>2, <1>3, <1>4 DEF RetrievalInv, RankingIsSound, CitationsStand
<1>. QED  BY <1>5, <1>6, <1>7, <1>8, <1>9, <1>10, <1>11, <1>12, <1>13, <1>14, <1>15, <1>16, <1>17 DEF RetrievalInv, RankingIsSound

(* The record of a retrieval, one more each time.                          *)
LEMMA RecordOnce ==
  ASSUME past \in Pasts, degraded \subseteq Skips, past.traces \in {0, 1}, past' = Traced
  PROVE  /\ past' \in Pasts /\ past'.traces = past.traces + 1 /\ past'.told = degraded
         /\ past'.failed = past.failed /\ past'.spaces = past.spaces /\ past'.withdrawn = past.withdrawn
         /\ past'.bought = past.bought /\ past'.found = past.found /\ past'.applied = past.applied
         /\ past'.unsaved = past.unsaved /\ past'.changes = past.changes
<1>1. PICK n \in 0 .. 2, t \in SUBSET Skips : n = past.traces + 1 /\ t = degraded
  <2>1. past.traces + 1 \in 0 .. 2
    OBVIOUS
  <2>. QED  BY <2>1
<1>2. past' = [past EXCEPT !.traces = n, !.told = t]
  BY <1>1 DEF Traced
<1>3. past' \in Pasts /\ past'.traces = n /\ past'.told = t
  BY <1>2 DEF Pasts
<1>4. \A f \in {"failed", "spaces", "withdrawn", "bought", "found", "applied", "unsaved", "changes"} : past'[f] = past[f]
  BY <1>2 DEF Pasts
<1>. QED  BY <1>1, <1>3, <1>4

LEMMA SelectForQuery ==
  ASSUME RetrievalInv, turn.phase = "select", turn.asked = "query", Goto("done"), past' = Traced,
         UNCHANGED <<base, snaps, cache, groups, ranked, degraded, cites>>
  PROVE  RetrievalInv'
<1>1. /\ turn \in Turns /\ past \in Pasts /\ snaps # <<>> /\ past.spaces # {} /\ past.traces = 0
      /\ degraded \subseteq Skips /\ (past.found > 0 /\ ~past.applied => ranked # <<>>)
  BY DEF RetrievalInv, RetrievalShape, Progress, Late
<1>2. /\ turn' \in Turns /\ turn'.phase = "done" /\ turn'.asked = turn.asked /\ turn'.kbs = turn.kbs
      /\ turn'.query = turn.query /\ turn'.mode = turn.mode /\ turn'.at = turn.at
  <2>1. "done" \in Phases
    BY DEF Phases, EndOfTurn
  <2>. QED  BY <1>1, <2>1, GotoFields
<1>3. /\ past' \in Pasts /\ past'.traces = 1 /\ past'.told = degraded
      /\ past'.failed = past.failed /\ past'.spaces = past.spaces /\ past'.withdrawn = past.withdrawn
      /\ past'.bought = past.bought /\ past'.found = past.found /\ past'.applied = past.applied
      /\ past'.changes = past.changes
  BY <1>1, RecordOnce
<1>4. RetrievalShape'
  BY <1>1, <1>2, <1>3 DEF RetrievalInv, RankingIsSound, RetrievalShape
<1>5. Rebuilt'
  BY <1>1, <1>2, <1>3 DEF RetrievalInv, RankingIsSound, Rebuilt, Together
<1>6. Progress'
  BY <1>1, <1>2, <1>3 DEF RetrievalInv, RankingIsSound, Progress, Late, Found1, Searching, Before
<1>7. Bought'
  BY <1>1, <1>2, <1>3 DEF RetrievalInv, RankingIsSound, Bought, ModelsAsked
<1>8. Withdrawals'
  BY <1>1, <1>2, <1>3 DEF RetrievalInv, RankingIsSound, Withdrawals, Untouched
<1>9. Orderly'
  BY <1>1, <1>2, <1>3 DEF RetrievalInv, RankingIsSound, Orderly
<1>10. EnhancementsMayFail'
  BY <1>1, <1>2, <1>3 DEF RetrievalInv, RankingIsSound, EnhancementsMayFail
<1>11. FailuresAreTold'
  BY <1>1, <1>2, <1>3 DEF RetrievalInv, RankingIsSound, FailuresAreTold
<1>12. OneRecord'
  BY <1>1, <1>2, <1>3 DEF RetrievalInv, RankingIsSound, OneRecord, Progress, Late, Searching
<1>13. RanksDecide'
  BY <1>2 DEF RanksDecide
<1>14. GatesKeepTheBest'
  BY <1>1, <1>2, <1>3 DEF RetrievalInv, RankingIsSound, GatesKeepTheBest
<1>15. ContextFits'
  BY <1>2 DEF ContextFits
<1>16. CitationsStand'
  BY <1>1, <1>2, <1>3 DEF RetrievalInv, RankingIsSound, CitationsStand
<1>. QED  BY <1>4, <1>5, <1>6, <1>7, <1>8, <1>9, <1>10, <1>11, <1>12, <1>13, <1>14, <1>15, <1>16 DEF RetrievalInv, RankingIsSound

LEMMA SelectStep ==
  ASSUME RetrievalInv, Select
  PROVE  RetrievalInv'
<1>1. turn.phase = "select" /\ UNCHANGED <<base, snaps, cache, groups, degraded, cites>>
  BY DEF Select
<1>2. CASE turn.asked = "chat" /\ ranked' = Selected /\ Goto("answer") /\ UNCHANGED past
  BY <1>1, <1>2, SelectForChat
<1>3. CASE turn.asked = "query" /\ Goto("done") /\ past' = Traced /\ UNCHANGED ranked
  BY <1>1, <1>3, SelectForQuery
<1>. QED  BY <1>2, <1>3 DEF Select

(* Nth(n, places) leaves none of them out.                                 *)
LEMMA NthReaches ==
  ASSUME NEW places \in SUBSET Int, IsFiniteSet(places), NEW i \in places
  PROVE  \E n \in 1 .. Cardinality(places) : Nth(n, places) = i
<1>. DEFINE A(x) == {j \in places : j <= x}
            n == Cardinality(A(i))
            b == Nth(n, places)
<1>0. \A x \in places : x \in Int
  OBVIOUS
<1>1. \A x \in places : IsFiniteSet(A(x)) /\ x \in A(x) /\ A(x) \subseteq places
  BY <1>0, FS_Subset
<1>2. \A x \in places : Cardinality(A(x)) \in 1 .. Cardinality(places)
  <2>. TAKE x \in places
  <2>1. Cardinality(A(x)) <= Cardinality(places)
    BY <1>1, FS_Subset
  <2>2. Cardinality(A(x)) \in Nat /\ Cardinality(places) \in Nat
    BY <1>1, FS_CardinalityType
  <2>3. Cardinality(A(x)) # 0
    BY <1>1, FS_EmptySet
  <2>. HIDE DEF A
  <2>. QED  BY <2>1, <2>2, <2>3
<1>3. ASSUME NEW x \in places, NEW y \in places, x < y
      PROVE  Cardinality(A(x)) < Cardinality(A(y))
  <2>0. \A j \in places : j <= x => j <= y /\ j # y
    BY <1>0, <1>3
  <2>1. A(x) \subseteq A(y) \ {y}
    BY <2>0
  <2>2. IsFiniteSet(A(y) \ {y}) /\ Cardinality(A(y) \ {y}) = Cardinality(A(y)) - 1
    BY <1>1, FS_RemoveElement
  <2>3. Cardinality(A(x)) <= Cardinality(A(y) \ {y})
    BY <2>1, <2>2, FS_Subset
  <2>4. Cardinality(A(x)) \in Nat /\ Cardinality(A(y)) \in Nat
    BY <1>2
  <2>. HIDE DEF A
  <2>. QED  BY <2>2, <2>3, <2>4
<1>4. n \in 1 .. Cardinality(places)
  BY <1>2
<1>5. b \in places /\ Cardinality(A(b)) = n
  BY <1>4, NthIsAPlace
<1>. HIDE DEF A
<1>6. n \in Int
  BY <1>4
<1>. HIDE DEF b, n
<1>7. ~ (b < i) /\ ~ (i < b)
  BY <1>3, <1>5, <1>6 DEF n
<1>8. b = i
  BY <1>0, <1>5, <1>7
<1>. QED  BY <1>4, <1>8 DEF b

(* assemble_citations                                                      *)
LEMMA CitationsAreHonest ==
  ASSUME NEW n \in Nat, NEW X, NEW answer \in [1 .. n -> X],
         cites' = [stand |-> Citations(answer), answer |-> answer,
                   dropped |-> SetOf(answer) \ (1 .. Len(ranked))]
  PROVE  CitationsStand'
<1>. DEFINE places == {i \in 1 .. Len(answer) : Stands(answer, i)}
            stand == Citations(answer)
            m == Cardinality(places)
<1>1. answer \in Seq(X) /\ Len(answer) = n /\ places \in SUBSET (1 .. Len(answer))
  OBVIOUS
<1>2. stand = Picked(answer, places)
  BY DEF Citations
<1>3. /\ IsFiniteSet(places) /\ m \in 0 .. Len(answer) /\ Len(stand) = m
      /\ \A i \in 1 .. m : Nth(i, places) \in places /\ stand[i] = answer[Nth(i, places)]
  <2>. HIDE DEF stand, places
  <2>. QED  BY <1>1, <1>2, PickedElements
<1>4. places \in SUBSET Int
  BY <1>1
<1>5. \A i \in places : i \in 1 .. n /\ answer[i] \in 1 .. Len(ranked) /\ i \in Firsts(answer)
  BY <1>1 DEF Stands
<1>6. ASSUME NEW i \in 1 .. n, answer[i] \in 1 .. Len(ranked)
      PROVE  \E j \in 1 .. m : stand[j] = answer[i]
  <2>. DEFINE S == {j \in 1 .. n : answer[j] = answer[i]}
  <2>1. S \in SUBSET Nat /\ S # {}
    OBVIOUS
  <2>2. PICK f \in S : \A j \in S : f <= j
    BY <2>1, LeastOf
  <2>3. f \in 1 .. n /\ answer[f] = answer[i]
    BY <2>2
  <2>4. \A j \in 1 .. (f - 1) : j \in 1 .. n /\ ~ (f <= j)
    BY <2>3
  <2>5. \A j \in 1 .. (f - 1) : answer[j] # answer[f]
    BY <2>2, <2>3, <2>4
  <2>6. f \in places
    BY <1>1, <1>6, <2>3, <2>5 DEF Stands, Firsts
  <2>. HIDE DEF places
  <2>7. PICK j \in 1 .. m : Nth(j, places) = f
    BY <1>3, <1>4, <2>6, NthReaches
  <2>. QED  BY <1>3, <2>3, <2>7
<1>. HIDE DEF places, stand
<1>7. \A j \in 1 .. m : stand[j] \in 1 .. Len(ranked) /\ \E i \in 1 .. n : stand[j] = answer[i]
  BY <1>3, <1>5
<1>8. SetOf(stand) = SetOf(answer) \intersect (1 .. Len(ranked))
  <2>1. \A x : x \in SetOf(stand) <=> \E j \in 1 .. m : x = stand[j]
    BY <1>3 DEF SetOf
  <2>2. \A x : x \in SetOf(answer) <=> \E j \in 1 .. n : x = answer[j]
    BY <1>1 DEF SetOf
  <2>. QED  BY <1>6, <1>7, <2>1, <2>2
<1>9. ASSUME NEW i \in 1 .. m, NEW j \in 1 .. m, i < j
      PROVE  \E p, q \in Firsts(answer) : p < q /\ answer[p] = stand[i] /\ answer[q] = stand[j]
  <2>1. Nth(i, places) < Nth(j, places)
    BY <1>3, <1>4, <1>9, NthGrows
  <2>2. Nth(i, places) \in Firsts(answer) /\ Nth(j, places) \in Firsts(answer)
    BY <1>3, <1>5
  <2>. QED  BY <1>3, <2>1, <2>2
<1>10. cites'.stand = stand /\ cites'.answer = answer /\ cites'.dropped = SetOf(answer) \ (1 .. Len(ranked))
  BY DEF stand
<1>. HIDE DEF m
<1>11. SetOf(cites'.stand) \union cites'.dropped = SetOf(cites'.answer)
  BY <1>8, <1>10
<1>12. SetOf(cites'.stand) \intersect cites'.dropped = {}
  BY <1>8, <1>10
<1>13. \A i, j \in 1 .. Len(cites'.stand) : i < j =>
         \E p, q \in Firsts(cites'.answer) : p < q /\ cites'.answer[p] = cites'.stand[i] /\ cites'.answer[q] = cites'.stand[j]
  BY <1>3, <1>9, <1>10
<1>. QED  BY <1>11, <1>12, <1>13 DEF CitationsStand, SetOf, Firsts

(* _emit_trace writes when there was a retrieval.                          *)
LEMMA RecordWhenSearched ==
  ASSUME past \in Pasts, degraded \subseteq Skips, past.traces \in {0, 1}, past' = Emitted
  PROVE  /\ past' \in Pasts
         /\ \/ snaps = <<>> /\ past' = past
            \/ snaps # <<>> /\ past'.traces = past.traces + 1 /\ past'.told = degraded
         /\ past'.failed = past.failed /\ past'.spaces = past.spaces /\ past'.withdrawn = past.withdrawn
         /\ past'.bought = past.bought /\ past'.found = past.found /\ past'.applied = past.applied
         /\ past'.unsaved = past.unsaved /\ past'.changes = past.changes
<1>1. CASE snaps = <<>>
  BY <1>1 DEF Emitted, Retrieved
<1>2. CASE snaps # <<>>
  <2>1. past' = Traced
    BY <1>2 DEF Emitted, Retrieved
  <2>. QED  BY <1>2, <2>1, RecordOnce
<1>. QED  BY <1>1, <1>2

(* What is left after the answer: the record, the row, and the row again.  *)
LEMMA LateSteps ==
  ASSUME RetrievalInv, UNCHANGED <<base, snaps, cache, groups, ranked, degraded>>,
         turn.phase \in {"answer"} \union Late, NEW to \in {"done"} \union Late, Goto(to), past' \in Pasts,
         past'.failed = past.failed, past'.spaces = past.spaces, past'.withdrawn = past.withdrawn,
         past'.bought = past.bought, past'.found = past.found, past'.applied = past.applied,
         past'.changes = past.changes,
         past'.traces > 0 <=> past.spaces # {}, past'.traces > 0 => past'.told = degraded,
         to \in Late => past'.traces <= 1, past'.traces > 1 \/ to = "fail" => past'.unsaved,
         CitationsStand'
  PROVE  RetrievalInv'
<1>1. /\ turn \in Turns /\ past \in Pasts /\ (snaps = <<>> <=> past.spaces = {}) /\ degraded \subseteq Skips
      /\ past'.traces \in 0 .. 2
  BY DEF RetrievalInv, RetrievalShape, Progress, Late, Pasts
<1>2. UNCHANGED base /\ UNCHANGED snaps /\ UNCHANGED cache /\ UNCHANGED groups /\ UNCHANGED ranked /\ UNCHANGED degraded
  OBVIOUS
<1>3. /\ turn' \in Turns /\ turn'.phase = to /\ turn'.asked = turn.asked /\ turn'.kbs = turn.kbs
      /\ turn'.query = turn.query /\ turn'.mode = turn.mode /\ turn'.at = turn.at
  <2>1. to \in Phases
    BY DEF Phases, EndOfTurn, Late
  <2>. QED  BY <1>1, <2>1, GotoFields
<1>4. RetrievalShape'
  BY <1>1, <1>2, <1>3 DEF RetrievalInv, RankingIsSound, RetrievalShape
<1>5. Rebuilt'
  BY <1>1, <1>2, <1>3 DEF RetrievalInv, RankingIsSound, Rebuilt, Together
<1>6. Progress'
  BY <1>1, <1>2, <1>3 DEF Progress, Late, Found1, Searching, Before
<1>7. Bought'
  BY <1>1, <1>2, <1>3 DEF RetrievalInv, RankingIsSound, Bought, ModelsAsked
<1>8. Withdrawals'
  BY <1>1, <1>2, <1>3 DEF RetrievalInv, RankingIsSound, Withdrawals, Untouched
<1>9. Orderly'
  BY <1>1, <1>2, <1>3 DEF RetrievalInv, RankingIsSound, Orderly
<1>10. EnhancementsMayFail'
  BY <1>1, <1>2, <1>3 DEF RetrievalInv, RankingIsSound, EnhancementsMayFail, Late
<1>11. FailuresAreTold'
  BY <1>1, <1>2, <1>3 DEF RetrievalInv, RankingIsSound, FailuresAreTold
<1>12. OneRecord'
  BY <1>1, <1>2, <1>3 DEF OneRecord
<1>13. RanksDecide'
  BY <1>3 DEF RanksDecide, Late
<1>14. GatesKeepTheBest'
  BY <1>1, <1>2, <1>3 DEF RetrievalInv, RankingIsSound, GatesKeepTheBest
<1>15. ContextFits'
  <2>1. CostOf(ranked)' = CostOf(ranked)
    BY <1>2 DEF CostOf
  <2>. QED  BY <1>1, <1>2, <1>3, <2>1 DEF RetrievalInv, RankingIsSound, ContextFits, Late
<1>. QED  BY <1>4, <1>5, <1>6, <1>7, <1>8, <1>9, <1>10, <1>11, <1>12, <1>13, <1>14, <1>15 DEF RetrievalInv, RankingIsSound

LEMMA AnswerStep ==
  ASSUME RetrievalInv, Answer
  PROVE  RetrievalInv'
<1>1. /\ turn \in Turns /\ past \in Pasts /\ turn.phase = "answer" /\ (snaps = <<>> <=> past.spaces = {}) /\ past.traces = 0
      /\ degraded \subseteq Skips
  BY DEF Answer, RetrievalInv, RetrievalShape, Progress, Late
<1>2. UNCHANGED <<base, snaps, cache, groups, ranked, degraded>> /\ Goto("persist") /\ past' = Emitted
  BY DEF Answer
<1>3. /\ past' \in Pasts
      /\ \/ snaps = <<>> /\ past' = past
         \/ snaps # <<>> /\ past'.traces = past.traces + 1 /\ past'.told = degraded
      /\ past'.failed = past.failed /\ past'.spaces = past.spaces /\ past'.withdrawn = past.withdrawn
      /\ past'.bought = past.bought /\ past'.found = past.found /\ past'.applied = past.applied
      /\ past'.unsaved = past.unsaved /\ past'.changes = past.changes
  BY <1>1, <1>2, RecordWhenSearched
<1>4. past'.traces \in {0, 1} /\ (past'.traces > 0 <=> past.spaces # {}) /\ (past'.traces > 0 => past'.told = degraded)
  BY <1>1, <1>3
<1>5. CitationsStand'
  <2>1. PICK n \in 0 .. MaxMarkers : \E answer \in [1 .. n -> 0 .. (Params.chunks + 1)] :
          cites' = [stand |-> Citations(answer), answer |-> answer,
                    dropped |-> SetOf(answer) \ (1 .. Len(ranked))]
    BY DEF Answer
  <2>2. PICK answer \in [1 .. n -> 0 .. (Params.chunks + 1)] :
          cites' = [stand |-> Citations(answer), answer |-> answer,
                    dropped |-> SetOf(answer) \ (1 .. Len(ranked))]
    BY <2>1
  <2>3. n \in Nat
    BY <2>1
  <2>. QED  BY <2>2, <2>3, CitationsAreHonest
<1>6. "persist" \in {"done"} \union Late /\ turn.phase \in {"answer"} \union Late
  BY <1>1 DEF Late
<1>. QED  BY <1>2, <1>3, <1>4, <1>5, <1>6, LateSteps

LEMMA PersistSteps ==
  ASSUME RetrievalInv, Persist \/ PersistFails
  PROVE  RetrievalInv'
<1>1. /\ past \in Pasts /\ turn.phase = "persist" /\ past.traces \in {0, 1} /\ (past.traces > 0 <=> past.spaces # {})
      /\ (past.traces > 0 => past.told = degraded)
  BY DEF Persist, PersistFails, RetrievalInv, RetrievalShape, Progress, Late, FailuresAreTold, Pasts
<1>2. CitationsStand'
  BY DEF Persist, PersistFails, RetrievalInv, RankingIsSound, CitationsStand
<1>3. turn.phase \in {"answer"} \union Late /\ "fail" \in Late
  BY <1>1 DEF Late
<1>4. CASE Persist
  <2>1. UNCHANGED <<base, snaps, cache, groups, ranked, degraded>> /\ Goto("done") /\ past' = past
    BY <1>4 DEF Persist
  <2>2. "done" \notin Late
    BY DEF Late
  <2>. QED  BY <1>1, <1>2, <1>3, <2>1, <2>2, LateSteps
<1>5. CASE PersistFails
  <2>1. UNCHANGED <<base, snaps, cache, groups, ranked, degraded>> /\ Goto("fail") /\ past' = [past EXCEPT !.unsaved = TRUE]
    BY <1>5 DEF PersistFails
  <2>2. past' \in Pasts /\ past'.unsaved
    BY <1>1, <2>1 DEF Pasts
  <2>3. \A f \in {"failed", "spaces", "withdrawn", "bought", "found", "applied", "traces", "told", "changes"} : past'[f] = past[f]
    BY <1>1, <2>1 DEF Pasts
  <2>4. /\ past'.failed = past.failed /\ past'.spaces = past.spaces /\ past'.withdrawn = past.withdrawn
        /\ past'.bought = past.bought /\ past'.found = past.found /\ past'.applied = past.applied
        /\ past'.traces = past.traces /\ past'.told = past.told /\ past'.changes = past.changes
    BY <2>3
  <2>5. (past'.traces > 0 <=> past.spaces # {}) /\ past'.traces <= 1 /\ (past'.traces > 0 => past'.told = degraded)
    BY <1>1, <2>1, <2>4
  <2>6. PICK to \in {"done"} \union Late : Goto(to)
    BY <1>3, <2>1
  <2>. QED  BY <1>2, <1>3, <2>1, <2>2, <2>4, <2>5, <2>6, LateSteps
<1>. QED  BY <1>4, <1>5

LEMMA FailStep ==
  ASSUME RetrievalInv, Fail
  PROVE  RetrievalInv'
<1>1. /\ past \in Pasts /\ turn.phase = "fail" /\ past.traces \in {0, 1} /\ (past.traces > 0 <=> past.spaces # {})
      /\ (snaps = <<>> <=> past.spaces = {}) /\ past.unsaved /\ degraded \subseteq Skips
      /\ (past.traces > 0 => past.told = degraded)
  BY DEF Fail, RetrievalInv, RetrievalShape, Progress, Late, FailuresAreTold, Pasts
<1>2. CitationsStand'
  BY DEF Fail, RetrievalInv, RankingIsSound, CitationsStand
<1>3. UNCHANGED <<base, snaps, cache, groups, ranked, degraded>> /\ Goto("done") /\ past' = Emitted
  BY DEF Fail
<1>4. /\ past' \in Pasts
      /\ \/ snaps = <<>> /\ past' = past
         \/ snaps # <<>> /\ past'.traces = past.traces + 1 /\ past'.told = degraded
      /\ past'.failed = past.failed /\ past'.spaces = past.spaces /\ past'.withdrawn = past.withdrawn
      /\ past'.bought = past.bought /\ past'.found = past.found /\ past'.applied = past.applied
      /\ past'.unsaved = past.unsaved /\ past'.changes = past.changes
  BY <1>1, <1>3, RecordWhenSearched
<1>5. (past'.traces > 0 <=> past.spaces # {}) /\ (past'.traces > 0 => past'.told = degraded) /\ past'.unsaved
  BY <1>1, <1>4
<1>6. "done" \notin Late /\ turn.phase \in {"answer"} \union Late
  BY <1>1 DEF Late
<1>. QED  BY <1>2, <1>3, <1>4, <1>5, <1>6, LateSteps

-----------------------------------------------------------------------------
LEMMA RetrievalStep == RetrievalInv /\ [RetrievalNext]_retrievalVars => RetrievalInv'
<1>. SUFFICES ASSUME RetrievalInv, [RetrievalNext]_retrievalVars
              PROVE  RetrievalInv'
  OBVIOUS
<1>1. ASSUME NEW k \in Kbs, DeleteKb(k) \/ Rebuild(k)
      PROVE  RetrievalInv'
  BY <1>1, MeanwhileStep
<1>2. ASSUME NEW k \in Kbs, NEW i \in 1 .. PerKb, Withdraw(k, i)
      PROVE  RetrievalInv'
  BY <1>2, WithdrawStep
<1>3. CASE NothingToFind
  BY <1>3, NothingToFindStep
<1>4. CASE FindKb
  BY <1>4, FindKbStep
<1>5. CASE Found
  BY <1>5, FoundStep
<1>6. CASE Fails
  BY <1>6, FailsStep
<1>7. CASE Embed
  BY <1>7, EmbedStep
<1>8. CASE VectorSearch
  BY <1>8, VectorSearchStep
<1>9. CASE KeywordSearch
  BY <1>9, KeywordSearchStep
<1>10. CASE KeywordSearchFails
  BY <1>10, KeywordSearchFailsStep
<1>11. CASE Fuse
  BY <1>11, FuseStep
<1>12. CASE NotReranked
  BY <1>12, NotRerankedStep
<1>13. CASE Rerank
  BY <1>13, RerankStep
<1>14. CASE RerankFails
  BY <1>14, RerankFailsStep
<1>15. CASE Select
  BY <1>15, SelectStep
<1>16. CASE Answer
  BY <1>16, AnswerStep
<1>17. CASE Persist \/ PersistFails
  BY <1>17, PersistSteps
<1>18. CASE Fail
  BY <1>18, FailStep
<1>19. CASE UNCHANGED retrievalVars
  <2>1. UNCHANGED <<base, turn, snaps, cache, groups, ranked, degraded, cites, past>>
    BY <1>19 DEF retrievalVars
  <2>2. RetrievalShape' /\ Rebuilt' /\ Progress' /\ Bought'
    BY <2>1 DEF RetrievalInv, RetrievalShape, Rebuilt, Together, Progress, Late, Found1, Searching, Before, Bought, ModelsAsked
  <2>3. Withdrawals' /\ Orderly' /\ EnhancementsMayFail' /\ FailuresAreTold' /\ OneRecord'
    BY <2>1 DEF RetrievalInv, Withdrawals, Untouched, Orderly, EnhancementsMayFail, FailuresAreTold, OneRecord
  <2>4. RanksDecide'
    <3>1. Candidates' = Candidates
      BY <2>1 DEF Candidates
    <3>. QED  BY <2>1, <3>1 DEF RetrievalInv, RankingIsSound, RanksDecide
  <2>5. GatesKeepTheBest' /\ CitationsStand'
    BY <2>1 DEF RetrievalInv, RankingIsSound, GatesKeepTheBest, CitationsStand
  <2>6. ContextFits'
    <3>1. CostOf(ranked)' = CostOf(ranked)
      BY <2>1 DEF CostOf
    <3>. QED  BY <2>1, <3>1 DEF RetrievalInv, RankingIsSound, ContextFits
  <2>. QED  BY <2>2, <2>3, <2>4, <2>5, <2>6 DEF RetrievalInv, RankingIsSound
<1>. QED  BY <1>1, <1>2, <1>3, <1>4, <1>5, <1>6, <1>7, <1>8, <1>9, <1>10, <1>11, <1>12, <1>13, <1>14,
             <1>15, <1>16, <1>17, <1>18, <1>19 DEF RetrievalNext

LEMMA InvariantIsSound == RetrievalInv => RetrievalIsSound
<1>. SUFFICES ASSUME RetrievalInv PROVE RetrievalIsSound
  OBVIOUS
<1>1. OneSpace
  <2>. SUFFICES ASSUME NEW s \in past.spaces PROVE s \in {<<"old", 1>>, <<"new", 2>>}
    BY DEF OneSpace
  <2>1. past.spaces \in SUBSET ({"old", "new"} \X {1, 2})
    BY DEF RetrievalInv, RetrievalShape, Pasts
  <2>2. s \in {"old", "new"} \X {1, 2} /\ (s[1] = "old" <=> s[2] = 1)
    BY <2>1 DEF RetrievalInv, Rebuilt
  <2>. QED  BY <2>2
<1>2. VectorsAreShared
  <2>. DEFINE models == {snaps[i].model : i \in 1 .. Len(snaps)}
  <2>1. snaps \in Seq(Snap) /\ past.bought = Cardinality(cache) /\ cache \subseteq models
    BY DEF RetrievalInv, RetrievalShape, Bought, ModelsAsked
  <2>2. \A i \in 1 .. Len(snaps) : snaps[i] \in Snap
    BY <2>1
  <2>3. models \in SUBSET {"old", "new"}
    BY <2>2 DEF Snap
  <2>. HIDE DEF models
  <2>4. IsFiniteSet({"old"})
    BY FS_Singleton
  <2>5. IsFiniteSet({"old"} \union {"new"})
    BY <2>4, FS_AddElement
  <2>6. models \in SUBSET ({"old"} \union {"new"})
    BY <2>3
  <2>7. IsFiniteSet(models)
    BY <2>5, <2>6, FS_Subset
  <2>8. Cardinality(cache) <= Cardinality(models)
    BY <2>1, <2>7, FS_Subset
  <2>. QED  BY <2>1, <2>8 DEF VectorsAreShared, models
<1>3. WithdrawnIsGone
  BY DEF RetrievalInv, Withdrawals, Untouched, WithdrawnIsGone, ChunksIn
<1>. QED  BY <1>1, <1>2, <1>3 DEF RetrievalInv, RetrievalIsSound, SearchIsHonest

(* RetrievalService.search and query keep to one model for each vector,    *)
(* buy a vector once, never quote what was withdrawn before, survive their *)
(* enhancements and report what failed; and from the hits to the citations *)
(* gate_by_score, fuse_candidates, select_context and assemble_citations   *)
(* double nothing, make nothing up and put nothing behind what was found   *)
(* to be worse.                                                            *)
THEOREM RetrievalsAreSound == RetrievalSpec => []RetrievalIsSound
<1>1. RetrievalInv => RetrievalIsSound
  BY InvariantIsSound
<1>. QED  BY InitIsSound, RetrievalStep, <1>1, PTL DEF RetrievalSpec

-----------------------------------------------------------------------------
(***************************************************************************)
(* Lists that are read page by page                                        *)
(***************************************************************************)
ListRow == [key : Nat, id : Nat]
Newest == {p \in ListRow \X ListRow : Later(p[1], p[2])}
Oldest == {p \in ListRow \X ListRow : Later(p[2], p[1])}

LEMMA PairsOfRows ==
  ASSUME NEW a \in ListRow, NEW b \in ListRow
  PROVE  (<<a, b>> \in Newest <=> Later(a, b)) /\ (<<a, b>> \in Oldest <=> Later(b, a))
BY DEF Newest, Oldest

LEMMA RowsInOrder ==
  ASSUME NEW S \in SUBSET ListRow
  PROVE  InOrder(Newest, S) /\ InOrder(Oldest, S)
<1>1. \A x, y \in S : x.key \in Nat /\ y.key \in Nat /\ x.id \in Nat /\ y.id \in Nat
  BY DEF ListRow
<1>2. \A x, y \in S : x # y => x.key # y.key \/ x.id # y.id
  BY DEF ListRow
<1>3. \A x \in S : ~Later(x, x)
  BY <1>1 DEF Later
<1>4. \A x, y \in S : x # y => Later(x, y) \/ Later(y, x)
  BY <1>1, <1>2 DEF Later
<1>5. \A x, y, z \in S : Later(x, y) /\ Later(y, z) => Later(x, z)
  BY <1>1 DEF Later
<1>. HIDE DEF Later
<1>. QED  BY <1>3, <1>4, <1>5, PairsOfRows DEF InOrder

(* First(rows, n, Before): the first rows by their rank.                   *)
Fewer(S, n) == IF Cardinality(S) < n THEN Cardinality(S) ELSE n
Ranked(R, S, n, rows) ==
  /\ rows \in Seq(S) /\ Len(rows) = Fewer(S, n)
  /\ \A i \in 1 .. Fewer(S, n) : Cardinality(Lower(R, S, rows[i])) = i - 1

LEMMA NewestByRank ==
  ASSUME NEW S \in SUBSET ListRow, IsFiniteSet(S), NEW n \in Nat
  PROVE  Ranked(Newest, S, n, First(S, n, Later))
<1>. DEFINE At(i) == CHOOSE r \in S : Cardinality({s \in S : Later(s, r)}) = i - 1
<1>1. \A r \in S : {s \in S : Later(s, r)} = Lower(Newest, S, r)
  BY PairsOfRows DEF Lower
<1>2. Fewer(S, n) \in Nat /\ Fewer(S, n) <= Cardinality(S)
  BY FS_CardinalityType DEF Fewer
<1>3. \A i \in 1 .. Fewer(S, n) : At(i) \in S /\ Cardinality(Lower(Newest, S, At(i))) = i - 1
  <2>. TAKE i \in 1 .. Fewer(S, n)
  <2>1. i \in 1 .. Cardinality(S)
    BY <1>2, FS_CardinalityType
  <2>2. \E c \in S : Cardinality(Lower(Newest, S, c)) = i - 1
    BY <2>1, RowsInOrder, PlaceIsTaken
  <2>3. \E c \in S : Cardinality({s \in S : Later(s, c)}) = i - 1
    BY <1>1, <2>2
  <2>4. At(i) \in S /\ Cardinality({s \in S : Later(s, At(i))}) = i - 1
    BY <2>3
  <2>. HIDE DEF At
  <2>. QED  BY <1>1, <2>4
<1>4. First(S, n, Later) = [i \in 1 .. Fewer(S, n) |-> At(i)]
  BY DEF First, Fewer
<1>. HIDE DEF At
<1>. QED  BY <1>2, <1>3, <1>4 DEF Ranked

OldestFirst(S, n) ==
  [i \in 1 .. Fewer(S, n) |-> CHOOSE r \in S : Cardinality({s \in S : Later(r, s)}) = i - 1]
LEMMA OldestByRank ==
  ASSUME NEW S \in SUBSET ListRow, IsFiniteSet(S), NEW n \in Nat
  PROVE  Ranked(Oldest, S, n, OldestFirst(S, n))
<1>. DEFINE At(i) == CHOOSE r \in S : Cardinality({s \in S : Later(r, s)}) = i - 1
<1>1. \A r \in S : {s \in S : Later(r, s)} = Lower(Oldest, S, r)
  BY PairsOfRows DEF Lower
<1>2. Fewer(S, n) \in Nat /\ Fewer(S, n) <= Cardinality(S)
  BY FS_CardinalityType DEF Fewer
<1>3. \A i \in 1 .. Fewer(S, n) : At(i) \in S /\ Cardinality(Lower(Oldest, S, At(i))) = i - 1
  <2>. TAKE i \in 1 .. Fewer(S, n)
  <2>1. i \in 1 .. Cardinality(S)
    BY <1>2, FS_CardinalityType
  <2>2. \E c \in S : Cardinality(Lower(Oldest, S, c)) = i - 1
    BY <2>1, RowsInOrder, PlaceIsTaken
  <2>3. \E c \in S : Cardinality({s \in S : Later(c, s)}) = i - 1
    BY <1>1, <2>2
  <2>4. At(i) \in S /\ Cardinality({s \in S : Later(At(i), s)}) = i - 1
    BY <2>3
  <2>. HIDE DEF At
  <2>. QED  BY <1>1, <2>4
<1>4. OldestFirst(S, n) = [i \in 1 .. Fewer(S, n) |-> At(i)]
  BY DEF OldestFirst
<1>. HIDE DEF At
<1>. QED  BY <1>2, <1>3, <1>4 DEF Ranked

LEMMA RankedInOrder ==
  ASSUME NEW S, NEW R, IsFiniteSet(S), InOrder(R, S), NEW n \in Nat,
         NEW rows, Ranked(R, S, n, rows)
  PROVE  /\ \A i, j \in 1 .. Len(rows) : i < j => <<rows[i], rows[j]>> \in R
         /\ \A x \in S : \/ \E i \in 1 .. Len(rows) : rows[i] = x
                         \/ Len(rows) = n /\ \A i \in 1 .. n : <<rows[i], x>> \in R
<1>. DEFINE m == Fewer(S, n)
<1>1. Cardinality(S) \in Nat /\ m \in Nat /\ m <= Cardinality(S) /\ m <= n
  BY FS_CardinalityType DEF Fewer
<1>. HIDE DEF m
<1>4. rows \in Seq(S) /\ Len(rows) = m
  BY DEF Ranked, m
<1>5. \A i \in 1 .. m : rows[i] \in S /\ Cardinality(Lower(R, S, rows[i])) = i - 1
  BY <1>4 DEF Ranked, m
<1>6. \A x \in S : Cardinality(Lower(R, S, x)) \in Nat
  <2>. TAKE x \in S
  <2>1. Lower(R, S, x) \subseteq S
    BY DEF Lower
  <2>. QED  BY <2>1, FS_Subset, FS_CardinalityType
<1>7. \A x, y \in S : Cardinality(Lower(R, S, x)) < Cardinality(Lower(R, S, y)) => <<x, y>> \in R
  <2>. SUFFICES ASSUME NEW x \in S, NEW y \in S, Cardinality(Lower(R, S, x)) < Cardinality(Lower(R, S, y))
                PROVE  <<x, y>> \in R
    OBVIOUS
  <2>1. x # y
    BY <1>6
  <2>2. CASE <<y, x>> \in R
    <3>1. Cardinality(Lower(R, S, y)) + 1 <= Cardinality(Lower(R, S, x))
      BY <2>2, OneLessIsAhead
    <3>. QED  BY <1>6, <3>1
  <2>. QED  BY <2>1, <2>2 DEF InOrder
<1>8. ASSUME NEW x \in S, NEW y \in S, Cardinality(Lower(R, S, x)) = Cardinality(Lower(R, S, y))
      PROVE  x = y
  <2>1. CASE <<x, y>> \in R
    BY <1>6, <1>8, <2>1, OneLessIsAhead
  <2>2. CASE <<y, x>> \in R
    BY <1>6, <1>8, <2>2, OneLessIsAhead
  <2>. QED  BY <2>1, <2>2 DEF InOrder
<1>9. \A i, j \in 1 .. m : i < j => <<rows[i], rows[j]>> \in R
  <2>1. \A i, j \in 1 .. m : i < j => i - 1 < j - 1
    BY <1>1
  <2>. QED  BY <1>5, <1>7, <2>1
<1>10. ASSUME NEW x \in S
       PROVE  \/ \E i \in 1 .. m : rows[i] = x
              \/ m = n /\ \A i \in 1 .. n : <<rows[i], x>> \in R
  <2>. DEFINE k == Cardinality(Lower(R, S, x))
  <2>1. k \in Nat
    BY <1>6
  <2>2. k < Cardinality(S)
    <3>1. Lower(R, S, x) \subseteq S \ {x}
      BY DEF Lower, InOrder
    <3>2. IsFiniteSet(S \ {x}) /\ Cardinality(S \ {x}) = Cardinality(S) - 1
      BY FS_RemoveElement
    <3>3. k <= Cardinality(S) - 1
      BY <3>1, <3>2, FS_Subset
    <3>. HIDE DEF k
    <3>. QED  BY <1>1, <2>1, <3>3
  <2>3. CASE k < m
    <3>1. k + 1 \in 1 .. m /\ (k + 1) - 1 = k
      BY <1>1, <2>1, <2>3
    <3>2. rows[k + 1] \in S /\ Cardinality(Lower(R, S, rows[k + 1])) = k
      BY <1>5, <3>1
    <3>3. rows[k + 1] = x
      BY <1>8, <3>2
    <3>. QED  BY <3>1, <3>3
  <2>4. CASE m <= k
    <3>1. m = n
      BY <1>1, <2>1, <2>2, <2>4 DEF m, Fewer
    <3>2. \A i \in 1 .. m : i - 1 < k
      BY <1>1, <2>1, <2>4
    <3>3. \A i \in 1 .. m : <<rows[i], x>> \in R
      BY <1>5, <1>7, <3>2
    <3>. QED  BY <3>1, <3>3
  <2>. HIDE DEF k
  <2>. QED  BY <1>1, <2>1, <2>3, <2>4
<1>. QED  BY <1>4, <1>9, <1>10

(* A page: what is not on it comes after it, and then there is more.       *)
PageOf(rows) == SubSeq(rows, 1, IF Len(rows) < Page THEN Len(rows) ELSE Page)

LEMMA PageInOrder ==
  ASSUME NEW S, NEW R, IsFiniteSet(S), InOrder(R, S), NEW rows, Ranked(R, S, Page + 1, rows),
         NEW page, page = PageOf(rows)
  PROVE  /\ page \in Seq(S)
         /\ \A i, j \in 1 .. Len(page) : i < j => <<page[i], page[j]>> \in R
         /\ page = <<>> => S = {}
         /\ \A x \in S : \/ \E i \in 1 .. Len(page) : page[i] = x
                         \/ More(rows) /\ page # <<>> /\ <<page[Len(page)], x>> \in R
<1>1. Page \in Nat /\ Page >= 1 /\ Page + 1 \in Nat
  BY ConversationsAssumption
<1>2. rows \in Seq(S) /\ Len(rows) \in Nat /\ Len(rows) = Fewer(S, Page + 1)
  BY DEF Ranked
<1>3. /\ \A i, j \in 1 .. Len(rows) : i < j => <<rows[i], rows[j]>> \in R
      /\ \A x \in S : \/ \E i \in 1 .. Len(rows) : rows[i] = x
                      \/ Len(rows) = Page + 1 /\ \A i \in 1 .. Page + 1 : <<rows[i], x>> \in R
  BY <1>1, RankedInOrder
<1>4. PICK p \in Nat : p = IF Len(rows) < Page THEN Len(rows) ELSE Page
  BY <1>1, <1>2
<1>5. p <= Len(rows) /\ p <= Page /\ (Len(rows) > Page => p = Page) /\ (Len(rows) <= Page => p = Len(rows))
  BY <1>1, <1>2, <1>4
<1>6. page \in Seq(S) /\ Len(page) = p /\ \A i \in 1 .. p : page[i] = rows[i]
  BY <1>2, <1>4, <1>5 DEF PageOf
<1>7. \A i, j \in 1 .. p : i < j => <<page[i], page[j]>> \in R
  BY <1>2, <1>3, <1>5, <1>6
<1>8. page = <<>> => S = {}
  <2>. SUFFICES ASSUME page = <<>> PROVE S = {}
    OBVIOUS
  <2>1. p = 0
    BY <1>6
  <2>2. Len(rows) = 0
    BY <1>1, <1>2, <1>5, <2>1
  <2>. QED  BY <1>1, <1>3, <2>2
<1>9. ASSUME NEW x \in S
      PROVE  \/ \E i \in 1 .. p : page[i] = x
             \/ More(rows) /\ page # <<>> /\ <<page[p], x>> \in R
  <2>1. CASE Len(rows) <= Page
    <3>1. \E i \in 1 .. Len(rows) : rows[i] = x
      BY <1>1, <1>2, <1>3, <2>1
    <3>. QED  BY <1>5, <1>6, <2>1, <3>1
  <2>2. CASE Len(rows) > Page
    <3>1. p = Page /\ p \in 1 .. p /\ p \in 1 .. Len(rows) /\ More(rows) /\ page # <<>>
      BY <1>1, <1>2, <1>5, <1>6, <2>2 DEF More
    <3>2. page[p] = rows[p]
      BY <1>6, <3>1
    <3>3. Len(rows) = Page + 1
      BY <1>1, <1>2, <2>2, FS_CardinalityType DEF Fewer
    <3>4. CASE \E i \in 1 .. Len(rows) : rows[i] = x
      <4>1. PICK i \in 1 .. Len(rows) : rows[i] = x
        BY <3>4
      <4>2. CASE i \in 1 .. p
        BY <1>6, <4>1, <4>2
      <4>3. CASE i \notin 1 .. p
        <5>1. p < i
          BY <1>2, <3>1, <4>3
        <5>. QED  BY <1>3, <3>1, <3>2, <4>1, <5>1
      <4>. QED  BY <4>2, <4>3
    <3>5. CASE \A i \in 1 .. Page + 1 : <<rows[i], x>> \in R
      <4>1. p \in 1 .. Page + 1
        BY <1>1, <3>1
      <4>. QED  BY <3>1, <3>2, <3>5, <4>1
    <3>. QED  BY <1>3, <3>4, <3>5
  <2>. QED  BY <1>1, <1>2, <2>1, <2>2
<1>. QED  BY <1>6, <1>7, <1>8, <1>9

(* How often something is in a list.                                       *)
Entries(s, x) == {i \in 1 .. Len(s) : s[i] = x}

LEMMA EntriesAreFinite ==
  ASSUME NEW s \in Seq(Nat), NEW x
  PROVE  IsFiniteSet(Entries(s, x)) /\ Cardinality(Entries(s, x)) \in Nat
<1>1. IsFiniteSet(1 .. Len(s))
  BY FS_Interval
<1>2. Entries(s, x) \subseteq 1 .. Len(s)
  BY DEF Entries
<1>. QED  BY <1>1, <1>2, FS_Subset, FS_CardinalityType

LEMMA NoEntryMore ==
  ASSUME NEW s \in Seq(Nat), NEW t \in Seq(Nat), NEW x, \A i \in 1 .. Len(t) : t[i] # x
  PROVE  Cardinality(Entries(s \o t, x)) = Cardinality(Entries(s, x))
<1>1. /\ s \o t \in Seq(Nat) /\ Len(s \o t) = Len(s) + Len(t) /\ Len(s) \in Nat /\ Len(t) \in Nat
      /\ \A i \in 1 .. Len(s) : (s \o t)[i] = s[i]
      /\ \A i \in Len(s) + 1 .. Len(s) + Len(t) : (s \o t)[i] = t[i - Len(s)] /\ i - Len(s) \in 1 .. Len(t)
  OBVIOUS
<1>2. Entries(s \o t, x) = Entries(s, x)
  <2>1. \A i \in 1 .. Len(s) + Len(t) : i \in 1 .. Len(s) \/ i \in Len(s) + 1 .. Len(s) + Len(t)
    BY <1>1
  <2>2. 1 .. Len(s) \subseteq 1 .. Len(s) + Len(t)
    BY <1>1
  <2>. QED  BY <1>1, <2>1, <2>2 DEF Entries
<1>. QED  BY <1>2

LEMMA OneEntryMore ==
  ASSUME NEW s \in Seq(Nat), NEW t \in Seq(Nat), NEW x, NEW k \in 1 .. Len(t), t[k] = x,
         \A i \in 1 .. Len(t) : t[i] = x => i = k
  PROVE  Cardinality(Entries(s \o t, x)) = Cardinality(Entries(s, x)) + 1
<1>1. /\ s \o t \in Seq(Nat) /\ Len(s \o t) = Len(s) + Len(t) /\ Len(s) \in Nat /\ Len(t) \in Nat
      /\ \A i \in 1 .. Len(s) : (s \o t)[i] = s[i]
      /\ \A i \in Len(s) + 1 .. Len(s) + Len(t) : (s \o t)[i] = t[i - Len(s)] /\ i - Len(s) \in 1 .. Len(t)
  OBVIOUS
<1>2. PICK n \in Nat : n = Len(s) + k
  BY <1>1
<1>3. n \in Len(s) + 1 .. Len(s) + Len(t) /\ n - Len(s) = k /\ n \in 1 .. Len(s) + Len(t) /\ n \notin 1 .. Len(s)
  BY <1>1, <1>2
<1>4. Entries(s \o t, x) = Entries(s, x) \union {n}
  <2>1. \A i \in 1 .. Len(s) + Len(t) : i \in 1 .. Len(s) \/ i \in Len(s) + 1 .. Len(s) + Len(t)
    BY <1>1
  <2>2. 1 .. Len(s) \subseteq 1 .. Len(s) + Len(t)
    BY <1>1
  <2>3. \A i \in Len(s) + 1 .. Len(s) + Len(t) : i - Len(s) = k => i = n
    BY <1>1, <1>2
  <2>. QED  BY <1>1, <1>3, <2>1, <2>2, <2>3 DEF Entries
<1>5. n \notin Entries(s, x)
  BY <1>3 DEF Entries
<1>. QED  BY <1>4, <1>5, EntriesAreFinite, FS_AddElement

(***************************************************************************)
(* Turning a page keeps what the reader is promised.                       *)
(***************************************************************************)
Ids(page) == [i \in 1 .. Len(page) |-> page[i].id]
Behind(R, cursor, r) == cursor # NoCursor /\ <<cursor, r>> \notin R
Promised(R, all, still, cursor, listed) ==
  \A x \in still : \E r \in all :
    r.id = x /\ Cardinality(Entries(listed, x)) = IF Behind(R, cursor, r) THEN 1 ELSE 0
RestOf(R, all, cursor) == {r \in all : cursor = NoCursor \/ <<cursor, r>> \in R}

Readable(R, all) ==
  /\ InOrder(R, ListRow) /\ all \in SUBSET ListRow /\ IsFiniteSet(all)
  /\ \A r \in all : r.key > 0
  /\ \A r, q \in all : r.id = q.id => r = q
Turned(R, all, cursor, listed, rows, page, last, longer) ==
  /\ Ranked(R, RestOf(R, all, cursor), Page + 1, rows) /\ page = PageOf(rows)
  /\ last = IF page = <<>> THEN cursor ELSE page[Len(page)]
  /\ longer = listed \o Ids(page)

LEMMA PageKeepsPromise ==
  ASSUME NEW R, NEW all, Readable(R, all), NEW cursor \in ListRow, NEW listed \in Seq(Nat),
         NEW still, Promised(R, all, still, cursor, listed),
         NEW rows, NEW page, NEW last, NEW longer, Turned(R, all, cursor, listed, rows, page, last, longer)
  PROVE  /\ last \in ListRow /\ longer \in Seq(Nat) /\ Promised(R, all, still, last, longer)
         /\ ~More(rows) => \A x \in still : Cardinality(Entries(longer, x)) = 1
         /\ \A i \in 1 .. Len(longer) :
              (\E j \in 1 .. Len(listed) : longer[i] = listed[j]) \/ (\E r \in all : longer[i] = r.id)
<1>. DEFINE S == RestOf(R, all, cursor)
<1>0. /\ InOrder(R, ListRow) /\ all \in SUBSET ListRow /\ IsFiniteSet(all)
      /\ \A r \in all : r.key > 0
      /\ \A r, q \in all : r.id = q.id => r = q
      /\ Ranked(R, S, Page + 1, rows) /\ page = PageOf(rows)
      /\ last = IF page = <<>> THEN cursor ELSE page[Len(page)]
      /\ longer = listed \o Ids(page)
  BY DEF Readable, Turned
<1>1. S \subseteq all /\ IsFiniteSet(S) /\ S \subseteq ListRow
  <2>1. S \subseteq all
    BY <1>0 DEF RestOf
  <2>. QED  BY <1>0, <2>1, FS_Subset
<1>2. InOrder(R, S)
  BY <1>0, <1>1 DEF InOrder
<1>3. /\ page \in Seq(S)
      /\ \A i, j \in 1 .. Len(page) : i < j => <<page[i], page[j]>> \in R
      /\ page = <<>> => S = {}
      /\ \A x \in S : \/ \E i \in 1 .. Len(page) : page[i] = x
                      \/ More(rows) /\ page # <<>> /\ <<page[Len(page)], x>> \in R
  BY <1>0, <1>1, <1>2, PageInOrder
<1>. HIDE DEF S
<1>4. Len(page) \in Nat /\ \A i \in 1 .. Len(page) : page[i] \in S /\ page[i] \in all /\ page[i] \in ListRow
  BY <1>1, <1>3
<1>5. page # <<>> => Len(page) \in 1 .. Len(page) /\ last = page[Len(page)] /\ last \in S /\ last \in all
  BY <1>0, <1>1, <1>3
<1>6. last \in ListRow
  BY <1>0, <1>1, <1>5
<1>7. Ids(page) \in Seq(Nat) /\ Len(Ids(page)) = Len(page) /\ \A i \in 1 .. Len(page) : Ids(page)[i] = page[i].id
  <2>1. \A i \in 1 .. Len(page) : page[i].id \in Nat
    BY <1>4 DEF ListRow
  <2>. QED  BY <1>4, <2>1 DEF Ids
<1>8. longer \in Seq(Nat)
  BY <1>0, <1>7
<1>9. \A i \in 1 .. Len(longer) :
        (\E j \in 1 .. Len(listed) : longer[i] = listed[j]) \/ (\E r \in all : longer[i] = r.id)
  <2>. TAKE i \in 1 .. Len(longer)
  <2>1. CASE i \in 1 .. Len(listed)
    <3>1. longer[i] = listed[i]
      BY <1>0, <1>7, <2>1
    <3>. QED  BY <2>1, <3>1
  <2>2. CASE i \notin 1 .. Len(listed)
    <3>1. i - Len(listed) \in 1 .. Len(page) /\ longer[i] = Ids(page)[i - Len(listed)]
      BY <1>0, <1>4, <1>7, <2>2
    <3>. QED  BY <1>4, <1>7, <3>1
  <2>. QED  BY <2>1, <2>2
<1>10. NoCursor.key = 0
  BY DEF NoCursor
<1>11. page # <<>> => last # NoCursor
  BY <1>0, <1>5, <1>10
<1>12. ASSUME NEW x \in still
       PROVE  /\ \E r \in all : r.id = x /\ Cardinality(Entries(longer, x)) = IF Behind(R, last, r) THEN 1 ELSE 0
              /\ ~More(rows) => Cardinality(Entries(longer, x)) = 1
  <2>1. PICK r \in all : r.id = x /\ Cardinality(Entries(listed, x)) = IF Behind(R, cursor, r) THEN 1 ELSE 0
    BY DEF Promised
  <2>2. r \in ListRow
    BY <1>0
  <2>3. \A i \in 1 .. Len(page) : Ids(page)[i] = x => page[i] = r
    <3>. TAKE i \in 1 .. Len(page)
    <3>1. page[i] \in all /\ Ids(page)[i] = page[i].id
      BY <1>4, <1>7
    <3>2. page[i].id = r.id => page[i] = r
      BY <1>0, <3>1
    <3>. QED  BY <2>1, <3>1, <3>2
  <2>4. CASE Behind(R, cursor, r)
    <3>1. r \notin S
      BY <2>4 DEF S, RestOf, Behind
    <3>2. \A i \in 1 .. Len(Ids(page)) : Ids(page)[i] # x
      BY <1>4, <1>7, <2>3, <3>1
    <3>3. Cardinality(Entries(longer, x)) = Cardinality(Entries(listed, x))
      BY <1>0, <1>7, <3>2, NoEntryMore
    <3>4. Cardinality(Entries(longer, x)) = 1
      BY <2>1, <2>4, <3>3
    <3>5. Behind(R, last, r)
      <4>1. CASE page = <<>>
        BY <1>0, <2>4, <4>1
      <4>2. CASE page # <<>>
        <5>1. <<cursor, last>> \in R
          BY <1>5, <2>4, <4>2 DEF S, RestOf, Behind
        <5>2. <<last, r>> \notin R
          BY <1>0, <1>6, <2>2, <2>4, <5>1 DEF InOrder, Behind
        <5>. QED  BY <1>11, <4>2, <5>2 DEF Behind
      <4>. QED  BY <4>1, <4>2
    <3>. QED  BY <2>1, <3>4, <3>5
  <2>5. CASE ~Behind(R, cursor, r) /\ \E i \in 1 .. Len(page) : page[i] = r
    <3>1. PICK k \in 1 .. Len(page) : page[k] = r
      BY <2>5
    <3>2. Ids(page)[k] = x
      BY <1>7, <2>1, <3>1
    <3>3. \A i \in 1 .. Len(page) : page[i] = r => i = k
      <4>. SUFFICES ASSUME NEW i \in 1 .. Len(page), page[i] = r, i # k
                    PROVE  FALSE
        OBVIOUS
      <4>1. i < k \/ k < i
        BY <1>4
      <4>2. <<r, r>> \in R
        BY <1>3, <3>1, <4>1
      <4>. QED  BY <1>0, <2>2, <4>2 DEF InOrder
    <3>4. Cardinality(Entries(longer, x)) = Cardinality(Entries(listed, x)) + 1
      <4>1. k \in 1 .. Len(Ids(page)) /\ \A i \in 1 .. Len(Ids(page)) : Ids(page)[i] = x => i = k
        BY <1>7, <2>3, <3>3
      <4>2. ASSUME NEW t \in Seq(Nat), t = Ids(page)
            PROVE  Cardinality(Entries(listed \o t, x)) = Cardinality(Entries(listed, x)) + 1
        <5>1. k \in 1 .. Len(t) /\ t[k] = x /\ \A i \in 1 .. Len(t) : t[i] = x => i = k
          BY <3>2, <4>1, <4>2
        <5>. QED  BY <5>1, OneEntryMore
      <4>. QED  BY <1>0, <1>7, <4>2
    <3>5. Cardinality(Entries(longer, x)) = 1
      BY <2>1, <2>5, <3>4
    <3>6. <<last, r>> \notin R
      <4>1. page # <<>> /\ Len(page) \in 1 .. Len(page) /\ last = page[Len(page)]
        BY <1>3, <1>4, <1>5, <3>1
      <4>2. CASE k = Len(page)
        BY <1>0, <2>2, <3>1, <4>1, <4>2 DEF InOrder
      <4>3. CASE k # Len(page)
        <5>1. k < Len(page)
          BY <1>4, <4>3
        <5>2. <<r, last>> \in R
          BY <1>3, <3>1, <4>1, <5>1
        <5>. QED  BY <1>0, <1>6, <2>2, <5>2 DEF InOrder
      <4>. QED  BY <4>2, <4>3
    <3>7. Behind(R, last, r)
      <4>1. page # <<>>
        BY <1>3, <1>4, <3>1
      <4>. QED  BY <1>11, <3>6, <4>1 DEF Behind
    <3>. QED  BY <2>1, <3>5, <3>7
  <2>6. CASE ~Behind(R, cursor, r) /\ ~ \E i \in 1 .. Len(page) : page[i] = r
    <3>1. r \in S
      BY <2>6 DEF S, RestOf, Behind
    <3>2. More(rows) /\ page # <<>> /\ <<page[Len(page)], r>> \in R
      BY <1>3, <2>6, <3>1
    <3>3. ~Behind(R, last, r)
      BY <1>5, <3>2 DEF Behind
    <3>4. \A i \in 1 .. Len(Ids(page)) : Ids(page)[i] # x
      BY <1>7, <2>3, <2>6
    <3>5. Cardinality(Entries(longer, x)) = Cardinality(Entries(listed, x))
      BY <1>0, <1>7, <3>4, NoEntryMore
    <3>6. Cardinality(Entries(longer, x)) = 0
      BY <2>1, <2>6, <3>5
    <3>. QED  BY <2>1, <3>2, <3>3, <3>6
  <2>. QED  BY <2>4, <2>5, <2>6
<1>. QED  BY <1>6, <1>8, <1>9, <1>12 DEF Promised

(***************************************************************************)
(* Conversations: the values of the variables.                             *)
(***************************************************************************)
TalkStates == {"none", "live", "deleted", "old", "gone"}
TalkRow == [state : TalkStates, key : Nat, count : Nat]
MessageRow == [talk : Talks, key : Nat \ {0}, id : DOMAIN Authors]
Writer == [at : {"stamp", "insert", "done", "not_found"}, key : Nat, count : Nat]
Readers ==
  [at : {"choose", "talks", "messages", "done", "not_found"}, of : Talks \union {Owner[c] : c \in Talks} \union {0},
   listed : Seq(Nat), cursor : ListRow, still : SUBSET Nat]
TalksShape ==
  /\ clock \in Nat \ {0} /\ talks \in [Talks -> TalkRow]
  /\ messages \in SUBSET MessageRow /\ IsFiniteSet(messages)
  /\ writers \in [DOMAIN Authors -> Writer] /\ reader \in Readers

(* Keys are times, and a writer writes one message.                        *)
WritingFits ==
  /\ \A c \in Talks : IF Present(c) THEN talks[c].key > 0 ELSE talks[c].count = 0
  /\ \A a \in DOMAIN Authors : writers[a].at = "insert" => writers[a].key > 0
  /\ \A m \in messages : writers[m.id].at = "done"
  /\ \A m, n \in messages : m.id = n.id => m = n

(* What is listed lies before the cursor, and once; what is promised and   *)
(* not yet listed lies behind it.                                          *)
ReaderFits ==
  /\ reader.at = "choose" => reader.listed = <<>> /\ reader.cursor = NoCursor /\ reader.still = {}
  /\ reader.at = "messages" => reader.of \in Talks /\ Present(reader.of)
  /\ reader.at = "talks" => Promised(Newest, TalkRows, reader.still, reader.cursor, reader.listed)
  /\ reader.at = "messages" /\ Shown(reader.of) =>
       Promised(Oldest, MessageRows, reader.still, reader.cursor, reader.listed)
TalksInv == TalksShape /\ WritingFits /\ ReaderFits /\ PagesAreWhole /\ CountsAreRight
ConversationsSpec == ConversationsInit /\ [][ConversationsNext]_conversationsVars

LEMMA AuthorsWriteInTalks ==
  /\ Talks \in SUBSET Nat /\ IsFiniteSet(Talks)
  /\ \A a \in DOMAIN Authors : Authors[a] \in Talks /\ a \in Nat
BY ConversationsAssumption

LEMMA RowsAreListRows ==
  ASSUME TalksInv
  PROVE  /\ TalkRows \in SUBSET ListRow /\ IsFiniteSet(TalkRows)
         /\ \A r, q \in TalkRows : r.id = q.id => r = q
         /\ \A r \in TalkRows : r.key > 0 /\ r.id \in Talks /\ Owner[r.id] = reader.of
         /\ MessageRows \in SUBSET ListRow /\ IsFiniteSet(MessageRows)
         /\ \A r, q \in MessageRows : r.id = q.id => r = q
         /\ \A r \in MessageRows : r.key > 0
<1>1. Talks \subseteq Nat /\ IsFiniteSet(Talks) /\ DOMAIN Authors \subseteq Nat
  BY AuthorsWriteInTalks
<1>2. \A c \in Talks : talks[c] \in TalkRow
  BY DEF TalksInv, TalksShape
<1>3. /\ TalkRows \in SUBSET ListRow
      /\ \A r \in TalkRows : \E c \in Talks : RequireOwn(reader.of, c) /\ r = [key |-> talks[c].key, id |-> c]
  <2>1. \A c \in Talks : [key |-> talks[c].key, id |-> c] \in ListRow
    BY <1>1, <1>2 DEF ListRow, TalkRow
  <2>. QED  BY <2>1 DEF TalkRows
<1>4. IsFiniteSet(TalkRows)
  <2>. DEFINE D == {d \in Talks : RequireOwn(reader.of, d)}
  <2>1. IsFiniteSet(D)
    BY <1>1, FS_Subset
  <2>. DEFINE f == [c \in D |-> [key |-> talks[c].key, id |-> c]]
  <2>2. f \in Surjection(D, TalkRows)
    BY DEF Surjection, TalkRows
  <2>. QED  BY <2>1, <2>2, FS_Surjection
<1>5. \A r, q \in TalkRows : r.id = q.id => r = q
  BY <1>3
<1>6. \A r \in TalkRows : r.key > 0 /\ r.id \in Talks /\ Owner[r.id] = reader.of
  BY <1>3 DEF TalksInv, WritingFits, RequireOwn, Present, Shown
<1>7. /\ MessageRows \in SUBSET ListRow
      /\ \A r \in MessageRows : \E m \in messages : r = [key |-> m.key, id |-> m.id]
  BY <1>1 DEF MessageRows, MessagesOf, ListRow, TalksInv, TalksShape, MessageRow
<1>8. IsFiniteSet(MessageRows)
  <2>. DEFINE D == MessagesOf(reader.of)
  <2>1. IsFiniteSet(D)
    <3>1. MessagesOf(reader.of) \subseteq messages
      BY DEF MessagesOf
    <3>. QED  BY <3>1, FS_Subset DEF TalksInv, TalksShape
  <2>. DEFINE f == [m \in D |-> [key |-> m.key, id |-> m.id]]
  <2>2. f \in Surjection(D, MessageRows)
    BY DEF Surjection, MessageRows
  <2>. QED  BY <2>1, <2>2, FS_Surjection
<1>9. \A r, q \in MessageRows : r.id = q.id => r = q
  BY <1>7 DEF TalksInv, WritingFits
<1>10. \A r \in MessageRows : r.key > 0
  BY <1>7 DEF TalksInv, TalksShape, MessageRow
<1>. QED  BY <1>3, <1>4, <1>5, <1>6, <1>7, <1>8, <1>9, <1>10

(* A promise to a reader holds while the rows it is about stay.            *)
LEMMA PromiseKept ==
  ASSUME NEW R, NEW all, NEW still, NEW cursor, NEW listed, Promised(R, all, still, cursor, listed),
         NEW now, NEW left, left \subseteq still, \A r \in all : r.id \in left => r \in now
  PROVE  Promised(R, now, left, cursor, listed)
BY DEF Promised

LEMMA NoneListedYet ==
  ASSUME NEW R, NEW all, NEW still, NEW listed, listed = <<>>, \A x \in still : \E r \in all : r.id = x
  PROVE  Promised(R, all, still, NoCursor, listed)
<1>1. \A x \in still : Cardinality(Entries(listed, x)) = 0
  <2>. TAKE x \in still
  <2>1. Entries(listed, x) = {}
    BY DEF Entries
  <2>. QED  BY <2>1, FS_EmptySet
<1>. QED  BY <1>1 DEF Promised, Behind

LEMMA RowsUnread ==
  ASSUME TalksInv, UNCHANGED <<talks, messages, reader>>
  PROVE  ReaderFits' /\ PagesAreWhole' /\ CountsAreRight'
<1>1. TalkRows' = TalkRows /\ MessageRows' = MessageRows
  BY DEF TalkRows, MessageRows, MessagesOf, RequireOwn, Shown
<1>2. \A c : (Present(c)' <=> Present(c)) /\ (Shown(c)' <=> Shown(c)) /\ MessagesOf(c)' = MessagesOf(c)
  BY DEF Present, Shown, MessagesOf
<1>3. \A x : Times(x)' = Times(x)
  BY DEF Times
<1>4. ReaderFits'
  BY <1>1, <1>2 DEF TalksInv, ReaderFits
<1>5. PagesAreWhole'
  BY <1>3 DEF TalksInv, PagesAreWhole
<1>6. CountsAreRight'
  BY <1>2 DEF TalksInv, CountsAreRight
<1>. QED  BY <1>4, <1>5, <1>6

LEMMA TickTalks == ASSUME TalksInv, Tick PROVE TalksInv'
<1>1. TalksShape'
  <2>1. clock' \in Nat \ {0}
    BY DEF Tick, TalksInv, TalksShape
  <2>. QED  BY <2>1 DEF Tick, TalksInv, TalksShape
<1>2. WritingFits'
  BY DEF Tick, TalksInv, WritingFits, Present
<1>3. UNCHANGED <<talks, messages, reader>>
  BY DEF Tick
<1>. QED  BY <1>1, <1>2, <1>3, RowsUnread DEF TalksInv

LEMMA StampTalks ==
  ASSUME TalksInv, NEW a \in DOMAIN Authors, Stamp(a)
  PROVE  TalksInv'
<1>. DEFINE c == Authors[a]
<1>1. /\ c \in Talks /\ talks[c] \in TalkRow /\ clock \in Nat \ {0}
      /\ writers \in [DOMAIN Authors -> Writer] /\ writers[a] \in Writer
  BY AuthorsWriteInTalks DEF TalksInv, TalksShape
<1>2. PICK w \in Writer : writers' = [writers EXCEPT ![a] = w] /\ (w.at = "insert" => w.key > 0) /\ w.at # "done"
  <2>1. PICK not_found : not_found = "not_found"
    OBVIOUS
  <2>2. [writers[a] EXCEPT !.at = not_found] = [at |-> not_found, key |-> writers[a].key, count |-> writers[a].count]
    BY <1>1 DEF Writer
  <2>3. [writers[a] EXCEPT !.at = not_found] \in Writer
    BY <1>1, <2>1, <2>2 DEF Writer
  <2>4. [at |-> "insert", key |-> clock, count |-> talks[c].count] \in Writer
    BY <1>1 DEF Writer, TalkRow
  <2>5. clock > 0
    BY <1>1
  <2>6. CASE RequireOwn(Owner[c], c)
    <3>1. writers' = [writers EXCEPT ![a] = [at |-> "insert", key |-> clock, count |-> talks[c].count]]
      BY <2>6 DEF Stamp
    <3>. QED  BY <2>4, <2>5, <3>1
  <2>7. CASE ~RequireOwn(Owner[c], c)
    <3>1. writers' = [writers EXCEPT ![a] = [writers[a] EXCEPT !.at = not_found]]
      BY <1>1, <2>1, <2>7 DEF Stamp
    <3>2. [writers[a] EXCEPT !.at = not_found].at # "insert" /\ [writers[a] EXCEPT !.at = not_found].at # "done"
      BY <2>1, <2>2
    <3>. QED  BY <2>3, <3>1, <3>2
  <2>. QED  BY <2>6, <2>7
<1>3. UNCHANGED <<clock, talks, messages, reader>> /\ writers[a].at = "stamp"
  BY DEF Stamp
<1>4. TalksShape'
  BY <1>1, <1>2, <1>3 DEF TalksInv, TalksShape
<1>5. WritingFits'
  <2>1. \A m \in messages : m.id # a /\ m.id \in DOMAIN Authors
    BY <1>3 DEF TalksInv, TalksShape, WritingFits, MessageRow
  <2>2. \A b \in DOMAIN Authors : writers'[b] = IF b = a THEN w ELSE writers[b]
    BY <1>1, <1>2
  <2>. QED  BY <1>2, <1>3, <2>1, <2>2 DEF TalksInv, WritingFits, Present
<1>. QED  BY <1>3, <1>4, <1>5, RowsUnread DEF TalksInv

(* Rows of one conversation change, and those of the others stay.          *)
LEMMA OtherRowsStay ==
  ASSUME TalksInv, NEW c \in Talks, \A d \in Talks : d # c => talks'[d] = talks[d], reader'.of = reader.of
  PROVE  \A r \in TalkRows : r.id # c => r \in TalkRows'
<1>1. \A d \in Talks : d # c /\ RequireOwn(reader.of, d) => RequireOwn(reader.of, d)'
  BY DEF RequireOwn, Shown
<1>. QED  BY <1>1 DEF TalkRows

(* Touched: a list of conversations no longer promises this one.           *)
LEMMA TouchedIsLeftOut ==
  ASSUME TalksInv, NEW c \in Talks, Touched(c)
  PROVE  /\ reader' \in Readers
         /\ reader'.at = reader.at /\ reader'.of = reader.of
         /\ reader'.listed = reader.listed /\ reader'.cursor = reader.cursor
         /\ reader'.still = IF reader.at = "talks" THEN reader.still \ {c} ELSE reader.still
<1>1. reader \in Readers /\ reader.still \ {c} \in SUBSET Nat
  BY DEF TalksInv, TalksShape, Readers
<1>2. CASE reader.at = "talks"
  <2>1. PICK left \in SUBSET Nat : left = reader.still \ {c}
    BY <1>1
  <2>2. reader' = [reader EXCEPT !.still = left]
    BY <1>2, <2>1 DEF Touched
  <2>. QED  BY <1>1, <1>2, <2>1, <2>2 DEF Readers
<1>3. CASE reader.at # "talks"
  BY <1>1, <1>3 DEF Touched
<1>. QED  BY <1>2, <1>3

(* What a change of one conversation does to what is read of others.       *)
LEMMA ReadingGoesOn ==
  ASSUME TalksInv, NEW c \in Talks, \A d \in Talks : d # c => talks'[d] = talks[d],
         reader'.at = reader.at, reader'.of = reader.of, reader'.listed = reader.listed,
         reader'.cursor = reader.cursor, reader'.still \subseteq reader.still,
         reader.at = "talks" => c \notin reader'.still,
         Present(c) => Present(c)', Shown(c)' => Shown(c) \/ ~Present(c),
         messages \subseteq messages'
  PROVE  ReaderFits' /\ PagesAreWhole'
<1>1. ReaderFits /\ PagesAreWhole
  BY DEF TalksInv
<1>2. reader.at = "choose" => reader'.listed = <<>> /\ reader'.cursor = NoCursor /\ reader'.still = {}
  BY <1>1 DEF ReaderFits
<1>3. reader.at = "messages" => reader.of \in Talks /\ Present(reader.of) /\ Present(reader.of)'
  BY <1>1 DEF ReaderFits, Present
<1>4. ASSUME reader.at = "talks"
      PROVE  Promised(Newest, TalkRows', reader'.still, reader'.cursor, reader'.listed)
  <2>1. \A r \in TalkRows : r.id \in reader'.still => r \in TalkRows'
    BY <1>4, OtherRowsStay
  <2>2. Promised(Newest, TalkRows, reader.still, reader.cursor, reader.listed)
    BY <1>1, <1>4 DEF ReaderFits
  <2>3. Promised(Newest, TalkRows', reader'.still, reader.cursor, reader.listed)
    BY <2>1, <2>2, PromiseKept
  <2>. QED  BY <2>3
<1>5. ASSUME reader.at = "messages", Shown(reader.of)'
      PROVE  Promised(Oldest, MessageRows', reader'.still, reader'.cursor, reader'.listed)
  <2>1. Shown(reader.of)
    BY <1>3, <1>5 DEF Shown
  <2>2. \A r \in MessageRows : r.id \in reader'.still => r \in MessageRows'
    BY DEF MessageRows, MessagesOf
  <2>3. Promised(Oldest, MessageRows, reader.still, reader.cursor, reader.listed)
    BY <1>1, <1>5, <2>1 DEF ReaderFits
  <2>4. Promised(Oldest, MessageRows', reader'.still, reader.cursor, reader.listed)
    BY <2>2, <2>3, PromiseKept
  <2>. QED  BY <2>4
<1>6. \A x : Times(x)' = Times(x)
  BY DEF Times
<1>7. PagesAreWhole'
  BY <1>1, <1>6 DEF PagesAreWhole
<1>8. ReaderFits'
  BY <1>2, <1>3, <1>4, <1>5 DEF ReaderFits, Present, Shown
<1>. QED  BY <1>7, <1>8

LEMMA WithState ==
  ASSUME NEW r \in TalkRow, NEW x \in TalkStates
  PROVE  /\ [r EXCEPT !.state = x] = [state |-> x, key |-> r.key, count |-> r.count]
         /\ [r EXCEPT !.state = x] \in TalkRow
BY DEF TalkRow

LEMMA WithKey ==
  ASSUME NEW r \in TalkRow, NEW k \in Nat
  PROVE  [r EXCEPT !.key = k] = [state |-> r.state, key |-> k, count |-> r.count]
BY DEF TalkRow

LEMMA NewTalk ==
  ASSUME TalksInv, NEW c \in Talks, New(c)
  PROVE  TalksInv'
<1>1. PICK live \in TalkStates : live = "live"
  BY DEF TalkStates
<1>2. talks \in [Talks -> TalkRow] /\ talks[c] \in TalkRow /\ clock \in Nat /\ clock > 0 /\ talks[c].state = "none"
  BY DEF TalksInv, TalksShape, New
<1>3. PICK row \in TalkRow : talks' = [talks EXCEPT ![c] = row] /\ row.state = "live" /\ row.key = clock
                             /\ row.count = talks[c].count
  <2>1. [state |-> live, key |-> clock, count |-> talks[c].count] \in TalkRow
    BY <1>2 DEF TalkRow
  <2>2. [[talks[c] EXCEPT !.state = live] EXCEPT !.key = clock]
        = [state |-> live, key |-> clock, count |-> talks[c].count]
    <3>1. [talks[c] EXCEPT !.state = live] = [state |-> live, key |-> talks[c].key, count |-> talks[c].count]
      BY <1>2, WithState
    <3>2. [talks[c] EXCEPT !.state = live] \in TalkRow
      BY <1>2, WithState
    <3>3. [[talks[c] EXCEPT !.state = live] EXCEPT !.key = clock]
          = [state |-> [talks[c] EXCEPT !.state = live].state, key |-> clock,
             count |-> [talks[c] EXCEPT !.state = live].count]
      BY <1>2, <3>2, WithKey
    <3>. QED  BY <3>1, <3>3
  <2>3. talks' = [[talks EXCEPT ![c].state = live] EXCEPT ![c].key = clock]
    BY <1>1 DEF New
  <2>4. PICK first : first = [talks EXCEPT ![c] = [talks[c] EXCEPT !.state = live]]
    OBVIOUS
  <2>5. first[c] = [talks[c] EXCEPT !.state = live]
    BY <1>2, <2>4
  <2>6. talks' = [first EXCEPT ![c] = [first[c] EXCEPT !.key = clock]]
    BY <1>2, <2>3, <2>4
  <2>7. talks' = [first EXCEPT ![c] = [state |-> live, key |-> clock, count |-> talks[c].count]]
    BY <2>2, <2>5, <2>6
  <2>8. PICK row : row = [state |-> live, key |-> clock, count |-> talks[c].count]
    OBVIOUS
  <2>9. talks' = [talks EXCEPT ![c] = row]
    <3>1. talks' = [first EXCEPT ![c] = row]
      BY <2>7, <2>8
    <3>2. PICK one : one = [talks[c] EXCEPT !.state = live]
      OBVIOUS
    <3>3. first = [talks EXCEPT ![c] = one]
      BY <2>4, <3>2
    <3>. QED  BY <1>2, <3>1, <3>3
  <2>. QED  BY <1>1, <2>1, <2>8, <2>9
<1>4. \A d \in Talks : talks'[d] = IF d = c THEN row ELSE talks[d]
  BY <1>2, <1>3
<1>5. UNCHANGED <<clock, messages, writers, reader>>
  BY DEF New
<1>6. TalksShape'
  BY <1>2, <1>3, <1>5 DEF TalksInv, TalksShape
<1>7. WritingFits'
  BY <1>2, <1>3, <1>4, <1>5 DEF TalksInv, WritingFits, Present
<1>8. CountsAreRight'
  <2>1. \A d \in Talks : d # c => MessagesOf(d)' = MessagesOf(d) /\ talks'[d] = talks[d]
    BY <1>4, <1>5 DEF MessagesOf
  <2>2. talks'[c].count = talks[c].count /\ MessagesOf(c)' = MessagesOf(c) /\ talks[c].state # "gone"
    BY <1>2, <1>3, <1>4, <1>5 DEF MessagesOf
  <2>3. \A m \in messages : m.talk \in Talks /\ m.talk # c
    BY <1>2 DEF TalksInv, TalksShape, MessageRow, CountsAreRight, Present
  <2>. QED  BY <1>5, <2>1, <2>2, <2>3 DEF TalksInv, CountsAreRight, Present
<1>9. reader.at = "talks" => c \notin reader.still
  <2>1. \A r \in TalkRows : r.id # c
    BY <1>2 DEF TalkRows, RequireOwn, Shown
  <2>. QED  BY <2>1 DEF TalksInv, ReaderFits, Promised
<1>10. ~Present(c)
  BY <1>2 DEF Present
<1>11. ReaderFits' /\ PagesAreWhole'
  BY <1>4, <1>5, <1>9, <1>10, ReadingGoesOn
<1>. QED  BY <1>6, <1>7, <1>8, <1>11 DEF TalksInv

LEMMA DeleteTalkStep ==
  ASSUME TalksInv, NEW c \in Talks, DeleteTalk(c)
  PROVE  TalksInv'
<1>1. PICK deleted \in TalkStates : deleted = "deleted"
  BY DEF TalkStates
<1>2. talks \in [Talks -> TalkRow] /\ talks[c] \in TalkRow /\ talks[c].state = "live"
  BY DEF TalksInv, TalksShape, DeleteTalk, Shown
<1>3. PICK row \in TalkRow : talks' = [talks EXCEPT ![c] = row] /\ row.state = "deleted" /\ row.key = talks[c].key
                             /\ row.count = talks[c].count
  <2>1. [state |-> deleted, key |-> talks[c].key, count |-> talks[c].count] \in TalkRow
    BY <1>2 DEF TalkRow
  <2>2. [talks[c] EXCEPT !.state = deleted] = [state |-> deleted, key |-> talks[c].key, count |-> talks[c].count]
    BY <1>2 DEF TalkRow
  <2>3. talks' = [talks EXCEPT ![c] = [talks[c] EXCEPT !.state = deleted]]
    BY <1>1, <1>2 DEF DeleteTalk
  <2>. QED  BY <1>1, <2>1, <2>2, <2>3
<1>4. \A d \in Talks : talks'[d] = IF d = c THEN row ELSE talks[d]
  BY <1>2, <1>3
<1>5. UNCHANGED <<clock, messages, writers>>
  BY DEF DeleteTalk
<1>6. /\ reader' \in Readers
      /\ reader'.at = reader.at /\ reader'.of = reader.of
      /\ reader'.listed = reader.listed /\ reader'.cursor = reader.cursor
      /\ reader'.still = IF reader.at = "talks" THEN reader.still \ {c} ELSE reader.still
  BY TouchedIsLeftOut DEF DeleteTalk
<1>7. TalksShape'
  BY <1>2, <1>3, <1>5, <1>6 DEF TalksInv, TalksShape
<1>8. WritingFits'
  BY <1>2, <1>3, <1>4, <1>5 DEF TalksInv, WritingFits, Present
<1>9. CountsAreRight'
  <2>1. \A d \in Talks : MessagesOf(d)' = MessagesOf(d) /\ talks'[d].count = talks[d].count
                         /\ (talks'[d].state = "gone" <=> talks[d].state = "gone")
                         /\ (talks'[d].state = "none" <=> talks[d].state = "none")
    BY <1>2, <1>3, <1>4, <1>5 DEF MessagesOf
  <2>2. \A m \in messages : m.talk \in Talks
    BY DEF TalksInv, TalksShape, MessageRow
  <2>. QED  BY <1>5, <2>1, <2>2 DEF TalksInv, CountsAreRight, Present
<1>10. Present(c)' /\ ~Shown(c)'
  BY <1>3, <1>4 DEF Present, Shown
<1>11. ReaderFits' /\ PagesAreWhole'
  BY <1>4, <1>5, <1>6, <1>10, ReadingGoesOn
<1>. QED  BY <1>7, <1>8, <1>9, <1>11 DEF TalksInv

LEMMA AgeTalkStep ==
  ASSUME TalksInv, AgeTalk
  PROVE  TalksInv'
<1>1. PICK old \in TalkStates : old = "old"
  BY DEF TalkStates
<1>2. PICK c \in Talks : talks[c].state = "deleted" /\ talks' = [talks EXCEPT ![c].state = "old"]
  BY DEF AgeTalk
<1>3. talks \in [Talks -> TalkRow] /\ talks[c] \in TalkRow
  BY DEF TalksInv, TalksShape
<1>4. PICK row \in TalkRow : talks' = [talks EXCEPT ![c] = row] /\ row.state = "old" /\ row.key = talks[c].key
                             /\ row.count = talks[c].count
  <2>1. [state |-> old, key |-> talks[c].key, count |-> talks[c].count] \in TalkRow
    BY <1>3 DEF TalkRow
  <2>2. [talks[c] EXCEPT !.state = old] = [state |-> old, key |-> talks[c].key, count |-> talks[c].count]
    BY <1>3 DEF TalkRow
  <2>3. talks' = [talks EXCEPT ![c] = [talks[c] EXCEPT !.state = old]]
    BY <1>1, <1>2, <1>3
  <2>. QED  BY <1>1, <2>1, <2>2, <2>3
<1>5. \A d \in Talks : talks'[d] = IF d = c THEN row ELSE talks[d]
  BY <1>3, <1>4
<1>6. UNCHANGED <<clock, messages, writers, reader>>
  BY DEF AgeTalk
<1>7. TalksShape'
  BY <1>3, <1>4, <1>6 DEF TalksInv, TalksShape
<1>8. WritingFits'
  BY <1>2, <1>4, <1>5, <1>6 DEF TalksInv, WritingFits, Present
<1>9. CountsAreRight'
  <2>1. \A d \in Talks : MessagesOf(d)' = MessagesOf(d) /\ talks'[d].count = talks[d].count
                         /\ (talks'[d].state = "gone" <=> talks[d].state = "gone")
                         /\ (talks'[d].state = "none" <=> talks[d].state = "none")
    BY <1>2, <1>4, <1>5, <1>6 DEF MessagesOf
  <2>2. \A m \in messages : m.talk \in Talks
    BY DEF TalksInv, TalksShape, MessageRow
  <2>. QED  BY <1>6, <2>1, <2>2 DEF TalksInv, CountsAreRight, Present
<1>10. Present(c)' /\ ~Shown(c)'
  BY <1>4, <1>5 DEF Present, Shown
<1>11. reader.at = "talks" => c \notin reader.still
  <2>1. \A r \in TalkRows : r.id # c
    BY <1>2 DEF TalkRows, RequireOwn, Shown
  <2>. QED  BY <2>1 DEF TalksInv, ReaderFits, Promised
<1>12. ReaderFits' /\ PagesAreWhole'
  BY <1>5, <1>6, <1>10, <1>11, ReadingGoesOn
<1>. QED  BY <1>7, <1>8, <1>9, <1>12 DEF TalksInv

LEMMA InsertStep ==
  ASSUME TalksInv, NEW a \in DOMAIN Authors, Insert(a)
  PROVE  TalksInv'
<1>. DEFINE c == Authors[a]
            m == [talk |-> c, key |-> writers[a].key, id |-> a]
<1>1. /\ c \in Talks /\ a \in Nat /\ talks \in [Talks -> TalkRow] /\ talks[c] \in TalkRow /\ Present(c)
      /\ talks[c].state # "gone" /\ writers[a] \in Writer /\ writers[a].at = "insert" /\ writers[a].key > 0
      /\ writers \in [DOMAIN Authors -> Writer] /\ messages \in SUBSET MessageRow /\ IsFiniteSet(messages)
  BY AuthorsWriteInTalks DEF TalksInv, TalksShape, WritingFits, Insert
<1>2. writers[a].key \in Nat \ {0} /\ CountNow(a) \in Nat /\ CountNow(a) = talks[c].count + 1
  BY <1>1 DEF Writer, TalkRow, CountNow
<1>. HIDE DEF c
<1>3. PICK row \in TalkRow : talks' = [talks EXCEPT ![c] = row] /\ row.state = talks[c].state
                             /\ row.key = writers[a].key /\ row.count = talks[c].count + 1
  <2>1. talks' = [talks EXCEPT ![c].key = writers[a].key, ![c].count = CountNow(a)]
    BY DEF Insert, c
  <2>2. PICK k \in Nat : k = writers[a].key
    BY <1>2
  <2>3. PICK n \in Nat : n = CountNow(a)
    BY <1>2
  <2>4. talks' = [talks EXCEPT ![c].key = k, ![c].count = n]
    BY <2>1, <2>2, <2>3
  <2>5. PICK one \in TalkRow : one = [talks[c] EXCEPT !.key = k]
    BY <1>1 DEF TalkRow
  <2>6. one.state = talks[c].state /\ one.key = k
    BY <1>1, <2>5 DEF TalkRow
  <2>7. PICK two \in TalkRow : two = [one EXCEPT !.count = n]
    BY <2>5 DEF TalkRow
  <2>8. two.state = one.state /\ two.key = one.key /\ two.count = n
    BY <2>5, <2>7 DEF TalkRow
  <2>9. PICK half : half = [talks EXCEPT ![c] = one]
    OBVIOUS
  <2>10. [talks EXCEPT ![c].key = k] = half
    BY <2>5, <2>9
  <2>11. talks' = [half EXCEPT ![c].count = n]
    BY <2>4, <2>10
  <2>12. half[c] = one
    BY <1>1, <2>9
  <2>13. talks' = [half EXCEPT ![c] = two]
    BY <2>7, <2>11, <2>12
  <2>14. talks' = [talks EXCEPT ![c] = two]
    BY <1>1, <2>5, <2>7, <2>9, <2>13
  <2>. QED  BY <1>2, <2>2, <2>3, <2>6, <2>8, <2>14
<1>4. \A d \in Talks : talks'[d] = IF d = c THEN row ELSE talks[d]
  BY <1>1, <1>3
<1>5. m \in MessageRow /\ m.talk = c /\ m.id = a /\ m.key > 0
  BY <1>1, <1>2 DEF MessageRow
<1>6. messages' = messages \union {m} /\ UNCHANGED clock
  BY DEF Insert, c
<1>. HIDE DEF m
<1>7. PICK w \in Writer : writers' = [writers EXCEPT ![a] = w] /\ w.at = "done"
  <2>1. [at |-> "done", key |-> 0, count |-> 0] \in Writer
    BY DEF Writer
  <2>. QED  BY <2>1 DEF Insert
<1>8. \A b \in DOMAIN Authors : writers'[b] = IF b = a THEN w ELSE writers[b]
  BY <1>1, <1>7
<1>9. \A n \in messages : n.id # a /\ n.id \in DOMAIN Authors /\ n.talk \in Talks
  BY <1>1 DEF TalksInv, WritingFits, MessageRow
<1>10. /\ reader' \in Readers
       /\ reader'.at = reader.at /\ reader'.of = reader.of
       /\ reader'.listed = reader.listed /\ reader'.cursor = reader.cursor
       /\ reader'.still = IF reader.at = "talks" THEN reader.still \ {c} ELSE reader.still
  <2>1. Touched(c)
    BY DEF Insert, c
  <2>. QED  BY <1>1, <2>1, TouchedIsLeftOut
<1>11. TalksShape'
  <2>1. IsFiniteSet(messages')
    BY <1>1, <1>6, FS_AddElement
  <2>2. messages' \in SUBSET MessageRow
    BY <1>1, <1>5, <1>6
  <2>3. talks' \in [Talks -> TalkRow] /\ writers' \in [DOMAIN Authors -> Writer]
    BY <1>1, <1>3, <1>7
  <2>. QED  BY <1>6, <1>10, <2>1, <2>2, <2>3 DEF TalksInv, TalksShape
<1>12. WritingFits'
  <2>1. \A d \in Talks : IF talks'[d].state # "none" THEN talks'[d].key > 0 ELSE talks'[d].count = 0
    BY <1>1, <1>2, <1>3, <1>4 DEF TalksInv, WritingFits, Present
  <2>2. \A b \in DOMAIN Authors : writers'[b].at = "insert" => writers'[b].key > 0
    BY <1>7, <1>8 DEF TalksInv, WritingFits
  <2>3. \A n \in messages' : writers'[n.id].at = "done"
    BY <1>5, <1>6, <1>7, <1>8, <1>9 DEF TalksInv, WritingFits
  <2>4. \A n, o \in messages' : n.id = o.id => n = o
    BY <1>5, <1>6, <1>9 DEF TalksInv, WritingFits
  <2>. QED  BY <2>1, <2>2, <2>3, <2>4 DEF WritingFits, Present
<1>13. CountsAreRight'
  <2>1. \A d \in Talks : d # c => MessagesOf(d)' = MessagesOf(d) /\ talks'[d] = talks[d]
    BY <1>4, <1>5, <1>6 DEF MessagesOf
  <2>2. MessagesOf(c)' = MessagesOf(c) \union {m} /\ m \notin MessagesOf(c)
    BY <1>5, <1>6, <1>9 DEF MessagesOf
  <2>3. IsFiniteSet(MessagesOf(c))
    <3>1. MessagesOf(c) \subseteq messages
      BY DEF MessagesOf
    <3>. QED  BY <1>1, <3>1, FS_Subset
  <2>4. Cardinality(MessagesOf(c)') = Cardinality(MessagesOf(c)) + 1
    BY <2>2, <2>3, FS_AddElement
  <2>5. talks'[c] = row
    BY <1>1, <1>4
  <2>6. talks'[c].count = Cardinality(MessagesOf(c)')
    BY <1>1, <1>3, <2>4, <2>5 DEF TalksInv, CountsAreRight
  <2>7. \A d \in Talks : talks'[d].state # "gone" => talks'[d].count = Cardinality(MessagesOf(d)')
    BY <2>1, <2>6 DEF TalksInv, CountsAreRight
  <2>8. \A d \in Talks : talks'[d].state = talks[d].state
    BY <1>3, <1>4
  <2>9. \A n \in messages' : talks'[n.talk].state # "none" /\ talks'[n.talk].state # "gone"
    BY <1>1, <1>5, <1>6, <1>9, <2>8 DEF TalksInv, CountsAreRight, Present
  <2>. QED  BY <2>7, <2>9 DEF CountsAreRight, Present
<1>14. Present(c)' /\ (Shown(c)' => Shown(c))
  BY <1>1, <1>3, <1>4 DEF Present, Shown
<1>15. ReaderFits' /\ PagesAreWhole'
  BY <1>1, <1>4, <1>6, <1>10, <1>14, ReadingGoesOn
<1>. QED  BY <1>11, <1>12, <1>13, <1>15 DEF TalksInv

LEMMA PruneStep ==
  ASSUME TalksInv, Prune
  PROVE  TalksInv'
<1>1. talks \in [Talks -> TalkRow] /\ messages \in SUBSET MessageRow /\ IsFiniteSet(messages)
  BY DEF TalksInv, TalksShape
<1>2. PICK gone \in TalkStates : gone = "gone"
  BY DEF TalkStates
<1>3. \A d \in Prunable : d \in Talks /\ talks[d].state = "old"
  BY DEF Prunable
<1>4. \A d \in Talks : [talks[d] EXCEPT !.state = gone] = [state |-> gone, key |-> talks[d].key, count |-> talks[d].count]
                       /\ [talks[d] EXCEPT !.state = gone] \in TalkRow
  BY <1>1, WithState
<1>5. talks' = [d \in Talks |-> IF d \in Prunable THEN [talks[d] EXCEPT !.state = gone] ELSE talks[d]]
  BY <1>2 DEF Prune
<1>6. /\ talks' \in [Talks -> TalkRow]
      /\ \A d \in Talks : talks'[d] = IF d \in Prunable THEN [talks[d] EXCEPT !.state = gone] ELSE talks[d]
  BY <1>1, <1>4, <1>5
<1>7. \A d \in Talks : /\ d \in Prunable => talks'[d].state = "gone" /\ talks'[d].key = talks[d].key
                                            /\ talks'[d].count = talks[d].count
                       /\ d \notin Prunable => talks'[d] = talks[d]
  BY <1>2, <1>4, <1>6
<1>8. messages' = {m \in messages : m.talk \notin Prunable} /\ UNCHANGED <<clock, writers, reader>>
  BY DEF Prune
<1>9. TalksShape'
  <2>1. messages' \subseteq messages
    BY <1>8
  <2>2. IsFiniteSet(messages') /\ messages' \in SUBSET MessageRow
    BY <1>1, <2>1, FS_Subset
  <2>. QED  BY <1>6, <1>8, <2>2 DEF TalksInv, TalksShape
<1>10. WritingFits'
  <2>1. \A d \in Talks : IF talks'[d].state # "none" THEN talks'[d].key > 0 ELSE talks'[d].count = 0
    BY <1>3, <1>7 DEF TalksInv, WritingFits, Present
  <2>. QED  BY <1>8, <2>1 DEF TalksInv, WritingFits, Present
<1>11. CountsAreRight'
  <2>1. \A d \in Talks : d \notin Prunable => MessagesOf(d)' = MessagesOf(d)
    BY <1>8 DEF MessagesOf
  <2>2. \A d \in Talks : talks'[d].state # "gone" => talks'[d].count = Cardinality(MessagesOf(d)')
    BY <1>7, <2>1 DEF TalksInv, CountsAreRight
  <2>3. \A m \in messages' : m \in messages /\ m.talk \in Talks /\ talks'[m.talk] = talks[m.talk]
    BY <1>1, <1>7, <1>8 DEF MessageRow
  <2>4. \A m \in messages' : talks'[m.talk].state # "none" /\ talks'[m.talk].state # "gone"
    BY <2>3 DEF TalksInv, CountsAreRight, Present
  <2>. QED  BY <2>2, <2>4 DEF CountsAreRight, Present
<1>12. PagesAreWhole'
  <2>1. \A x : Times(x)' = Times(x)
    BY <1>8 DEF Times
  <2>. QED  BY <1>8, <2>1 DEF TalksInv, PagesAreWhole
<1>13. ReaderFits'
  <2>1. ReaderFits
    BY DEF TalksInv
  <2>2. \A d \in Talks : /\ Present(d) => Present(d)'
                         /\ (Shown(d)' <=> Shown(d)) /\ (Shown(d) => d \notin Prunable /\ talks'[d] = talks[d])
    BY <1>3, <1>7 DEF Present, Shown
  <2>3. TalkRows' = TalkRows
    <3>1. \A d \in Talks : RequireOwn(reader.of, d)' <=> RequireOwn(reader.of, d)
      BY <1>8, <2>2 DEF RequireOwn
    <3>2. \A d \in Talks : RequireOwn(reader.of, d) => talks'[d] = talks[d]
      BY <2>2 DEF RequireOwn
    <3>. QED  BY <1>8, <3>1, <3>2 DEF TalkRows
  <2>4. ASSUME reader.at = "messages", Shown(reader.of)'
        PROVE  Promised(Oldest, MessageRows', reader.still, reader.cursor, reader.listed)
    <3>1. reader.of \in Talks /\ Shown(reader.of) /\ reader.of \notin Prunable
      BY <1>8, <2>1, <2>2, <2>4 DEF ReaderFits, Shown
    <3>2. MessagesOf(reader.of)' = MessagesOf(reader.of)
      BY <1>8, <3>1 DEF MessagesOf
    <3>3. MessageRows' = MessageRows
      BY <3>2 DEF MessageRows
    <3>. QED  BY <2>1, <2>4, <3>1, <3>3 DEF ReaderFits
  <2>. QED  BY <1>8, <2>1, <2>2, <2>3, <2>4 DEF ReaderFits, Present, Shown
<1>. QED  BY <1>9, <1>10, <1>11, <1>12, <1>13 DEF TalksInv

(* A step of the reader leaves the rows alone.                             *)
LEMMA ReaderMoves ==
  ASSUME TalksInv, UNCHANGED <<clock, talks, messages, writers>>, reader' \in Readers
  PROVE  TalksShape' /\ WritingFits' /\ CountsAreRight'
<1>1. TalksShape'
  BY DEF TalksInv, TalksShape
<1>2. WritingFits'
  BY DEF TalksInv, WritingFits, Present
<1>3. CountsAreRight'
  BY DEF TalksInv, CountsAreRight, Present, MessagesOf
<1>. QED  BY <1>1, <1>2, <1>3

LEMMA ListTalksStep ==
  ASSUME TalksInv, ListTalks
  PROVE  TalksInv'
<1>1. PICK user \in {Owner[c] : c \in Talks} :
        reader' = [reader EXCEPT !.at = "talks", !.of = user, !.still = {c \in Talks : RequireOwn(user, c)}]
  BY DEF ListTalks
<1>2. reader.at = "choose" /\ UNCHANGED <<clock, talks, messages, writers>> /\ reader \in Readers
      /\ reader.listed = <<>> /\ reader.cursor = NoCursor
  BY DEF ListTalks, TalksInv, TalksShape, ReaderFits
<1>3. PICK still : still = {c \in Talks : RequireOwn(user, c)}
  OBVIOUS
<1>4. still \subseteq Talks /\ still \in SUBSET Nat
  BY <1>3, AuthorsWriteInTalks
<1>5. reader' = [at |-> "talks", of |-> user, listed |-> reader.listed, cursor |-> reader.cursor, still |-> still]
  BY <1>1, <1>2, <1>3 DEF Readers
<1>6. reader' \in Readers
  BY <1>2, <1>4, <1>5 DEF Readers
<1>7. \A x \in still : \E r \in TalkRows' : r.id = x
  <2>. TAKE x \in still
  <2>1. x \in Talks /\ RequireOwn(user, x)
    BY <1>3
  <2>2. RequireOwn(reader.of, x)'
    BY <1>2, <1>5, <2>1 DEF RequireOwn, Shown
  <2>3. [key |-> talks'[x].key, id |-> x] \in TalkRows'
    BY <2>1, <2>2 DEF TalkRows
  <2>. QED  BY <2>3
<1>8. Promised(Newest, TalkRows', still, NoCursor, reader.listed)
  BY <1>2, <1>7, NoneListedYet
<1>9. ReaderFits'
  BY <1>2, <1>5, <1>8 DEF ReaderFits
<1>10. \A x : Times(x)' = 0
  <2>1. reader'.listed = <<>>
    BY <1>2, <1>5
  <2>2. \A x : {i \in 1 .. Len(reader'.listed) : reader'.listed[i] = x} = {}
    BY <2>1
  <2>. QED  BY <2>2, FS_EmptySet DEF Times
<1>11. PagesAreWhole'
  BY <1>2, <1>5, <1>10 DEF PagesAreWhole
<1>. QED  BY <1>2, <1>6, <1>9, <1>11, ReaderMoves DEF TalksInv

LEMMA ListMessagesStep ==
  ASSUME TalksInv, ListMessages
  PROVE  TalksInv'
<1>1. PICK c \in Talks :
        /\ Present(c)
        /\ reader' = IF Shown(c)
                     THEN [reader EXCEPT !.at = "messages", !.of = c, !.still = {m.id : m \in MessagesOf(c)}]
                     ELSE [reader EXCEPT !.at = "not_found"]
  BY DEF ListMessages
<1>2. reader.at = "choose" /\ UNCHANGED <<clock, talks, messages, writers>> /\ reader \in Readers
      /\ reader.listed = <<>> /\ reader.cursor = NoCursor /\ reader.still = {}
  BY DEF ListMessages, TalksInv, TalksShape, ReaderFits
<1>3. PICK still : still = {m.id : m \in MessagesOf(c)}
  OBVIOUS
<1>4. still \in SUBSET Nat
  BY <1>3, AuthorsWriteInTalks DEF MessagesOf, TalksInv, TalksShape, MessageRow
<1>5. CASE Shown(c)
  <2>1. reader' = [at |-> "messages", of |-> c, listed |-> reader.listed, cursor |-> reader.cursor, still |-> still]
    BY <1>1, <1>2, <1>3, <1>5 DEF Readers
  <2>2. reader' \in Readers
    BY <1>2, <1>4, <2>1 DEF Readers
  <2>3. \A x \in still : \E r \in MessageRows' : r.id = x
    <3>. TAKE x \in still
    <3>1. PICK m \in MessagesOf(c) : m.id = x
      BY <1>3
    <3>2. m \in MessagesOf(reader.of)'
      BY <1>2, <2>1, <3>1 DEF MessagesOf
    <3>3. [key |-> m.key, id |-> m.id] \in MessageRows'
      BY <3>2 DEF MessageRows
    <3>. QED  BY <3>1, <3>3
  <2>4. Promised(Oldest, MessageRows', still, NoCursor, reader.listed)
    BY <1>2, <2>3, NoneListedYet
  <2>5. reader'.of \in Talks /\ talks'[reader'.of].state # "none"
    BY <1>1, <1>2, <2>1 DEF Present
  <2>6. ReaderFits'
    BY <1>2, <2>1, <2>4, <2>5 DEF ReaderFits, Present
  <2>7. \A x : Times(x)' = 0
    <3>1. reader'.listed = <<>>
      BY <1>2, <2>1
    <3>2. \A x : {i \in 1 .. Len(reader'.listed) : reader'.listed[i] = x} = {}
      BY <3>1
    <3>. QED  BY <3>2, FS_EmptySet DEF Times
  <2>8. PagesAreWhole'
    BY <2>1, <2>7 DEF PagesAreWhole
  <2>. QED  BY <1>2, <2>2, <2>6, <2>8, ReaderMoves DEF TalksInv
<1>6. CASE ~Shown(c)
  <2>1. reader' = [at |-> "not_found", of |-> reader.of, listed |-> reader.listed, cursor |-> reader.cursor,
                   still |-> reader.still]
    BY <1>1, <1>2, <1>6 DEF Readers
  <2>2. reader' \in Readers
    BY <1>2, <2>1 DEF Readers
  <2>3. ReaderFits'
    BY <2>1 DEF ReaderFits
  <2>4. PagesAreWhole'
    BY <1>2, <2>1 DEF PagesAreWhole
  <2>. QED  BY <1>2, <2>2, <2>3, <2>4, ReaderMoves DEF TalksInv
<1>. QED  BY <1>5, <1>6

LEMMA TurnedReader ==
  ASSUME TalksInv, NEW rows, NEW next \in {"talks", "messages"}, Turn(rows, next),
         NEW last \in ListRow, last = IF PageOf(rows) = <<>> THEN reader.cursor ELSE PageOf(rows)[Len(PageOf(rows))],
         NEW longer \in Seq(Nat), longer = reader.listed \o Ids(PageOf(rows))
  PROVE  /\ reader' \in Readers /\ reader'.of = reader.of /\ reader'.still = reader.still
         /\ reader'.listed = longer /\ reader'.cursor = last
         /\ reader'.at = IF More(rows) THEN next ELSE "done"
<1>1. reader \in Readers
  BY DEF TalksInv, TalksShape
<1>2. PICK at \in {"talks", "messages", "done"} : at = IF More(rows) THEN next ELSE "done"
  OBVIOUS
<1>3. reader' = [reader EXCEPT !.listed = reader.listed \o Ids(PageOf(rows)),
                   !.cursor = IF PageOf(rows) = <<>> THEN reader.cursor ELSE PageOf(rows)[Len(PageOf(rows))],
                   !.at = IF More(rows) THEN next ELSE "done"]
  BY DEF Turn, PageOf, Ids
<1>4. reader' = [reader EXCEPT !.listed = longer, !.cursor = last, !.at = at]
  BY <1>2, <1>3
<1>5. reader' = [at |-> at, of |-> reader.of, listed |-> longer, cursor |-> last, still |-> reader.still]
  BY <1>1, <1>4 DEF Readers
<1>. QED  BY <1>1, <1>2, <1>5 DEF Readers

LEMMA TurnTalksStep ==
  ASSUME TalksInv, TurnTalks
  PROVE  TalksInv'
<1>. DEFINE S == RestOf(Newest, TalkRows, reader.cursor)
<1>1. reader.at = "talks" /\ UNCHANGED <<clock, talks, messages, writers>> /\ Turn(TalkPage, "talks")
  BY DEF TurnTalks
<1>2. /\ reader \in Readers /\ reader.cursor \in ListRow /\ reader.listed \in Seq(Nat)
      /\ Promised(Newest, TalkRows, reader.still, reader.cursor, reader.listed)
  BY <1>1 DEF TalksInv, TalksShape, ReaderFits, Readers
<1>3. /\ TalkRows \in SUBSET ListRow /\ IsFiniteSet(TalkRows)
      /\ \A r, q \in TalkRows : r.id = q.id => r = q
      /\ \A r \in TalkRows : r.key > 0
      /\ \A r \in TalkRows : r.id \in Talks /\ Owner[r.id] = reader.of
  BY RowsAreListRows
<1>4. S \in SUBSET ListRow /\ IsFiniteSet(S)
  <2>1. S \subseteq TalkRows
    BY DEF RestOf
  <2>. QED  BY <1>3, <2>1, FS_Subset
<1>5. S = {r \in TalkRows : reader.cursor = NoCursor \/ Beyond(reader.cursor, r)}
  BY <1>2, <1>3, PairsOfRows DEF RestOf, Beyond
<1>6. TalkPage = First(S, Page + 1, Later)
  BY <1>5 DEF TalkPage
<1>7. Page + 1 \in Nat
  BY ConversationsAssumption
<1>. HIDE DEF S
<1>8. PICK rows : rows = TalkPage
  OBVIOUS
<1>9. Ranked(Newest, S, Page + 1, rows)
  BY <1>4, <1>6, <1>7, <1>8, NewestByRank
<1>10. Ranked(Newest, RestOf(Newest, TalkRows, reader.cursor), Page + 1, rows)
  BY <1>9 DEF S
<1>11. PICK page : page = PageOf(rows)
  OBVIOUS
<1>12. PICK last : last = IF page = <<>> THEN reader.cursor ELSE page[Len(page)]
  OBVIOUS
<1>13. PICK longer : longer = reader.listed \o Ids(page)
  OBVIOUS
<1>14. InOrder(Newest, ListRow)
  BY RowsInOrder
<1>15. Readable(Newest, TalkRows)
  BY <1>3, <1>14 DEF Readable
<1>16. Turned(Newest, TalkRows, reader.cursor, reader.listed, rows, page, last, longer)
  BY <1>11, <1>12, <1>13, <1>10 DEF Turned
<1>17. /\ last \in ListRow /\ longer \in Seq(Nat) /\ Promised(Newest, TalkRows, reader.still, last, longer)
       /\ ~More(rows) => \A x \in reader.still : Cardinality(Entries(longer, x)) = 1
       /\ \A i \in 1 .. Len(longer) :
            (\E j \in 1 .. Len(reader.listed) : longer[i] = reader.listed[j])
            \/ (\E r \in TalkRows : longer[i] = r.id)
  BY <1>2, <1>15, <1>16, PageKeepsPromise
<1>18. /\ reader' \in Readers /\ reader'.of = reader.of /\ reader'.still = reader.still
       /\ reader'.listed = longer /\ reader'.cursor = last
       /\ reader'.at = IF More(rows) THEN "talks" ELSE "done"
  BY <1>1, <1>8, <1>11, <1>12, <1>13, <1>17, TurnedReader
<1>19. TalkRows' = TalkRows
  BY <1>1, <1>18 DEF TalkRows, RequireOwn, Shown
<1>20. ReaderFits'
  BY <1>17, <1>18, <1>19 DEF ReaderFits
<1>21. \A x : Times(x)' = Cardinality(Entries(longer, x))
  BY <1>18 DEF Times, Entries
<1>22. PagesAreWhole'
  <2>1. \A x \in reader.still : Cardinality(Entries(longer, x)) <= 1
    BY <1>17 DEF Promised
  <2>2. \A i \in 1 .. Len(longer) : Owner[longer[i]] = reader.of
    BY <1>1, <1>3, <1>17 DEF TalksInv, PagesAreWhole
  <2>. QED  BY <1>17, <1>18, <1>21, <2>1, <2>2 DEF PagesAreWhole
<1>. QED  BY <1>1, <1>18, <1>20, <1>22, ReaderMoves DEF TalksInv

LEMMA TurnMessagesStep ==
  ASSUME TalksInv, TurnMessages
  PROVE  TalksInv'
<1>. DEFINE S == RestOf(Oldest, MessageRows, reader.cursor)
<1>1. reader.at = "messages" /\ UNCHANGED <<clock, talks, messages, writers>>
  BY DEF TurnMessages
<1>2. /\ reader \in Readers /\ reader.cursor \in ListRow /\ reader.listed \in Seq(Nat)
      /\ reader.of \in Talks /\ Present(reader.of)
  BY <1>1 DEF TalksInv, TalksShape, ReaderFits, Readers
<1>3. CASE ~Shown(reader.of)
  <2>1. PICK not_found : not_found = "not_found"
    OBVIOUS
  <2>2. reader' = [reader EXCEPT !.at = not_found]
    BY <1>3, <2>1 DEF TurnMessages
  <2>3. reader' = [at |-> not_found, of |-> reader.of, listed |-> reader.listed, cursor |-> reader.cursor,
                   still |-> reader.still]
    BY <1>2, <2>2 DEF Readers
  <2>4. reader' \in Readers
    BY <1>2, <2>1, <2>3 DEF Readers
  <2>5. ReaderFits'
    BY <2>1, <2>3 DEF ReaderFits
  <2>6. \A x : Times(x)' = Times(x)
    BY <2>3 DEF Times
  <2>7. PagesAreWhole'
    BY <2>1, <2>3, <2>6 DEF TalksInv, PagesAreWhole
  <2>. QED  BY <1>1, <2>4, <2>5, <2>7, ReaderMoves DEF TalksInv
<1>4. CASE Shown(reader.of)
  <2>1. Turn(MessagePage, "messages")
    BY <1>4 DEF TurnMessages
  <2>2. Promised(Oldest, MessageRows, reader.still, reader.cursor, reader.listed)
    BY <1>1, <1>4 DEF TalksInv, ReaderFits
  <2>3. /\ MessageRows \in SUBSET ListRow /\ IsFiniteSet(MessageRows)
        /\ \A r, q \in MessageRows : r.id = q.id => r = q
        /\ \A r \in MessageRows : r.key > 0
    BY RowsAreListRows
  <2>4. S \in SUBSET ListRow /\ IsFiniteSet(S)
    <3>1. S \subseteq MessageRows
      BY DEF RestOf
    <3>. QED  BY <2>3, <3>1, FS_Subset
  <2>5. S = {r \in MessageRows : reader.cursor = NoCursor \/ Beyond(r, reader.cursor)}
    BY <1>2, <2>3, PairsOfRows DEF RestOf, Beyond
  <2>6. MessagePage = OldestFirst(S, Page + 1)
    BY <2>5 DEF MessagePage, First, OldestFirst, Fewer
  <2>7. Page + 1 \in Nat
    BY ConversationsAssumption
  <2>. HIDE DEF S
  <2>8. PICK rows : rows = MessagePage
    OBVIOUS
  <2>9. Ranked(Oldest, S, Page + 1, rows)
    BY <2>4, <2>6, <2>7, <2>8, OldestByRank
  <2>10. Ranked(Oldest, RestOf(Oldest, MessageRows, reader.cursor), Page + 1, rows)
    BY <2>9 DEF S
  <2>11. PICK page : page = PageOf(rows)
    OBVIOUS
  <2>12. PICK last : last = IF page = <<>> THEN reader.cursor ELSE page[Len(page)]
    OBVIOUS
  <2>13. PICK longer : longer = reader.listed \o Ids(page)
    OBVIOUS
  <2>14. InOrder(Oldest, ListRow)
    BY RowsInOrder
  <2>15. Readable(Oldest, MessageRows)
    BY <2>3, <2>14 DEF Readable
  <2>16. Turned(Oldest, MessageRows, reader.cursor, reader.listed, rows, page, last, longer)
    BY <2>11, <2>12, <2>13, <2>10 DEF Turned
  <2>17. /\ last \in ListRow /\ longer \in Seq(Nat) /\ Promised(Oldest, MessageRows, reader.still, last, longer)
         /\ ~More(rows) => \A x \in reader.still : Cardinality(Entries(longer, x)) = 1
    BY <1>2, <2>2, <2>15, <2>16, PageKeepsPromise
  <2>18. /\ reader' \in Readers /\ reader'.of = reader.of /\ reader'.still = reader.still
         /\ reader'.listed = longer /\ reader'.cursor = last
         /\ reader'.at = IF More(rows) THEN "messages" ELSE "done"
    BY <2>1, <2>8, <2>11, <2>12, <2>13, <2>17, TurnedReader
  <2>19. MessageRows' = MessageRows /\ Present(reader.of)'
    BY <1>1, <1>2, <2>18 DEF MessageRows, MessagesOf, Present
  <2>20. ReaderFits'
    BY <1>1, <1>2, <2>17, <2>18, <2>19 DEF ReaderFits, Present
  <2>21. \A x : Times(x)' = Cardinality(Entries(longer, x))
    BY <2>18 DEF Times, Entries
  <2>22. PagesAreWhole'
    <3>1. \A x \in reader.still : Cardinality(Entries(longer, x)) <= 1
      BY <2>17 DEF Promised
    <3>. QED  BY <2>17, <2>18, <2>21, <3>1 DEF PagesAreWhole
  <2>. QED  BY <1>1, <2>18, <2>20, <2>22, ReaderMoves DEF TalksInv
<1>. QED  BY <1>3, <1>4

LEMMA TalksBegin == ConversationsInit => TalksInv
<1>. SUFFICES ASSUME ConversationsInit PROVE TalksInv
  OBVIOUS
<1>1. /\ clock = 1 /\ messages = {}
      /\ talks = [c \in Talks |-> [state |-> "none", key |-> 0, count |-> 0]]
      /\ writers = [a \in DOMAIN Authors |-> [at |-> "stamp", key |-> 0, count |-> 0]]
      /\ reader = [at |-> "choose", of |-> 0, listed |-> <<>>, cursor |-> NoCursor, still |-> {}]
  BY DEF ConversationsInit, ConversationsBegin
<1>2. TalksShape
  <2>1. NoCursor \in ListRow
    BY DEF NoCursor, ListRow
  <2>2. talks \in [Talks -> TalkRow]
    BY <1>1 DEF TalkRow, TalkStates
  <2>3. writers \in [DOMAIN Authors -> Writer]
    BY <1>1 DEF Writer
  <2>4. reader \in Readers
    BY <1>1, <2>1 DEF Readers
  <2>5. IsFiniteSet(messages)
    BY <1>1, FS_EmptySet
  <2>. QED  BY <1>1, <2>2, <2>3, <2>4, <2>5 DEF TalksShape
<1>3. WritingFits
  BY <1>1 DEF WritingFits, Present
<1>4. ReaderFits
  BY <1>1 DEF ReaderFits
<1>5. PagesAreWhole
  BY <1>1 DEF PagesAreWhole
<1>6. CountsAreRight
  <2>1. \A c \in Talks : MessagesOf(c) = {} /\ talks[c].count = 0
    BY <1>1 DEF MessagesOf
  <2>. QED  BY <1>1, <2>1, FS_EmptySet DEF CountsAreRight
<1>. QED  BY <1>2, <1>3, <1>4, <1>5, <1>6 DEF TalksInv

LEMMA TalksStep ==
  ASSUME TalksInv, [ConversationsNext]_conversationsVars
  PROVE  TalksInv'
<1>1. CASE Tick
  BY <1>1, TickTalks
<1>2. CASE \E c \in Talks : New(c)
  BY <1>2, NewTalk
<1>3. CASE \E c \in Talks : DeleteTalk(c)
  BY <1>3, DeleteTalkStep
<1>4. CASE \E a \in DOMAIN Authors : Stamp(a)
  BY <1>4, StampTalks
<1>5. CASE \E a \in DOMAIN Authors : Insert(a)
  BY <1>5, InsertStep
<1>6. CASE AgeTalk
  BY <1>6, AgeTalkStep
<1>7. CASE Prune
  BY <1>7, PruneStep
<1>8. CASE ListTalks
  BY <1>8, ListTalksStep
<1>9. CASE ListMessages
  BY <1>9, ListMessagesStep
<1>10. CASE TurnTalks
  BY <1>10, TurnTalksStep
<1>11. CASE TurnMessages
  BY <1>11, TurnMessagesStep
<1>12. CASE UNCHANGED conversationsVars
  <2>1. UNCHANGED <<clock, talks, messages, writers, reader>>
    BY <1>12 DEF conversationsVars
  <2>2. reader' \in Readers
    BY <2>1 DEF TalksInv, TalksShape
  <2>. QED  BY <2>1, <2>2, ReaderMoves, RowsUnread DEF TalksInv
<1>. QED
  BY <1>1, <1>2, <1>3, <1>4, <1>5, <1>6, <1>7, <1>8, <1>9, <1>10, <1>11, <1>12 DEF ConversationsNext

(* page_for_user, page_for_conversation, split_page and append: whatever   *)
(* is written and deleted between two pages, what was there and was left   *)
(* alone is listed once, nobody sees the conversations of somebody else,   *)
(* and a conversation counts its messages.                                 *)
THEOREM ListsHold == ConversationsSpec => []ListsAreTrue
<1>1. TalksInv => ListsAreTrue
  BY DEF TalksInv, ListsAreTrue
<1>. QED  BY <1>1, TalksBegin, TalksStep, PTL DEF ConversationsSpec

-----------------------------------------------------------------------------
(***************************************************************************)
(* Uploads and purges: the values of the variables.                        *)
(***************************************************************************)
UploadStates == UploadEnds \union {"check", "find", "put", "create", "discard"}
Given == UNION {{d[u].content : u \in Uploads} : d \in Deliveries}
Request == [at : UploadStates, to : Shelves, content : Given, end : {"failed", "conflict"},
            hurt : BOOLEAN, unsure : BOOLEAN, twin : BOOLEAN]
LibraryShape ==
  /\ shelf \in [Shelves -> Lifetimes] /\ docs \in [Uploads -> Lifetimes \union {"none"}]
  /\ objects \in SUBSET Uploads /\ mishaps \in Nat /\ upload \in [Uploads -> Request]
  /\ sweep \in [at : {"idle", "objects", "rows"}, targets : SUBSET Uploads]

(* A row is what a finished request leaves, or one that lost the answer to *)
(* its COMMIT; it keeps its knowledge base, and is never written before    *)
(* its object.                                                             *)
NotYet == {"check", "find", "put", "create"}
RowsFit ==
  \A d \in Uploads :
    /\ docs[d] # "none" <=> upload[d].at = "done" \/ upload[d].unsure
    /\ upload[d].unsure => upload[d].at \in {"discard", "failed", "lost"}
    /\ upload[d].at \in NotYet \/ upload[d].unsure => upload[d].end = "failed"
    /\ Row(d) => shelf[Target(d)] # "gone"
    /\ AtUpload(d, "create") => d \in objects

(* What the purge has in hand stays purgeable, and its objects are gone    *)
(* when its rows go, or their deletion has failed.                         *)
SweepFits ==
  /\ sweep.at # "idle" => \A d \in sweep.targets : Purgeable(d)
  /\ sweep.at = "rows" => \A d \in sweep.targets : d \in objects => upload[d].hurt
LibraryInv == LibraryShape /\ RowsFit /\ SweepFits /\ StoresAgree

(* A step of a request changes where it is, and what it has noted.         *)
UploadMoves(u, at) ==
  /\ upload' \in [Uploads -> Request]
  /\ \A d \in Uploads : upload'[d].to = upload[d].to /\ upload'[d].content = upload[d].content
  /\ \A d \in Uploads : d # u => /\ upload'[d].at = upload[d].at /\ upload'[d].hurt = upload[d].hurt
                                 /\ upload'[d].unsure = upload[d].unsure /\ upload'[d].end = upload[d].end
  /\ upload'[u].at = at /\ (upload[u].hurt => upload'[u].hurt)
Certain(u) == upload'[u].unsure = upload[u].unsure /\ upload'[u].end = upload[u].end

LEMMA StepMoves ==
  ASSUME upload \in [Uploads -> Request], NEW u \in Uploads, NEW at \in UploadStates, Step(u, at)
  PROVE  UploadMoves(u, at) /\ Certain(u)
<1>1. upload[u] \in Request
  OBVIOUS
<1>2. PICK r \in Request : r = [upload[u] EXCEPT !.at = at]
  BY <1>1 DEF Request
<1>3. /\ r.at = at /\ r.to = upload[u].to /\ r.content = upload[u].content /\ r.hurt = upload[u].hurt
      /\ r.unsure = upload[u].unsure /\ r.end = upload[u].end
  BY <1>1, <1>2 DEF Request
<1>4. upload' = [upload EXCEPT ![u] = r]
  BY <1>2 DEF Step
<1>. QED  BY <1>2, <1>3, <1>4 DEF UploadMoves, Certain

LEMMA HurtMoves ==
  ASSUME upload \in [Uploads -> Request], mishaps \in Nat,
         NEW u \in Uploads, NEW at \in UploadStates, Hurt(u, at)
  PROVE  UploadMoves(u, at) /\ Certain(u) /\ upload'[u].hurt /\ mishaps' \in Nat
<1>1. upload[u] \in Request
  OBVIOUS
<1>2. PICK one \in Request : one = [upload[u] EXCEPT !.at = at]
  BY <1>1 DEF Request
<1>3. /\ one.at = at /\ one.to = upload[u].to /\ one.content = upload[u].content
      /\ one.unsure = upload[u].unsure /\ one.end = upload[u].end
  BY <1>1, <1>2 DEF Request
<1>4. PICK yes \in BOOLEAN : yes
  OBVIOUS
<1>5. PICK two \in Request : two = [one EXCEPT !.hurt = yes]
  BY <1>2, <1>4 DEF Request
<1>6. /\ two.at = one.at /\ two.to = one.to /\ two.content = one.content /\ two.hurt
      /\ two.unsure = one.unsure /\ two.end = one.end
  BY <1>2, <1>4, <1>5 DEF Request
<1>7. PICK half : half = [upload EXCEPT ![u] = one]
  OBVIOUS
<1>8. [upload EXCEPT ![u].at = at] = half
  BY <1>2, <1>7
<1>9. upload' = [half EXCEPT ![u].hurt = yes]
  BY <1>4, <1>8 DEF Hurt
<1>10. half[u] = one
  BY <1>1, <1>7
<1>11. upload' = [half EXCEPT ![u] = two]
  BY <1>5, <1>9, <1>10
<1>12. upload' = [upload EXCEPT ![u] = two]
  BY <1>1, <1>2, <1>5, <1>7, <1>11
<1>13. mishaps' \in Nat
  BY DEF Hurt
<1>. QED  BY <1>1, <1>3, <1>5, <1>6, <1>12, <1>13 DEF UploadMoves, Certain

Noted(u, at, twin) == upload' = [upload EXCEPT ![u].at = at, ![u].twin = twin]
LEMMA NotedMoves ==
  ASSUME upload \in [Uploads -> Request], NEW u \in Uploads, NEW at \in UploadStates,
         NEW twin \in BOOLEAN, Noted(u, at, twin)
  PROVE  UploadMoves(u, at) /\ Certain(u)
<1>1. upload[u] \in Request
  OBVIOUS
<1>2. PICK one \in Request : one = [upload[u] EXCEPT !.at = at]
  BY <1>1 DEF Request
<1>3. /\ one.at = at /\ one.to = upload[u].to /\ one.content = upload[u].content /\ one.hurt = upload[u].hurt
      /\ one.unsure = upload[u].unsure /\ one.end = upload[u].end
  BY <1>1, <1>2 DEF Request
<1>4. PICK two \in Request : two = [one EXCEPT !.twin = twin]
  BY <1>2 DEF Request
<1>5. /\ two.at = one.at /\ two.to = one.to /\ two.content = one.content /\ two.hurt = one.hurt
      /\ two.unsure = one.unsure /\ two.end = one.end
  BY <1>2, <1>4 DEF Request
<1>6. PICK half : half = [upload EXCEPT ![u] = one]
  OBVIOUS
<1>7. [upload EXCEPT ![u].at = at] = half
  BY <1>2, <1>6
<1>8. upload' = [half EXCEPT ![u].twin = twin]
  BY <1>7 DEF Noted
<1>9. half[u] = one
  BY <1>1, <1>6
<1>10. upload' = [half EXCEPT ![u] = two]
  BY <1>4, <1>8, <1>9
<1>11. upload' = [upload EXCEPT ![u] = two]
  BY <1>1, <1>2, <1>4, <1>6, <1>10
<1>. QED  BY <1>1, <1>3, <1>4, <1>5, <1>11 DEF UploadMoves, Certain

Refused(u, at, end, twin) == upload' = [upload EXCEPT ![u].at = at, ![u].end = end, ![u].twin = twin]
LEMMA RefusedMoves ==
  ASSUME upload \in [Uploads -> Request], NEW u \in Uploads, NEW at \in UploadStates,
         NEW end \in {"failed", "conflict"}, NEW twin \in BOOLEAN, Refused(u, at, end, twin)
  PROVE  UploadMoves(u, at) /\ upload'[u].unsure = upload[u].unsure
<1>1. upload[u] \in Request
  OBVIOUS
<1>2. PICK one \in Request : one = [upload[u] EXCEPT !.at = at]
  BY <1>1 DEF Request
<1>3. /\ one.at = at /\ one.to = upload[u].to /\ one.content = upload[u].content /\ one.hurt = upload[u].hurt
      /\ one.unsure = upload[u].unsure
  BY <1>1, <1>2 DEF Request
<1>4. PICK two \in Request : two = [one EXCEPT !.end = end]
  BY <1>2 DEF Request
<1>5. /\ two.at = one.at /\ two.to = one.to /\ two.content = one.content /\ two.hurt = one.hurt
      /\ two.unsure = one.unsure
  BY <1>2, <1>4 DEF Request
<1>6. PICK three \in Request : three = [two EXCEPT !.twin = twin]
  BY <1>4 DEF Request
<1>7. /\ three.at = two.at /\ three.to = two.to /\ three.content = two.content /\ three.hurt = two.hurt
      /\ three.unsure = two.unsure
  BY <1>4, <1>6 DEF Request
<1>8. PICK half : half = [upload EXCEPT ![u] = one]
  OBVIOUS
<1>9. [upload EXCEPT ![u].at = at] = half
  BY <1>2, <1>8
<1>10. half[u] = one
  BY <1>1, <1>8
<1>11. PICK most : most = [half EXCEPT ![u] = two]
  OBVIOUS
<1>12. [half EXCEPT ![u].end = end] = most
  BY <1>4, <1>10, <1>11
<1>13. upload' = [most EXCEPT ![u].twin = twin]
  BY <1>9, <1>12 DEF Refused
<1>14. most[u] = two
  BY <1>1, <1>8, <1>11
<1>15. upload' = [most EXCEPT ![u] = three]
  BY <1>6, <1>13, <1>14
<1>16. upload' = [upload EXCEPT ![u] = three]
  BY <1>1, <1>2, <1>4, <1>6, <1>8, <1>11, <1>15
<1>. QED  BY <1>1, <1>3, <1>5, <1>6, <1>7, <1>16 DEF UploadMoves

Unsure(u, at, yes) == upload' = [upload EXCEPT ![u].at = at, ![u].unsure = yes]
LEMMA UnsureMoves ==
  ASSUME upload \in [Uploads -> Request], NEW u \in Uploads, NEW at \in UploadStates,
         NEW yes \in BOOLEAN, Unsure(u, at, yes)
  PROVE  UploadMoves(u, at) /\ upload'[u].unsure = yes /\ upload'[u].end = upload[u].end
<1>1. upload[u] \in Request
  OBVIOUS
<1>2. PICK one \in Request : one = [upload[u] EXCEPT !.at = at]
  BY <1>1 DEF Request
<1>3. /\ one.at = at /\ one.to = upload[u].to /\ one.content = upload[u].content /\ one.hurt = upload[u].hurt
      /\ one.end = upload[u].end
  BY <1>1, <1>2 DEF Request
<1>4. PICK two \in Request : two = [one EXCEPT !.unsure = yes]
  BY <1>2 DEF Request
<1>5. /\ two.at = one.at /\ two.to = one.to /\ two.content = one.content /\ two.hurt = one.hurt
      /\ two.unsure = yes /\ two.end = one.end
  BY <1>2, <1>4 DEF Request
<1>6. PICK half : half = [upload EXCEPT ![u] = one]
  OBVIOUS
<1>7. [upload EXCEPT ![u].at = at] = half
  BY <1>2, <1>6
<1>8. upload' = [half EXCEPT ![u].unsure = yes]
  BY <1>7 DEF Unsure
<1>9. half[u] = one
  BY <1>1, <1>6
<1>10. upload' = [half EXCEPT ![u] = two]
  BY <1>4, <1>8, <1>9
<1>11. upload' = [upload EXCEPT ![u] = two]
  BY <1>1, <1>2, <1>4, <1>6, <1>10
<1>. QED  BY <1>1, <1>3, <1>4, <1>5, <1>11 DEF UploadMoves

(* What a step of a request that creates no row may do to the objects.     *)
LEMMA RequestStep ==
  ASSUME LibraryInv, NEW u \in Uploads, NEW at \in UploadStates \ {"done"}, upload[u].at # "done", UploadMoves(u, at),
         upload'[u].unsure = upload[u].unsure, upload[u].unsure => at \in {"failed", "lost"},
         at \in NotYet \/ upload[u].unsure => upload'[u].end = "failed",
         UNCHANGED <<shelf, docs, sweep>>, mishaps' \in Nat,
         objects' \subseteq objects \union {u}, objects \ {u} \subseteq objects',
         at = "create" => u \in objects',
         u \in objects' => at \in {"create", "discard"} \/ upload'[u].hurt
  PROVE  LibraryInv'
<1>1. LibraryShape'
  BY DEF LibraryInv, LibraryShape, UploadMoves
<1>2. docs[u] # "none" <=> upload[u].unsure
  BY DEF LibraryInv, RowsFit
<1>3. \A d \in Uploads : Target(d)' = Target(d) /\ Content(d)' = Content(d) /\ (Row(d)' <=> Row(d))
                         /\ docs'[d] = docs[d] /\ shelf'[Target(d)] = shelf[Target(d)]
  BY DEF UploadMoves, Target, Content, Row
<1>4. \A d \in Uploads : d # u => /\ upload'[d].at = upload[d].at /\ upload'[d].hurt = upload[d].hurt
                                  /\ upload'[d].unsure = upload[d].unsure /\ upload'[d].end = upload[d].end
                                  /\ (d \in objects' <=> d \in objects)
  BY DEF UploadMoves
<1>5. upload'[u].at = at /\ (Row(u) => upload[u].unsure)
  BY <1>2 DEF UploadMoves, Row
<1>6. RowsFit'
  <2>. SUFFICES ASSUME NEW d \in Uploads
                PROVE  /\ docs'[d] # "none" <=> upload'[d].at = "done" \/ upload'[d].unsure
                       /\ upload'[d].unsure => upload'[d].at \in {"discard", "failed", "lost"}
                       /\ upload'[d].at \in NotYet \/ upload'[d].unsure => upload'[d].end = "failed"
                       /\ Row(d)' => shelf'[Target(d)'] # "gone"
                       /\ upload'[d].at = "create" => d \in objects'
    BY DEF RowsFit, AtUpload
  <2>1. /\ docs[d] # "none" <=> upload[d].at = "done" \/ upload[d].unsure
        /\ upload[d].unsure => upload[d].at \in {"discard", "failed", "lost"}
        /\ upload[d].at \in NotYet \/ upload[d].unsure => upload[d].end = "failed"
        /\ Row(d) => shelf[Target(d)] # "gone"
        /\ upload[d].at = "create" => d \in objects
    BY DEF LibraryInv, RowsFit, AtUpload
  <2>2. CASE d = u
    BY <1>2, <1>3, <1>5, <2>1, <2>2
  <2>3. CASE d # u
    BY <1>3, <1>4, <2>1, <2>3
  <2>. QED  BY <2>2, <2>3
<1>7. u \in sweep.targets /\ sweep.at # "idle" => (u \in objects' => upload'[u].hurt)
  BY <1>5 DEF LibraryInv, SweepFits, Purgeable
<1>8. SweepFits'
  <2>1. sweep.targets \subseteq Uploads
    BY DEF LibraryInv, LibraryShape
  <2>2. \A d \in Uploads : Purgeable(d) => Purgeable(d)'
    BY <1>3 DEF Purgeable
  <2>. QED  BY <1>4, <1>7, <2>1, <2>2 DEF LibraryInv, SweepFits
<1>9. StoresAgree'
  <2>. SUFFICES ASSUME NEW d \in Uploads
                PROVE  /\ Row(d)' /\ docs'[d] # "old" /\ shelf'[Target(d)'] # "old" => d \in objects' \/ upload'[d].unsure
                       /\ d \in objects' => \/ Row(d)' \/ upload'[d].at = "create"
                                            \/ upload'[d].at = "discard" \/ upload'[d].hurt
                       /\ upload'[d].at \in {"refused", "not_found", "conflict"} => ~Row(d)'
                       /\ docs'[d] = "live" => \A e \in Twins(d)' \ {d} : docs'[e] # "live"
    BY DEF StoresAgree, AtUpload
  <2>1. /\ Row(d) /\ docs[d] # "old" /\ shelf[Target(d)] # "old" => d \in objects \/ upload[d].unsure
        /\ d \in objects => \/ Row(d) \/ upload[d].at = "create" \/ upload[d].at = "discard" \/ upload[d].hurt
        /\ upload[d].at \in {"refused", "not_found", "conflict"} => ~Row(d)
        /\ docs[d] = "live" => \A e \in Twins(d) \ {d} : docs[e] # "live"
    BY DEF LibraryInv, StoresAgree, AtUpload
  <2>2. Twins(d)' = Twins(d)
    BY <1>3 DEF Twins
  <2>3. CASE d = u
    BY <1>2, <1>3, <1>5, <2>1, <2>2, <2>3
  <2>4. CASE d # u
    BY <1>3, <1>4, <2>1, <2>2, <2>4
  <2>. QED  BY <2>3, <2>4
<1>. QED  BY <1>1, <1>6, <1>8, <1>9 DEF LibraryInv

LEMMA UploadSteps ==
  ASSUME LibraryInv, NEW u \in Uploads,
         Check(u) \/ Find(u) \/ Put(u) \/ PutFails(u) \/ Discard(u) \/ Lose(u)
  PROVE  LibraryInv'
<1>1. /\ upload \in [Uploads -> Request] /\ mishaps \in Nat /\ objects \in SUBSET Uploads
      /\ docs[u] # "none" <=> upload[u].at = "done" \/ upload[u].unsure
      /\ upload[u].unsure => upload[u].at \in {"discard", "failed", "lost"}
      /\ upload[u].at \in NotYet \/ upload[u].unsure => upload[u].end = "failed"
      /\ AtUpload(u, "create") => u \in objects
      /\ u \in objects => Row(u) \/ AtUpload(u, "create") \/ AtUpload(u, "discard") \/ upload[u].hurt
  BY DEF LibraryInv, LibraryShape, RowsFit, StoresAgree
<1>2. upload[u].at \in NotYet => ~Row(u) /\ ~upload[u].unsure /\ upload[u].end = "failed"
  BY <1>1 DEF Row, NotYet
<1>3. CASE Check(u)
  <2>1. PICK at \in {"find", "refused"} : Step(u, at)
    BY <1>3 DEF Check
  <2>2. at \in UploadStates \ {"done"} /\ at # "create" /\ upload[u].at = "check" /\ upload[u].at \in NotYet
    BY <1>3 DEF Check, AtUpload, UploadStates, UploadEnds, NotYet
  <2>3. UploadMoves(u, at) /\ Certain(u)
    BY <1>1, <2>1, <2>2, StepMoves
  <2>4. u \in objects => upload'[u].hurt
    BY <1>1, <1>2, <2>2, <2>3 DEF UploadMoves, AtUpload
  <2>5. UNCHANGED <<shelf, docs, objects, sweep, mishaps>>
    BY <1>3 DEF Check
  <2>. QED  BY <1>1, <1>2, <2>2, <2>3, <2>4, <2>5, RequestStep DEF Certain
<1>4. CASE Find(u)
  <2>1. PICK at \in {"not_found", "conflict", "put"}, twin \in BOOLEAN : Noted(u, at, twin)
    BY <1>4 DEF Find, Noted, Visible
  <2>2. at \in UploadStates \ {"done"} /\ at # "create" /\ upload[u].at = "find" /\ upload[u].at \in NotYet
    BY <1>4 DEF Find, AtUpload, UploadStates, UploadEnds, NotYet
  <2>3. UploadMoves(u, at) /\ Certain(u)
    BY <1>1, <2>1, <2>2, NotedMoves
  <2>4. u \in objects => upload'[u].hurt
    BY <1>1, <1>2, <2>2, <2>3 DEF UploadMoves, AtUpload
  <2>5. UNCHANGED <<shelf, docs, objects, sweep, mishaps>>
    BY <1>4 DEF Find
  <2>. QED  BY <1>1, <1>2, <2>2, <2>3, <2>4, <2>5, RequestStep DEF Certain
<1>5. CASE Put(u)
  <2>1. PICK at \in {"create"} : Step(u, at)
    BY <1>5 DEF Put
  <2>2. at \in UploadStates \ {"done"} /\ upload[u].at = "put" /\ upload[u].at \in NotYet
    BY <1>5 DEF Put, AtUpload, UploadStates, NotYet
  <2>3. UploadMoves(u, at) /\ Certain(u)
    BY <1>1, <2>1, <2>2, StepMoves
  <2>4. UNCHANGED <<shelf, docs, sweep, mishaps>> /\ objects' = objects \union {u}
    BY <1>5 DEF Put
  <2>. QED  BY <1>1, <1>2, <2>2, <2>3, <2>4, RequestStep DEF Certain
<1>6. CASE PutFails(u)
  <2>1. PICK at \in {"failed"} : Hurt(u, at)
    BY <1>6 DEF PutFails
  <2>2. at \in UploadStates \ {"done"} /\ at # "create" /\ upload[u].at = "put" /\ upload[u].at \in NotYet
    BY <1>6 DEF PutFails, AtUpload, UploadStates, UploadEnds, NotYet
  <2>3. UploadMoves(u, at) /\ Certain(u) /\ upload'[u].hurt /\ mishaps' \in Nat
    BY <1>1, <2>1, <2>2, HurtMoves
  <2>4. UNCHANGED <<shelf, docs, sweep>> /\ objects' \in {objects, objects \union {u}}
    BY <1>6 DEF PutFails
  <2>. QED  BY <1>1, <1>2, <2>2, <2>3, <2>4, RequestStep DEF Certain
<1>7. CASE Discard(u)
  <2>1. UNCHANGED <<shelf, docs, sweep>> /\ upload[u].at = "discard"
    BY <1>7 DEF Discard, AtUpload
  <2>2. PICK at \in {"conflict", "failed"} : at = upload[u].end
    BY <1>1 DEF Request
  <2>3. at \in UploadStates \ {"done"} /\ at \notin NotYet /\ (upload[u].unsure => at \in {"failed", "lost"})
    BY <1>1, <2>2 DEF UploadStates, UploadEnds, NotYet
  <2>4. CASE objects' = TakenBack(u) /\ Step(u, upload[u].end) /\ UNCHANGED mishaps
    <3>1. UploadMoves(u, at) /\ Certain(u)
      BY <1>1, <2>2, <2>3, <2>4, StepMoves
    <3>2. objects' = objects \ {u} /\ mishaps' = mishaps
      BY <2>4 DEF TakenBack
    <3>3. at # "create" /\ u \notin objects'
      BY <2>3, <3>2 DEF NotYet
    <3>. QED  BY <1>1, <2>1, <2>3, <3>1, <3>2, <3>3, RequestStep DEF Certain
  <2>5. CASE Hurt(u, upload[u].end) /\ UNCHANGED objects
    <3>1. UploadMoves(u, at) /\ Certain(u) /\ upload'[u].hurt /\ mishaps' \in Nat
      BY <1>1, <2>2, <2>3, <2>5, HurtMoves
    <3>2. at # "create"
      BY <2>3 DEF NotYet
    <3>. QED  BY <1>1, <2>1, <2>3, <2>5, <3>1, <3>2, RequestStep DEF Certain
  <2>. QED  BY <1>7, <2>4, <2>5 DEF Discard
<1>8. CASE Lose(u)
  <2>1. PICK at \in {"lost"} : Hurt(u, at)
    BY <1>8 DEF Lose
  <2>2. /\ at \in UploadStates \ {"done"} /\ at # "create" /\ upload[u].at # "done" /\ at \notin NotYet
        /\ (upload[u].unsure => at \in {"failed", "lost"})
    BY <1>8, <2>1 DEF Lose, AtUpload, UploadStates, UploadEnds, NotYet
  <2>3. UploadMoves(u, at) /\ Certain(u) /\ upload'[u].hurt /\ mishaps' \in Nat
    BY <1>1, <2>1, <2>2, HurtMoves
  <2>4. UNCHANGED <<shelf, docs, objects, sweep>>
    BY <1>8 DEF Lose
  <2>. QED  BY <1>1, <1>2, <2>2, <2>3, <2>4, RequestStep DEF Certain
<1>. QED  BY <1>3, <1>4, <1>5, <1>6, <1>7, <1>8

(* The row of a request, whether the answer to its COMMIT arrives or not.  *)
LEMMA NewRow ==
  ASSUME LibraryInv, NEW u \in Uploads, AtUpload(u, "create"), ~Taken(u), docs' = Created(u),
         UNCHANGED <<shelf, objects, sweep>>, mishaps' \in Nat,
         NEW at \in {"done", "discard"}, UploadMoves(u, at), upload'[u].end = upload[u].end,
         upload'[u].unsure <=> at = "discard"
  PROVE  LibraryInv'
<1>1. /\ upload \in [Uploads -> Request] /\ mishaps \in Nat /\ objects \in SUBSET Uploads
      /\ docs \in [Uploads -> Lifetimes \union {"none"}] /\ u \in objects
      /\ UNCHANGED shelf /\ UNCHANGED objects /\ UNCHANGED sweep /\ upload[u].at = "create" /\ docs[u] = "none"
      /\ upload'[u].end = "failed"
  BY DEF LibraryInv, LibraryShape, RowsFit, AtUpload, NotYet
<1>2. UploadMoves(u, at)
  OBVIOUS
<1>3. PICK live \in Lifetimes : live = "live"
  BY DEF Lifetimes
<1>4. docs' \in [Uploads -> Lifetimes \union {"none"}] /\ \A d \in Uploads : docs'[d] = IF d = u THEN live ELSE docs[d]
  BY <1>1, <1>3 DEF Created
<1>5. \A d \in Uploads : /\ Target(d)' = Target(d) /\ Content(d)' = Content(d) /\ Twins(d)' = Twins(d)
                         /\ shelf'[Target(d)] = shelf[Target(d)]
  BY <1>1, <1>2 DEF UploadMoves, Target, Content, Twins
<1>6. \A d \in Uploads : d # u => (Row(d)' <=> Row(d))
  BY <1>4 DEF Row
<1>7. Row(u)' /\ ~Row(u)
  BY <1>1, <1>3, <1>4 DEF Row
<1>8. shelf[Target(u)] # "gone" /\ \A d \in Twins(u) : ~Row(d)
  BY <1>2 DEF Taken
<1>9. \A d \in Uploads : d # u => /\ upload'[d].at = upload[d].at /\ upload'[d].hurt = upload[d].hurt
                                  /\ upload'[d].unsure = upload[d].unsure /\ upload'[d].end = upload[d].end
  BY <1>2 DEF UploadMoves
<1>10. upload'[u].at = at /\ at \notin NotYet \union {"refused", "not_found", "conflict"} /\ (upload[u].hurt => upload'[u].hurt)
  BY <1>1, <1>2 DEF UploadMoves, NotYet
<1>11. LibraryShape'
  BY <1>1, <1>2, <1>4 DEF LibraryInv, LibraryShape, UploadMoves
<1>12. RowsFit'
  <2>. SUFFICES ASSUME NEW d \in Uploads
                PROVE  /\ docs'[d] # "none" <=> upload'[d].at = "done" \/ upload'[d].unsure
                       /\ upload'[d].unsure => upload'[d].at \in {"discard", "failed", "lost"}
                       /\ upload'[d].at \in NotYet \/ upload'[d].unsure => upload'[d].end = "failed"
                       /\ Row(d)' => shelf'[Target(d)'] # "gone"
                       /\ upload'[d].at = "create" => d \in objects'
    BY DEF RowsFit, AtUpload
  <2>1. /\ docs[d] # "none" <=> upload[d].at = "done" \/ upload[d].unsure
        /\ upload[d].unsure => upload[d].at \in {"discard", "failed", "lost"}
        /\ upload[d].at \in NotYet \/ upload[d].unsure => upload[d].end = "failed"
        /\ Row(d) => shelf[Target(d)] # "gone"
        /\ upload[d].at = "create" => d \in objects
    BY DEF LibraryInv, RowsFit, AtUpload
  <2>2. CASE d = u
    <3>1. docs'[u] # "none" /\ upload'[u].at \in {"done", "discard"} /\ upload'[u].at # "create"
      BY <1>3, <1>4, <1>10 DEF NotYet, Lifetimes
    <3>2. upload'[u].unsure <=> upload'[u].at = "discard"
      BY <1>10
    <3>3. shelf'[Target(u)'] # "gone"
      BY <1>5, <1>8
    <3>. QED  BY <1>1, <2>2, <3>1, <3>2, <3>3
  <2>3. CASE d # u
    BY <1>1, <1>4, <1>5, <1>6, <1>9, <2>1, <2>3
  <2>. QED  BY <2>2, <2>3
<1>13. SweepFits'
  <2>1. sweep.targets \subseteq Uploads
    BY DEF LibraryInv, LibraryShape
  <2>2. \A d \in Uploads : Purgeable(d) => d # u /\ Purgeable(d)'
    BY <1>4, <1>5, <1>6, <1>7 DEF Purgeable
  <2>. QED  BY <1>1, <1>9, <2>1, <2>2 DEF LibraryInv, SweepFits
<1>14. StoresAgree'
  <2>. SUFFICES ASSUME NEW d \in Uploads
                PROVE  /\ Row(d)' /\ docs'[d] # "old" /\ shelf'[Target(d)'] # "old" => d \in objects' \/ upload'[d].unsure
                       /\ d \in objects' => \/ Row(d)' \/ upload'[d].at = "create"
                                            \/ upload'[d].at = "discard" \/ upload'[d].hurt
                       /\ upload'[d].at \in {"refused", "not_found", "conflict"} => ~Row(d)'
                       /\ docs'[d] = "live" => \A e \in Twins(d)' \ {d} : docs'[e] # "live"
    BY DEF StoresAgree, AtUpload
  <2>1. /\ Row(d) /\ docs[d] # "old" /\ shelf[Target(d)] # "old" => d \in objects \/ upload[d].unsure
        /\ d \in objects => \/ Row(d) \/ upload[d].at = "create" \/ upload[d].at = "discard" \/ upload[d].hurt
        /\ upload[d].at \in {"refused", "not_found", "conflict"} => ~Row(d)
        /\ docs[d] = "live" => \A e \in Twins(d) \ {d} : docs[e] # "live"
    BY DEF LibraryInv, StoresAgree, AtUpload
  <2>2. \A e \in Uploads : ~Row(e) => docs[e] # "live"
    BY DEF Row
  <2>3. CASE d = u
    <3>1. \A e \in Twins(d) \ {d} : docs'[e] # "live"
      BY <1>4, <1>8, <2>2, <2>3 DEF Twins
    <3>. QED  BY <1>1, <1>5, <1>7, <1>10, <2>3, <3>1
  <2>4. CASE d # u
    <3>1. u \in Twins(d) => ~Row(d)
      BY <1>8 DEF Twins
    <3>2. docs'[d] = "live" => \A e \in Twins(d) \ {d} : docs'[e] # "live"
      BY <1>4, <2>1, <2>2, <2>4, <3>1 DEF Twins
    <3>. QED  BY <1>1, <1>4, <1>5, <1>6, <1>9, <2>1, <2>4, <3>2
  <2>. QED  BY <2>3, <2>4
<1>. QED  BY <1>11, <1>12, <1>13, <1>14 DEF LibraryInv

LEMMA CreateStep ==
  ASSUME LibraryInv, NEW u \in Uploads, Create(u) \/ CreateFails(u)
  PROVE  LibraryInv'
<1>1. /\ upload \in [Uploads -> Request] /\ mishaps \in Nat /\ objects \in SUBSET Uploads
      /\ u \in objects /\ AtUpload(u, "create") /\ UNCHANGED <<shelf, objects, sweep>> /\ mishaps' \in Nat
      /\ upload[u].at = "create" /\ ~upload[u].unsure /\ upload[u].end = "failed"
  BY DEF LibraryInv, LibraryShape, RowsFit, Create, CreateFails, AtUpload, NotYet
<1>2. {"done", "discard"} \subseteq UploadStates /\ "discard" \notin NotYet
  BY DEF UploadStates, UploadEnds, NotYet
<1>3. CASE ~Taken(u) /\ docs' = Created(u) /\ Step(u, "done")
  <2>1. PICK at \in {"done", "discard"} : at = "done" /\ Step(u, at)
    BY <1>3
  <2>2. UploadMoves(u, at) /\ Certain(u)
    BY <1>1, <1>2, <2>1, StepMoves
  <2>. QED  BY <1>1, <1>3, <2>1, <2>2, NewRow DEF Certain
<1>4. CASE ~Taken(u) /\ docs' = Created(u) /\ upload' = [upload EXCEPT ![u].at = "discard", ![u].unsure = TRUE]
  <2>1. PICK at \in {"done", "discard"}, yes \in BOOLEAN : at = "discard" /\ yes /\ Unsure(u, at, yes)
    BY <1>4 DEF Unsure
  <2>2. UploadMoves(u, at) /\ upload'[u].unsure = yes /\ upload'[u].end = upload[u].end
    BY <1>1, <1>2, <2>1, UnsureMoves
  <2>. QED  BY <1>1, <1>4, <2>1, <2>2, NewRow
<1>5. ASSUME NEW at \in {"discard"}, UNCHANGED docs, UploadMoves(u, at), upload'[u].unsure = upload[u].unsure
      PROVE  LibraryInv'
  <2>1. at \in UploadStates \ {"done"} /\ at \notin NotYet /\ at # "create"
    BY <1>2
  <2>. QED  BY <1>1, <1>5, <2>1, RequestStep
<1>6. CASE Taken(u) /\ UNCHANGED docs
           /\ upload' = [upload EXCEPT ![u].at = "discard", ![u].end = "conflict", ![u].twin = Visible(u)]
  <2>1. PICK at \in {"discard"}, end \in {"failed", "conflict"}, twin \in BOOLEAN : Refused(u, at, end, twin)
    BY <1>6 DEF Refused, Visible
  <2>2. UploadMoves(u, at) /\ upload'[u].unsure = upload[u].unsure
    BY <1>1, <1>2, <2>1, RefusedMoves
  <2>. QED  BY <1>5, <1>6, <2>2
<1>7. CASE Step(u, "discard") /\ UNCHANGED docs
  <2>1. PICK at \in {"discard"} : Step(u, at)
    BY <1>7
  <2>2. UploadMoves(u, at) /\ Certain(u)
    BY <1>1, <1>2, <2>1, StepMoves
  <2>. QED  BY <1>5, <1>7, <2>2 DEF Certain
<1>. QED  BY <1>3, <1>4, <1>6, <1>7 DEF Create, CreateFails

(* Lifetimes only go on, and nothing else does.                            *)
LEMMA LifetimesGoOn ==
  ASSUME LibraryInv, UNCHANGED <<objects, upload, sweep, mishaps>>,
         docs' \in [Uploads -> Lifetimes \union {"none"}], shelf' \in [Shelves -> Lifetimes],
         \A d \in Uploads : /\ docs'[d] = docs[d] \/ (docs[d] = "live" /\ docs'[d] = "deleted")
                               \/ (docs[d] = "deleted" /\ docs'[d] = "old"),
         \A k \in Shelves : /\ shelf'[k] = shelf[k] \/ (shelf[k] = "live" /\ shelf'[k] = "deleted")
                               \/ (shelf[k] = "deleted" /\ shelf'[k] = "old")
  PROVE  LibraryInv'
<1>1. \A d \in Uploads : /\ Target(d)' = Target(d) /\ Content(d)' = Content(d) /\ Twins(d)' = Twins(d)
                         /\ Target(d) \in Shelves /\ (Row(d)' <=> Row(d))
                         /\ (docs'[d] = "none" <=> docs[d] = "none") /\ (docs'[d] = "live" => docs[d] = "live")
                         /\ (docs[d] = "old" => docs'[d] = "old")
  BY DEF LibraryInv, LibraryShape, Request, Target, Content, Twins, Row
<1>2. \A k \in Shelves : (shelf'[k] = "gone" <=> shelf[k] = "gone") /\ (shelf[k] = "old" => shelf'[k] = "old")
  OBVIOUS
<1>3. LibraryShape'
  BY DEF LibraryInv, LibraryShape
<1>4. RowsFit'
  BY <1>1, <1>2 DEF LibraryInv, RowsFit, AtUpload
<1>5. SweepFits'
  <2>1. sweep.targets \subseteq Uploads
    BY DEF LibraryInv, LibraryShape
  <2>2. \A d \in Uploads : Purgeable(d) => Purgeable(d)'
    BY <1>1, <1>2 DEF Purgeable
  <2>. QED  BY <2>1, <2>2 DEF LibraryInv, SweepFits
<1>6. StoresAgree'
  BY <1>1, <1>2 DEF LibraryInv, StoresAgree, AtUpload, Twins
<1>. QED  BY <1>3, <1>4, <1>5, <1>6 DEF LibraryInv

Ingests(d) == IngestBegins(d) \/ ReadOriginal(d) \/ KeepArtifact(d) \/ IngestEnds(d)
LEMMA DeletionSteps ==
  ASSUME LibraryInv, (\E d \in Uploads : Delete(d) \/ Ingests(d)) \/ (\E k \in Shelves : DeleteShelf(k)) \/ Age
  PROVE  LibraryInv'
<1>1. docs \in [Uploads -> Lifetimes \union {"none"}] /\ shelf \in [Shelves -> Lifetimes]
  BY DEF LibraryInv, LibraryShape
<1>2. CASE \E d \in Uploads : Delete(d)
  <2>1. UNCHANGED <<shelf, objects, upload, sweep, mishaps>>
    BY <1>2 DEF Delete
  <2>2. PICK d \in Uploads, to \in Lifetimes : docs[d] = "live" /\ docs' = [docs EXCEPT ![d] = to] /\ to = "deleted"
    BY <1>2 DEF Delete, Lifetimes
  <2>. QED  BY <1>1, <2>1, <2>2, LifetimesGoOn
<1>3. CASE \E d \in Uploads : Ingests(d)
  <2>1. UNCHANGED <<shelf, docs, objects, upload, sweep, mishaps>>
    BY <1>3 DEF Ingests, IngestBegins, ReadOriginal, KeepArtifact, IngestEnds
  <2>. QED  BY <1>1, <2>1, LifetimesGoOn
<1>4. CASE \E k \in Shelves : DeleteShelf(k)
  <2>1. UNCHANGED <<docs, objects, upload, sweep, mishaps>>
    BY <1>4 DEF DeleteShelf
  <2>2. PICK k \in Shelves, to \in Lifetimes : shelf[k] = "live" /\ shelf' = [shelf EXCEPT ![k] = to] /\ to = "deleted"
    BY <1>4 DEF DeleteShelf, Lifetimes
  <2>. QED  BY <1>1, <2>1, <2>2, LifetimesGoOn
<1>5. CASE Age
  <2>1. UNCHANGED <<objects, upload, sweep, mishaps>>
    BY <1>5 DEF Age
  <2>2. CASE UNCHANGED docs /\ \E k \in Shelves : shelf[k] = "deleted" /\ shelf' = [shelf EXCEPT ![k] = "old"]
    <3>1. PICK k \in Shelves, to \in Lifetimes : shelf[k] = "deleted" /\ shelf' = [shelf EXCEPT ![k] = to] /\ to = "old"
      BY <2>2 DEF Lifetimes
    <3>. QED  BY <1>1, <2>1, <2>2, <3>1, LifetimesGoOn
  <2>3. CASE UNCHANGED shelf /\ \E d \in Uploads : docs[d] = "deleted" /\ docs' = [docs EXCEPT ![d] = "old"]
    <3>1. PICK d \in Uploads, to \in Lifetimes : docs[d] = "deleted" /\ docs' = [docs EXCEPT ![d] = to] /\ to = "old"
      BY <2>3 DEF Lifetimes
    <3>. QED  BY <1>1, <2>1, <2>3, <3>1, LifetimesGoOn
  <2>. QED  BY <1>5, <2>2, <2>3 DEF Age
<1>. QED  BY <1>2, <1>3, <1>4, <1>5

LEMMA SweepChunksStep ==
  ASSUME LibraryInv, SweepChunks
  PROVE  LibraryInv'
<1>1. PICK batch \in OneBatch({d \in Uploads : Purgeable(d)}) : sweep' = [at |-> "objects", targets |-> batch]
  BY DEF SweepChunks
<1>2. batch \subseteq Uploads /\ \A d \in batch : Purgeable(d)
  BY DEF OneBatch
<1>3. UNCHANGED <<shelf, docs, objects, upload, mishaps>>
  BY DEF SweepChunks
<1>4. \A d \in Uploads : Target(d)' = Target(d) /\ Twins(d)' = Twins(d) /\ (Row(d)' <=> Row(d)) /\ (Purgeable(d)' <=> Purgeable(d))
  BY <1>3 DEF Target, Twins, Content, Row, Purgeable
<1>5. LibraryShape'
  BY <1>1, <1>2, <1>3 DEF LibraryInv, LibraryShape
<1>6. RowsFit'
  BY <1>3, <1>4 DEF LibraryInv, RowsFit, AtUpload
<1>7. SweepFits'
  BY <1>1, <1>2, <1>4 DEF SweepFits
<1>8. StoresAgree'
  BY <1>3, <1>4 DEF LibraryInv, StoresAgree, AtUpload
<1>. QED  BY <1>5, <1>6, <1>7, <1>8 DEF LibraryInv

LEMMA SweepObjectsStep ==
  ASSUME LibraryInv, SweepObjects
  PROVE  LibraryInv'
<1>1. /\ sweep \in [at : {"idle", "objects", "rows"}, targets : SUBSET Uploads] /\ upload \in [Uploads -> Request]
      /\ objects \in SUBSET Uploads /\ mishaps \in Nat /\ UNCHANGED <<shelf, docs>> /\ sweep.at = "objects"
      /\ \A d \in sweep.targets : Purgeable(d)
  BY DEF LibraryInv, LibraryShape, SweepFits, SweepObjects
<1>2. sweep' = [at |-> "rows", targets |-> sweep.targets]
  <2>1. PICK rows \in {"rows"} : sweep' = [sweep EXCEPT !.at = rows]
    BY DEF SweepObjects
  <2>. QED  BY <1>1, <2>1
<1>3. /\ upload' \in [Uploads -> Request] /\ mishaps' \in Nat
      /\ \A d \in Uploads : /\ upload'[d].to = upload[d].to /\ upload'[d].content = upload[d].content
                            /\ upload'[d].at = upload[d].at /\ (upload[d].hurt => upload'[d].hurt)
                            /\ upload'[d].unsure = upload[d].unsure /\ upload'[d].end = upload[d].end
      /\ objects' \subseteq objects /\ objects \ sweep.targets \subseteq objects'
      /\ \A d \in sweep.targets : d \in objects' => upload'[d].hurt
  <2>1. CASE objects' = objects \ sweep.targets /\ UNCHANGED <<upload, mishaps>>
    BY <1>1, <2>1
  <2>2. CASE \E d \in sweep.targets \intersect objects :
               objects' = (objects \ sweep.targets) \union {d} /\ Hurt(d, upload[d].at)
    <3>1. PICK d \in sweep.targets \intersect objects :
            objects' = (objects \ sweep.targets) \union {d} /\ Hurt(d, upload[d].at)
      BY <2>2
    <3>2. PICK at \in UploadStates : at = upload[d].at
      BY <1>1, <3>1 DEF Request
    <3>3. Hurt(d, at) /\ d \in Uploads
      BY <1>1, <3>1, <3>2
    <3>4. UploadMoves(d, at) /\ Certain(d) /\ upload'[d].hurt /\ mishaps' \in Nat
      BY <1>1, <3>3, HurtMoves
    <3>. QED  BY <1>1, <3>1, <3>2, <3>4 DEF UploadMoves, Certain
  <2>. QED  BY <2>1, <2>2 DEF SweepObjects
<1>4. \A d \in Uploads : Target(d)' = Target(d) /\ Twins(d)' = Twins(d) /\ (Row(d)' <=> Row(d)) /\ (Purgeable(d)' <=> Purgeable(d))
  BY <1>1, <1>3 DEF Target, Twins, Content, Row, Purgeable
<1>5. \A d \in sweep.targets : d \in Uploads /\ upload[d].at # "create"
  BY <1>1 DEF LibraryInv, RowsFit, Purgeable, Row
<1>6. LibraryShape'
  BY <1>1, <1>2, <1>3 DEF LibraryInv, LibraryShape
<1>7. RowsFit'
  <2>1. \A d \in Uploads : upload[d].at = "create" => d \in objects'
    BY <1>3, <1>5 DEF LibraryInv, RowsFit, AtUpload
  <2>. QED  BY <1>1, <1>3, <1>4, <2>1 DEF LibraryInv, RowsFit, AtUpload
<1>8. SweepFits'
  BY <1>1, <1>2, <1>3, <1>4, <1>5 DEF SweepFits
<1>9. StoresAgree'
  <2>. SUFFICES ASSUME NEW d \in Uploads
                PROVE  /\ Row(d)' /\ docs'[d] # "old" /\ shelf'[Target(d)'] # "old" => d \in objects' \/ upload'[d].unsure
                       /\ d \in objects' => \/ Row(d)' \/ upload'[d].at = "create"
                                            \/ upload'[d].at = "discard" \/ upload'[d].hurt
                       /\ upload'[d].at \in {"refused", "not_found", "conflict"} => ~Row(d)'
                       /\ docs'[d] = "live" => \A e \in Twins(d)' \ {d} : docs'[e] # "live"
    BY DEF StoresAgree, AtUpload
  <2>1. /\ Row(d) /\ docs[d] # "old" /\ shelf[Target(d)] # "old" => d \in objects \/ upload[d].unsure
        /\ d \in objects => \/ Row(d) \/ upload[d].at = "create" \/ upload[d].at = "discard" \/ upload[d].hurt
        /\ upload[d].at \in {"refused", "not_found", "conflict"} => ~Row(d)
        /\ docs[d] = "live" => \A e \in Twins(d) \ {d} : docs[e] # "live"
    BY DEF LibraryInv, StoresAgree, AtUpload
  <2>2. docs[d] # "old" /\ shelf[Target(d)] # "old" => d \notin sweep.targets
    BY <1>1 DEF Purgeable
  <2>. QED  BY <1>1, <1>3, <1>4, <2>1, <2>2
<1>. QED  BY <1>6, <1>7, <1>8, <1>9 DEF LibraryInv

LEMMA SweepRowsStep ==
  ASSUME LibraryInv, SweepRows
  PROVE  LibraryInv'
<1>1. /\ docs \in [Uploads -> Lifetimes \union {"none"}] /\ shelf \in [Shelves -> Lifetimes]
      /\ upload \in [Uploads -> Request] /\ sweep.targets \subseteq Uploads
      /\ sweep.at = "rows" /\ sweep' = [at |-> "idle", targets |-> {}]
      /\ UNCHANGED <<objects, upload, mishaps>>
      /\ \A d \in sweep.targets : Purgeable(d) /\ (d \in objects => upload[d].hurt)
  BY DEF LibraryInv, LibraryShape, SweepFits, SweepRows
<1>2. /\ docs' \in [Uploads -> Lifetimes \union {"none"}] /\ shelf' \in [Shelves -> Lifetimes]
      /\ \A d \in Uploads : docs'[d] = docs[d] \/ (d \in sweep.targets /\ docs'[d] = "gone")
      /\ \A k \in Shelves :
           \/ shelf'[k] = shelf[k]
           \/ shelf'[k] = "gone" /\ \A d \in Uploads : Target(d) = k /\ Row(d) => docs'[d] = "gone"
  <2>1. PICK batch \in OneBatch(OldShelves) :
          LET empty == {k \in batch : Empty(k)}
              protected == \/ sweep.targets \intersect chunked # {}
                           \/ \E d \in Uploads \ sweep.targets : Row(d) /\ Target(d) \in empty
          IN /\ docs' = IF protected THEN docs ELSE Removed(sweep.targets)
             /\ shelf' = IF protected THEN shelf
                         ELSE [k \in Shelves |-> IF k \in empty THEN "gone" ELSE shelf[k]]
    BY DEF SweepRows
  <2>. DEFINE empty == {k \in batch : Empty(k)}
              protected == \/ sweep.targets \intersect chunked # {}
                           \/ \E d \in Uploads \ sweep.targets : Row(d) /\ Target(d) \in empty
  <2>2. /\ docs' = IF protected THEN docs ELSE Removed(sweep.targets)
        /\ shelf' = IF protected THEN shelf
                    ELSE [k \in Shelves |-> IF k \in empty THEN "gone" ELSE shelf[k]]
    BY <2>1
  <2>3. \A k \in empty : Empty(k)
    OBVIOUS
  <2>. HIDE DEF empty, protected
  <2>4. CASE protected
    BY <1>1, <2>2, <2>4
  <2>5. CASE ~protected
    <3>1. docs' = [d \in Uploads |-> IF d \in sweep.targets THEN "gone" ELSE docs[d]]
      BY <2>2, <2>5 DEF Removed
    <3>2. docs' \in [Uploads -> Lifetimes \union {"none"}]
      BY <1>1, <3>1 DEF Lifetimes
    <3>3. \A d \in Uploads : docs'[d] = IF d \in sweep.targets THEN "gone" ELSE docs[d]
      BY <3>1
    <3>4. shelf' = [k \in Shelves |-> IF k \in empty THEN "gone" ELSE shelf[k]]
      BY <2>2, <2>5
    <3>5. shelf' \in [Shelves -> Lifetimes]
      BY <1>1, <3>4 DEF Lifetimes
    <3>6. \A k \in Shelves : shelf'[k] = IF k \in empty THEN "gone" ELSE shelf[k]
      BY <3>4
    <3>7. \A k \in empty : \A d \in Uploads : Target(d) = k /\ Row(d) => d \in sweep.targets
      BY <2>3 DEF Empty
    <3>. QED  BY <3>2, <3>3, <3>5, <3>6, <3>7
  <2>. QED  BY <2>4, <2>5
<1>3. \A d \in Uploads : /\ Target(d)' = Target(d) /\ Twins(d)' = Twins(d) /\ Target(d) \in Shelves
                         /\ (Row(d)' => Row(d) /\ docs'[d] = docs[d] /\ shelf'[Target(d)] = shelf[Target(d)])
                         /\ (Row(d) /\ ~Row(d)' => d \in sweep.targets)
                         /\ (docs'[d] = "none" <=> docs[d] = "none") /\ (docs'[d] = "live" => docs[d] = "live")
  <2>. TAKE d \in Uploads
  <2>1. Target(d)' = Target(d) /\ Twins(d)' = Twins(d)
    BY <1>1 DEF Target, Twins, Content
  <2>2. Target(d) \in Shelves
    BY <1>1 DEF Target, Request
  <2>3. d \in sweep.targets => docs[d] # "none" /\ docs[d] # "gone"
    BY <1>1 DEF Purgeable, Row
  <2>4. Row(d)' => Row(d) /\ docs'[d] = docs[d]
    BY <1>2 DEF Row
  <2>5. Row(d)' => shelf'[Target(d)] = shelf[Target(d)]
    BY <1>2, <2>2, <2>4 DEF Row
  <2>6. Row(d) /\ ~Row(d)' => d \in sweep.targets
    BY <1>2 DEF Row
  <2>. QED  BY <1>2, <2>1, <2>2, <2>3, <2>4, <2>5, <2>6
<1>4. LibraryShape'
  BY <1>1, <1>2 DEF LibraryInv, LibraryShape
<1>5. RowsFit'
  BY <1>1, <1>3 DEF LibraryInv, RowsFit, AtUpload
<1>6. SweepFits'
  BY <1>1 DEF SweepFits
<1>7. StoresAgree'
  <2>. SUFFICES ASSUME NEW d \in Uploads
                PROVE  /\ Row(d)' /\ docs'[d] # "old" /\ shelf'[Target(d)'] # "old" => d \in objects' \/ upload'[d].unsure
                       /\ d \in objects' => \/ Row(d)' \/ upload'[d].at = "create"
                                            \/ upload'[d].at = "discard" \/ upload'[d].hurt
                       /\ upload'[d].at \in {"refused", "not_found", "conflict"} => ~Row(d)'
                       /\ docs'[d] = "live" => \A e \in Twins(d)' \ {d} : docs'[e] # "live"
    BY DEF StoresAgree, AtUpload
  <2>1. /\ Row(d) /\ docs[d] # "old" /\ shelf[Target(d)] # "old" => d \in objects \/ upload[d].unsure
        /\ d \in objects => \/ Row(d) \/ upload[d].at = "create" \/ upload[d].at = "discard" \/ upload[d].hurt
        /\ upload[d].at \in {"refused", "not_found", "conflict"} => ~Row(d)
        /\ docs[d] = "live" => \A e \in Twins(d) \ {d} : docs[e] # "live"
    BY DEF LibraryInv, StoresAgree, AtUpload
  <2>2. \A e \in Twins(d) : docs'[e] = "live" => docs[e] = "live"
    BY <1>3 DEF Twins
  <2>. QED  BY <1>1, <1>3, <2>1, <2>2
<1>. QED  BY <1>4, <1>5, <1>6, <1>7 DEF LibraryInv

LEMMA LibraryBegins == LibraryInit => LibraryInv
<1>. SUFFICES ASSUME LibraryInit PROVE LibraryInv
  OBVIOUS
<1>1. PICK d \in Deliveries :
        upload = [u \in Uploads |-> [at |-> "check", to |-> d[u].to, content |-> d[u].content,
                                     end |-> "failed",
                                     hurt |-> FALSE, unsure |-> FALSE, twin |-> FALSE]]
  BY DEF LibraryInit, LibraryBegin
<1>2. /\ shelf = [k \in Shelves |-> "live"] /\ docs = [u \in Uploads |-> "none"]
      /\ objects = {} /\ mishaps = 0 /\ sweep = [at |-> "idle", targets |-> {}]
  BY DEF LibraryInit, LibraryBegin
<1>3. \A u \in Uploads : d[u].to \in Shelves /\ d[u].content \in Given
  BY LibraryAssumption DEF Given
<1>4. LibraryShape
  BY <1>1, <1>2, <1>3 DEF LibraryShape, Request, UploadStates, Lifetimes
<1>5. \A u \in Uploads : ~Row(u) /\ docs[u] = "none" /\ upload[u].at = "check" /\ u \notin objects
                         /\ upload[u].end = "failed" /\ ~upload[u].unsure
  BY <1>1, <1>2 DEF Row
<1>. QED  BY <1>2, <1>4, <1>5 DEF LibraryInv, RowsFit, SweepFits, StoresAgree, AtUpload

LEMMA LibraryStep ==
  ASSUME LibraryInv, [LibraryNext]_libraryVars
  PROVE  LibraryInv'
<1>1. CASE \E u \in Uploads : Check(u) \/ Find(u) \/ Put(u) \/ PutFails(u) \/ Discard(u) \/ Lose(u)
  BY <1>1, UploadSteps
<1>2. CASE \E u \in Uploads : Create(u) \/ CreateFails(u)
  BY <1>2, CreateStep
<1>3. CASE (\E d \in Uploads : Delete(d) \/ Ingests(d)) \/ (\E k \in Shelves : DeleteShelf(k)) \/ Age
  BY <1>3, DeletionSteps
<1>4. CASE SweepChunks
  BY <1>4, SweepChunksStep
<1>5. CASE SweepObjects
  BY <1>5, SweepObjectsStep
<1>6. CASE SweepRows
  BY <1>6, SweepRowsStep
<1>7. CASE UNCHANGED libraryVars
  <2>1. UNCHANGED <<shelf, docs, objects, upload, sweep, mishaps>>
    BY <1>7 DEF libraryVars
  <2>2. docs' \in [Uploads -> Lifetimes \union {"none"}] /\ shelf' \in [Shelves -> Lifetimes]
    BY <2>1 DEF LibraryInv, LibraryShape
  <2>. QED  BY <2>1, <2>2, LifetimesGoOn
<1>. QED  BY <1>1, <1>2, <1>3, <1>4, <1>5, <1>6, <1>7 DEF LibraryNext, Ingests

-----------------------------------------------------------------------------
(***************************************************************************)
(* Extractions: the values of the variables.                               *)
(***************************************************************************)
Tasks == {"queued", "extract", "boot", "parse", "reap", "extracted", "refused", "failing", "failed",
          "put", "kept", "cleaned", "cut", "done"}
Living == {"booting", "parsing", "sending"}
StageNames == {"extract", "clean", "chunk"}
JobRows == [StageNames -> {"none", "running", "failed", "succeeded"}]
ExtractionShape ==
  /\ content \in Contents /\ task \in Tasks /\ attempts \in Nat /\ child \in Living \union {"none", "gone"}
  /\ jobs \in JobRows /\ artifact \in {"none", "sound", "unusable"} /\ spawns \in Nat /\ troubles \in Nat

(* What the parent may yet hear of its child; a child that is gone without *)
(* a result had nothing to say, or was disturbed.                          *)
Sayable == Parsed[content] \ {Silence}
Unheard == Silence \in Parsed[content] \/ troubles > 0
Booting ==
  \/ child = "booting" /\ pipe = <<>>
  \/ child = "parsing" /\ pipe = <<"ready">>
  \/ child = "sending" /\ pipe = <<"ready", "part">>
  \/ child = "gone" /\ Unheard /\ pipe \in {<<>>, <<"ready">>, <<"ready", "part">>}
  \/ child = "gone" /\ \E m \in Sayable : pipe = <<"ready", m>>
Parsing ==
  \/ child = "parsing" /\ pipe = <<>>
  \/ child = "sending" /\ pipe = <<"part">>
  \/ child = "gone" /\ Unheard /\ pipe \in {<<>>, <<"part">>}
  \/ child = "gone" /\ \E m \in Sayable : pipe = <<m>>
HearingFits == (task = "boot" => Booting) /\ (task = "parse" => Parsing)

(* Every extraction after the first has its trouble, before it begins.     *)
Spared == Resumes \/ spawns <= troubles
WorkFits ==
  /\ artifact # "none" => content = "good"
  /\ task \in {"queued", "cleaned", "cut"} => Spared
  /\ task = "extract" => spawns <= troubles
  /\ task = "kept" => artifact = "sound" \/ (artifact = "unusable" /\ spawns <= troubles)
  /\ task = "failing" => jobs["extract"] = "failed"
ExtractionInv == ExtractionShape /\ HearingFits /\ WorkFits /\ ExtractionsHold

LEMMA WhatIsParsed ==
  ASSUME NEW c \in Contents
  PROVE  /\ "ok" \in Parsed[c] => c = "good"
         /\ "ready" \notin Parsed[c] /\ "part" \notin Parsed[c]
         /\ \A m \in Parsed[c] : m \notin {"none", "timeout", "child_bootstrap_timeout", "child_crashed"}
         /\ c = "bomb" => Silence \notin Parsed[c]
<1>1. c \in {"good", "bad", "bomb", "crash", "loop", "huge"}
  BY ExtractionAssumption DEF Parsed
<1>2. CASE c = "good"
  BY <1>2 DEF Parsed, Silence
<1>3. CASE c = "bad"
  BY <1>3 DEF Parsed, Silence
<1>4. CASE c = "bomb"
  BY <1>4 DEF Parsed, Silence
<1>5. CASE c = "crash"
  BY <1>5 DEF Parsed, Silence
<1>6. CASE c = "loop"
  BY <1>6 DEF Parsed, Silence
<1>7. CASE c = "huge"
  BY <1>7 DEF Parsed, Silence
<1>. QED  BY <1>1, <1>2, <1>3, <1>4, <1>5, <1>6, <1>7

LEMMA PipeGrows ==
  ASSUME NEW a, NEW b
  PROVE  Append(<<>>, a) = <<a>> /\ Append(<<a>>, b) = <<a, b>>
<1>. DEFINE p == Append(<<a>>, b)
<1>1. <<>> \in Seq({a, b}) /\ <<a>> \in Seq({a, b}) /\ <<a, b>> \in Seq({a, b})
  OBVIOUS
<1>2. p \in Seq({a, b}) /\ Len(p) = 2 /\ p[1] = a /\ p[2] = b
  BY <1>1, AppendProperties
<1>3. Len(<<a, b>>) = 2 /\ <<a, b>>[1] = a /\ <<a, b>>[2] = b
  OBVIOUS
<1>4. \A i \in 1 .. 2 : p[i] = <<a, b>>[i]
  <2>. HIDE DEF p
  <2>1. \A i \in 1 .. 2 : i = 1 \/ i = 2
    OBVIOUS
  <2>. QED  BY <1>2, <1>3, <2>1
<1>5. p = <<a, b>>
  <2>. HIDE DEF p
  <2>. QED  BY <1>1, <1>2, <1>3, <1>4, SeqEqual
<1>6. Append(<<>>, a) = <<a>>
  BY <1>1
<1>. QED  BY <1>5, <1>6

LEMMA ShortPipes ==
  ASSUME NEW a, NEW b, NEW m
  PROVE  /\ Tail(<<a>>) = <<>> /\ Tail(<<a, b>>) = <<b>> /\ Head(<<a>>) = a
         /\ [<<a>> EXCEPT ![Len(<<a>>)] = m] = <<m>> /\ [<<a, b>> EXCEPT ![Len(<<a, b>>)] = m] = <<a, m>>
         /\ <<a>> # <<>> /\ <<a, b>> # <<>> /\ <<a, b>> # <<m>> /\ (<<a>> = <<m>> <=> a = m)
<1>1. Tail(<<a>>) = <<>> /\ Tail(<<a, b>>) = <<b>> /\ Head(<<a>>) = a
  OBVIOUS
<1>2. [<<a>> EXCEPT ![Len(<<a>>)] = m] = <<m>>
  OBVIOUS
<1>3. [<<a, b>> EXCEPT ![Len(<<a, b>>)] = m] = <<a, m>>
  OBVIOUS
<1>4. <<a>> # <<>> /\ <<a, b>> # <<>> /\ <<a, b>> # <<m>>
  OBVIOUS
<1>5. <<a>> = <<m>> <=> a = m
  OBVIOUS
<1>. QED  BY <1>1, <1>2, <1>3, <1>4, <1>5

LEMMA RowsOfJobs ==
  ASSUME jobs \in JobRows, NEW s \in StageNames, NEW how \in {"running", "failed", "succeeded"}
  PROVE  /\ Ended(s, how) \in JobRows /\ Ended(s, how)[s] = how
         /\ \A t \in StageNames : t # s => Ended(s, how)[t] = jobs[t]
         /\ Begun(s) \in JobRows /\ \A t \in StageNames : t # s => Begun(s)[t] = jobs[t]
BY DEF Ended, Begun, JobRows

(* A step that is not about the child leaves alone what is said of it.     *)
LEMMA ChildAside ==
  ASSUME ExtractionInv, NoChild, UNCHANGED content, troubles' \in Nat, troubles <= troubles',
         task' = task \/ (task \notin {"boot", "parse", "reap"} /\ task' \notin {"boot", "parse", "reap"})
  PROVE  HearingFits' /\ CausesAreTrue' /\ NobodyIsLeft'
<1>1. troubles \in Nat /\ (troubles > 0 => troubles' > 0)
  BY DEF ExtractionInv, ExtractionShape
<1>2. UNCHANGED <<child, pipe, verdict>>
  BY DEF NoChild
<1>3. Sayable' = Sayable /\ (Unheard => Unheard')
  BY <1>1 DEF Sayable, Unheard
<1>4. HearingFits'
  BY <1>2, <1>3 DEF ExtractionInv, HearingFits, Booting, Parsing
<1>5. CausesAreTrue'
  BY <1>1, <1>2 DEF ExtractionInv, ExtractionsHold, CausesAreTrue
<1>6. NobodyIsLeft'
  BY <1>2 DEF ExtractionInv, ExtractionsHold, NobodyIsLeft
<1>. QED  BY <1>4, <1>5, <1>6

(* The facts of the invariant that the steps of the work need.             *)
LEMMA WorkFacts ==
  ASSUME ExtractionInv
  PROVE  /\ ExtractionShape /\ HearingFits /\ WorkFits
         /\ ResultIsWhole /\ CausesAreTrue /\ NobodyIsLeft /\ StageIsTrue
         /\ jobs["clean"] = "succeeded" => artifact # "none"
         /\ spawns <= 1 + troubles
BY DEF ExtractionInv, ExtractionsHold, ResumeIsWhole

LEMMA TakeSteps ==
  ASSUME ExtractionInv, Take \/ TakeUnread
  PROVE  ExtractionInv'
<1>1. /\ UNCHANGED <<content, attempts, jobs, artifact, error, spawns>> /\ NoChild /\ task = "queued"
      /\ task' \in {"cleaned", "extract"} /\ troubles' \in Nat /\ troubles <= troubles'
      /\ (task' = "cleaned" => Resumes)
      /\ (task' = "extract" => ~Resumes \/ troubles' = troubles + 1)
  BY DEF Take, TakeUnread, Unwritten, Undisturbed, Trouble, ExtractionInv, ExtractionShape
<1>2. HearingFits' /\ CausesAreTrue' /\ NobodyIsLeft'
  BY <1>1, ChildAside
<1>3. ExtractionShape'
  BY <1>1 DEF ExtractionInv, ExtractionShape, NoChild, Tasks
<1>4. WorkFits'
  BY <1>1, WorkFacts DEF ExtractionShape, WorkFits, Spared, Resumes
<1>5. ResultIsWhole'
  BY <1>1, WorkFacts DEF WorkFits, ResultIsWhole, Resumes
<1>6. ResumeIsWhole' /\ StageIsTrue'
  BY <1>1, WorkFacts DEF ExtractionShape, ResumeIsWhole, StageIsTrue
<1>. QED  BY <1>2, <1>3, <1>4, <1>5, <1>6 DEF ExtractionInv, ExtractionsHold

(* Retried: a stage has failed, and what may be resumed is as it was.      *)
LEMMA RetrySteps ==
  ASSUME ExtractionInv, StoreFails \/ ChunkFails
  PROVE  ExtractionInv'
<1>1. PICK s \in {"extract", "clean", "chunk"}, rows \in JobRows :
        /\ Retried(s, rows)
        /\ rows["clean"] \in {jobs["clean"], "failed"}
        /\ UNCHANGED <<content, artifact, spawns>> /\ NoChild
        /\ \/ task \in {"extract", "put"} /\ troubles' = troubles + 1
           \/ task \in {"cleaned", "cut"} /\ rows["clean"] = jobs["clean"] /\ troubles' = troubles
  <2>1. jobs \in JobRows
    BY DEF ExtractionInv, ExtractionShape
  <2>2. /\ Ended("extract", "failed") \in JobRows /\ Ended("extract", "failed")["clean"] = jobs["clean"]
        /\ Ended("clean", "failed") \in JobRows /\ Ended("clean", "failed")["clean"] = "failed"
        /\ Ended("chunk", "failed") \in JobRows /\ Ended("chunk", "failed")["clean"] = jobs["clean"]
    BY <2>1, RowsOfJobs DEF StageNames
  <2>3. CASE StoreFails
    <3>1. Trouble /\ NoChild /\ UNCHANGED <<content, artifact, spawns>>
      BY <2>3 DEF StoreFails
    <3>2. CASE task = "extract" /\ Retried("extract", Ended("extract", "failed"))
      BY <2>2, <3>1, <3>2 DEF Trouble
    <3>3. CASE task = "put" /\ Retried("clean", Ended("clean", "failed"))
      BY <2>2, <3>1, <3>3 DEF Trouble
    <3>. QED  BY <2>3, <3>2, <3>3 DEF StoreFails
  <2>4. CASE ChunkFails
    <3>1. UNCHANGED <<content, artifact, spawns, troubles>> /\ NoChild
      BY <2>4 DEF ChunkFails, Undisturbed
    <3>. QED  BY <2>1, <2>2, <2>4, <3>1 DEF ChunkFails
  <2>. QED  BY <2>3, <2>4
<1>2. /\ jobs' = rows /\ task' \in {"queued", "failed"} /\ attempts' \in Nat
      /\ (error' = error \/ error'.retryable)
  BY <1>1 DEF Retried, ExtractionInv, ExtractionShape
<1>3. troubles' \in Nat /\ troubles <= troubles'
  BY <1>1 DEF ExtractionInv, ExtractionShape
<1>4. HearingFits' /\ CausesAreTrue' /\ NobodyIsLeft'
  BY <1>1, <1>2, <1>3, ChildAside
<1>5. ExtractionShape'
  BY <1>1, <1>2, <1>3 DEF ExtractionInv, ExtractionShape, NoChild, Tasks
<1>6. WorkFits'
  BY <1>1, <1>2, <1>3, WorkFacts DEF ExtractionShape, WorkFits, Spared, Resumes
<1>7. ResultIsWhole'
  BY <1>2 DEF ResultIsWhole
<1>8. ResumeIsWhole' /\ StageIsTrue'
  BY <1>1, <1>2, <1>3, WorkFacts DEF ExtractionShape, ResumeIsWhole, StageIsTrue
<1>. QED  BY <1>4, <1>5, <1>6, <1>7, <1>8 DEF ExtractionInv, ExtractionsHold

(* _extract_stage without its object: a permanent failure, with no child.  *)
LEMMA MissingStep ==
  ASSUME ExtractionInv, Missing
  PROVE  ExtractionInv'
<1>1. /\ task = "extract" /\ task' = "failing" /\ troubles' = troubles + 1 /\ jobs' = Ended("extract", "failed")
      /\ verdict' = [cause |-> "missing", over |-> "none"]
      /\ UNCHANGED <<content, attempts, child, pipe, artifact, error, spawns>>
  BY DEF Missing, Trouble
<1>2. /\ Ended("extract", "failed") \in JobRows /\ Ended("extract", "failed")["extract"] = "failed"
      /\ Ended("extract", "failed")["clean"] = jobs["clean"]
  BY RowsOfJobs DEF ExtractionInv, ExtractionShape, StageNames
<1>3. ExtractionShape'
  BY <1>1, <1>2 DEF ExtractionInv, ExtractionShape, Tasks
<1>4. HearingFits'
  BY <1>1 DEF HearingFits
<1>5. WorkFits'
  BY <1>1, <1>2, WorkFacts DEF WorkFits
<1>6. ResultIsWhole' /\ NobodyIsLeft' /\ StageIsTrue'
  BY <1>1, WorkFacts DEF ResultIsWhole, NobodyIsLeft, StageIsTrue
<1>7. CausesAreTrue'
  BY <1>1 DEF CausesAreTrue
<1>8. ResumeIsWhole'
  BY <1>1, <1>2, WorkFacts DEF ExtractionShape, ResumeIsWhole
<1>. QED  BY <1>3, <1>4, <1>5, <1>6, <1>7, <1>8 DEF ExtractionInv, ExtractionsHold

(* run_isolated begins: what this extraction leaves is yet to come.        *)
LEMMA SpawnStep ==
  ASSUME ExtractionInv, Spawn
  PROVE  ExtractionInv'
<1>1. /\ task = "extract" /\ task' = "boot" /\ child' = "booting" /\ pipe' = <<>> /\ verdict' = Unjudged
      /\ jobs' = Begun("extract") /\ spawns' = spawns + 1
      /\ UNCHANGED <<content, attempts, artifact, error, orphans, troubles>>
  BY DEF Spawn
<1>2. Begun("extract") \in JobRows /\ Begun("extract")["clean"] = jobs["clean"]
  BY RowsOfJobs DEF ExtractionInv, ExtractionShape, StageNames
<1>3. ExtractionShape'
  BY <1>1, <1>2 DEF ExtractionInv, ExtractionShape, Tasks, Living
<1>4. HearingFits'
  BY <1>1 DEF HearingFits, Booting
<1>5. WorkFits'
  BY <1>1, WorkFacts DEF WorkFits
<1>6. ResultIsWhole' /\ NobodyIsLeft' /\ StageIsTrue'
  BY <1>1, WorkFacts DEF ResultIsWhole, NobodyIsLeft, StageIsTrue
<1>7. CausesAreTrue'
  BY <1>1 DEF CausesAreTrue, Unjudged
<1>8. ResumeIsWhole'
  BY <1>1, <1>2, WorkFacts DEF ExtractionShape, WorkFits, ResumeIsWhole
<1>. QED  BY <1>3, <1>4, <1>5, <1>6, <1>7, <1>8 DEF ExtractionInv, ExtractionsHold

(* _child_main: a step of the child is a step of a living one, and what it *)
(* leaves in the pipe is what its parent may hear.                         *)
LEMMA ChildSteps ==
  ASSUME ExtractionInv, ChildWorks \/ Killed
  PROVE  ExtractionInv'
<1>1. /\ child \in Living /\ child' \in Living \union {"gone"}
      /\ UNCHANGED <<content, task, attempts, verdict, jobs, artifact, error, spawns>>
      /\ troubles' \in Nat /\ troubles <= troubles'
  BY DEF ChildWorks, Ready, Begins, Vanishes, Sends, Killed, ChildStep, Unwritten, Undisturbed, Trouble, Living,
         ExtractionInv, ExtractionShape
<1>2. task \in {"boot", "parse", "reap"} /\ (task = "boot" => Booting) /\ (task = "parse" => Parsing)
  BY <1>1 DEF ExtractionInv, ExtractionsHold, NobodyIsLeft, HearingFits, Living
<1>3. Sayable' = Sayable /\ (Unheard => Unheard')
  BY <1>1 DEF Sayable, Unheard, ExtractionInv, ExtractionShape
<1>4. (task = "boot" => Booting') /\ (task = "parse" => Parsing')
  <2>1. CASE Ready
    <3>1. child = "booting" /\ child' = "parsing" /\ pipe' = Append(pipe, "ready")
      BY <2>1 DEF Ready, ChildStep
    <3>2. task # "parse" /\ (task = "boot" => pipe = <<>>)
      BY <1>2, <3>1 DEF Booting, Parsing
    <3>3. task = "boot" => pipe' = <<"ready">>
      BY <3>1, <3>2, PipeGrows
    <3>. QED  BY <1>1, <3>1, <3>2, <3>3 DEF Booting, Parsing
  <2>2. CASE Begins
    <3>1. child = "parsing" /\ child' = "sending" /\ pipe' = Append(pipe, "part")
      BY <2>2 DEF Begins, ChildStep
    <3>2. (task = "boot" => pipe = <<"ready">>) /\ (task = "parse" => pipe = <<>>)
      BY <1>2, <3>1 DEF Booting, Parsing
    <3>3. task = "boot" => pipe' = <<"ready", "part">>
      BY <3>1, <3>2, PipeGrows
    <3>4. task = "parse" => pipe' = <<"part">>
      BY <3>1, <3>2, PipeGrows
    <3>. QED  BY <1>1, <3>1, <3>3, <3>4 DEF Booting, Parsing
  <2>3. CASE Vanishes
    <3>1. child = "parsing" /\ child' = "gone" /\ pipe' = pipe /\ Unheard
      BY <2>3 DEF Vanishes, ChildStep, Unheard
    <3>2. (task = "boot" => pipe = <<"ready">>) /\ (task = "parse" => pipe = <<>>)
      BY <1>2, <3>1 DEF Booting, Parsing
    <3>. QED  BY <1>1, <1>3, <3>1, <3>2 DEF Booting, Parsing
  <2>4. CASE Sends
    <3>1. child = "sending"
      BY <2>4 DEF Sends
    <3>2. PICK m \in Sayable : child' = "gone" /\ pipe' = [pipe EXCEPT ![Len(pipe)] = m]
      BY <2>4 DEF Sends, ChildStep, Sayable
    <3>3. (task = "boot" => pipe = <<"ready", "part">>) /\ (task = "parse" => pipe = <<"part">>)
      BY <1>2, <3>1 DEF Booting, Parsing
    <3>4. task = "boot" => pipe' = <<"ready", m>>
      BY <3>2, <3>3, ShortPipes
    <3>5. task = "parse" => pipe' = <<m>>
      BY <3>2, <3>3, ShortPipes
    <3>6. (task = "boot" => Booting') /\ (task = "parse" => Parsing')
      BY <1>3, <3>2, <3>4, <3>5 DEF Booting, Parsing
    <3>. QED  BY <1>1, <3>6
  <2>5. CASE Killed
    <3>1. child' = "gone" /\ pipe' = pipe /\ Unheard'
      BY <2>5 DEF Killed, Trouble, Unheard, ExtractionInv, ExtractionShape
    <3>. QED  BY <1>1, <1>2, <3>1 DEF Booting, Parsing, Living
  <2>. QED  BY <2>1, <2>2, <2>3, <2>4, <2>5 DEF ChildWorks
<1>5. HearingFits' /\ NobodyIsLeft'
  BY <1>1, <1>2, <1>4 DEF HearingFits, NobodyIsLeft
<1>6. CausesAreTrue'
  BY <1>1, WorkFacts DEF CausesAreTrue, ExtractionShape
<1>7. ExtractionShape'
  BY <1>1 DEF ExtractionInv, ExtractionShape
<1>8. WorkFits'
  BY <1>1, WorkFacts DEF ExtractionShape, WorkFits, Spared, Resumes
<1>9. ResultIsWhole' /\ StageIsTrue' /\ ResumeIsWhole'
  BY <1>1, WorkFacts DEF ExtractionShape, ResultIsWhole, StageIsTrue, ResumeIsWhole
<1>. QED  BY <1>5, <1>6, <1>7, <1>8, <1>9 DEF ExtractionInv, ExtractionsHold

(* run_isolated: what the parent hears, it hears as its child said it, and *)
(* what it does not hear is judged by how the child is.                    *)
LEMMA HeardSteps ==
  ASSUME ExtractionInv, HearReady \/ NotReady \/ HearResult \/ HalfHeard \/ NoResult
  PROVE  ExtractionInv'
<1>1. /\ UNCHANGED <<content, child, attempts, jobs, artifact, error, spawns, troubles>>
      /\ task \in {"boot", "parse"}
  BY DEF HearReady, NotReady, HearResult, HalfHeard, NoResult, Judged, Unwritten, Undisturbed
<1>2. (task = "boot" => Booting) /\ (task = "parse" => Parsing)
  BY DEF ExtractionInv, HearingFits
<1>3. /\ "ready" \notin Parsed[content] /\ "part" \notin Parsed[content]
      /\ \A m \in Parsed[content] : m \notin {"none", "timeout", "child_bootstrap_timeout", "child_crashed"}
      /\ content = "bomb" => Silence \notin Parsed[content]
  BY WhatIsParsed DEF ExtractionInv, ExtractionShape
<1>4. task' \in {"parse", "reap"} /\ (task' = "parse" => Parsing') /\ CausesAreTrue'
  <2>1. CASE HearReady
    <3>1. task = "boot" /\ task' = "parse" /\ pipe # <<>> /\ pipe' = Tail(pipe) /\ verdict' = verdict
      BY <2>1 DEF HearReady
    <3>2. Sayable' = Sayable /\ Unheard' = Unheard
      BY <1>1 DEF Sayable, Unheard
    <3>3. Parsing'
      <4>1. CASE pipe = <<"ready">>
        <5>1. pipe' = <<>>
          BY <3>1, <4>1, ShortPipes
        <5>2. \A m \in Sayable : pipe # <<"ready", m>>
          BY <4>1, ShortPipes
        <5>3. <<"ready", "part">> # <<"ready">>
          BY ShortPipes
        <5>4. child = "parsing" \/ (child = "gone" /\ Unheard)
          BY <1>2, <3>1, <4>1, <5>2, <5>3 DEF Booting
        <5>. QED  BY <1>1, <3>2, <5>1, <5>4 DEF Parsing
      <4>2. CASE pipe = <<"ready", "part">>
        <5>1. pipe' = <<"part">>
          BY <3>1, <4>2, ShortPipes
        <5>2. \A m \in Sayable : pipe # <<"ready", m>>
          BY <1>3, <4>2 DEF Sayable
        <5>3. <<"ready", "part">> # <<"ready">>
          BY ShortPipes
        <5>4. child = "sending" \/ (child = "gone" /\ Unheard)
          BY <1>2, <3>1, <4>2, <5>2, <5>3 DEF Booting
        <5>. QED  BY <1>1, <3>2, <5>1, <5>4 DEF Parsing
      <4>3. CASE child = "gone" /\ \E m \in Sayable : pipe = <<"ready", m>>
        <5>1. PICK m \in Sayable : pipe = <<"ready", m>>
          BY <4>3
        <5>2. pipe' = <<m>>
          BY <3>1, <5>1, ShortPipes
        <5>. QED  BY <1>1, <3>2, <4>3, <5>2 DEF Parsing
      <4>. QED  BY <1>2, <3>1, <4>1, <4>2, <4>3 DEF Booting
    <3>4. CausesAreTrue'
      BY <1>1, <3>1, WorkFacts DEF CausesAreTrue
    <3>. QED  BY <3>1, <3>3, <3>4
  <2>2. CASE NotReady
    <3>1. /\ task = "boot" /\ task' = "reap" /\ pipe = <<>>
          /\ verdict' = [cause |-> IF child = "gone" THEN "child_crashed" ELSE "child_bootstrap_timeout", over |-> child]
      BY <2>2 DEF NotReady, Judged, Eof
    <3>2. \A m \in Sayable : pipe # <<"ready", m>>
      BY <3>1, ShortPipes
    <3>3. <<"ready">> # <<>> /\ <<"ready", "part">> # <<>>
      BY ShortPipes
    <3>4. child = "booting" \/ (child = "gone" /\ Unheard)
      BY <1>2, <3>1, <3>2, <3>3 DEF Booting
    <3>5. CausesAreTrue'
      BY <1>1, <1>3, <3>1, <3>4 DEF CausesAreTrue, Unheard
    <3>. QED  BY <3>1, <3>5
  <2>3. CASE HearResult
    <3>1. /\ task = "parse" /\ task' = "reap" /\ pipe # <<>> /\ Head(pipe) # "part"
          /\ verdict' = [cause |-> Head(pipe), over |-> child]
      BY <2>3 DEF HearResult, Judged
    <3>2. Head(<<"part">>) = "part"
      BY ShortPipes
    <3>3. PICK m \in Sayable : pipe = <<m>>
      BY <1>2, <3>1, <3>2 DEF Parsing
    <3>4. verdict'.cause = m /\ m \in Parsed[content]
      BY <3>1, <3>3, ShortPipes DEF Sayable
    <3>5. CausesAreTrue'
      BY <1>1, <1>3, <3>4 DEF CausesAreTrue
    <3>. QED  BY <3>1, <3>5
  <2>4. CASE HalfHeard
    <3>1. /\ task = "parse" /\ task' = "reap" /\ pipe = <<"part">> /\ child = "gone"
          /\ verdict' = [cause |-> "child_crashed", over |-> child]
      BY <2>4 DEF HalfHeard, Judged, Eof
    <3>2. \A m \in Sayable : pipe # <<m>>
      BY <1>3, <3>1, ShortPipes DEF Sayable
    <3>3. Unheard
      BY <1>2, <3>1, <3>2 DEF Parsing
    <3>4. CausesAreTrue'
      BY <1>1, <1>3, <3>1, <3>3 DEF CausesAreTrue, Unheard
    <3>. QED  BY <3>1, <3>4
  <2>5. CASE NoResult
    <3>1. /\ task = "parse" /\ task' = "reap" /\ pipe = <<>>
          /\ verdict' = [cause |-> IF child = "gone" THEN "child_crashed" ELSE "timeout", over |-> child]
      BY <2>5 DEF NoResult, Judged, Eof
    <3>2. (\A m \in Sayable : pipe # <<m>>) /\ pipe # <<"part">>
      BY <3>1, ShortPipes
    <3>3. child = "parsing" \/ (child = "gone" /\ Unheard)
      BY <1>2, <3>1, <3>2 DEF Parsing
    <3>4. CausesAreTrue'
      BY <1>1, <1>3, <3>1, <3>3 DEF CausesAreTrue, Unheard
    <3>. QED  BY <3>1, <3>4
  <2>. QED  BY <2>1, <2>2, <2>3, <2>4, <2>5
<1>5. HearingFits' /\ NobodyIsLeft'
  BY <1>4 DEF HearingFits, NobodyIsLeft
<1>6. ExtractionShape'
  BY <1>1, <1>4 DEF ExtractionInv, ExtractionShape, Tasks
<1>7. WorkFits' /\ ResultIsWhole'
  BY <1>1, <1>4, WorkFacts DEF WorkFits, ResultIsWhole
<1>8. StageIsTrue' /\ ResumeIsWhole'
  BY <1>1, WorkFacts DEF StageIsTrue, ResumeIsWhole
<1>. QED  BY <1>4, <1>5, <1>6, <1>7, <1>8 DEF ExtractionInv, ExtractionsHold

(* _terminate, and the worker's own end: the child is gone either way.     *)
LEMMA ReapStep ==
  ASSUME ExtractionInv, Reap
  PROVE  ExtractionInv'
<1>1. /\ task = "reap" /\ child' = "none" /\ task' \in {"extracted", "refused"}
      /\ (task' = "extracted" => verdict.cause = "ok")
      /\ UNCHANGED <<content, attempts, verdict, jobs, artifact, error, spawns, troubles>>
  BY DEF Reap, Reaped, Unwritten, Undisturbed
<1>2. verdict.cause = "ok" => content = "good"
  BY WorkFacts, WhatIsParsed DEF ExtractionShape, CausesAreTrue
<1>3. ExtractionShape'
  BY <1>1 DEF ExtractionInv, ExtractionShape, Tasks
<1>4. HearingFits' /\ NobodyIsLeft'
  BY <1>1 DEF HearingFits, NobodyIsLeft
<1>5. WorkFits' /\ ResultIsWhole'
  BY <1>1, <1>2, WorkFacts DEF WorkFits, ResultIsWhole
<1>6. CausesAreTrue' /\ StageIsTrue' /\ ResumeIsWhole'
  BY <1>1, WorkFacts DEF CausesAreTrue, StageIsTrue, ResumeIsWhole
<1>. QED  BY <1>3, <1>4, <1>5, <1>6 DEF ExtractionInv, ExtractionsHold

LEMMA WorkerDiesStep ==
  ASSUME ExtractionInv, WorkerDies
  PROVE  ExtractionInv'
<1>1. /\ task' = "queued" /\ child' = "none" /\ verdict' = Unjudged /\ troubles' = troubles + 1
      /\ UNCHANGED <<content, attempts, jobs, artifact, error, spawns>>
  BY DEF WorkerDies, Unwritten, Trouble
<1>2. ExtractionShape'
  BY <1>1 DEF ExtractionInv, ExtractionShape, Tasks
<1>3. HearingFits' /\ NobodyIsLeft' /\ ResultIsWhole'
  BY <1>1 DEF HearingFits, NobodyIsLeft, ResultIsWhole
<1>4. WorkFits'
  BY <1>1, WorkFacts DEF ExtractionShape, WorkFits, Spared
<1>5. CausesAreTrue'
  BY <1>1 DEF CausesAreTrue, Unjudged
<1>6. StageIsTrue' /\ ResumeIsWhole'
  BY <1>1, WorkFacts DEF ExtractionShape, StageIsTrue, ResumeIsWhole
<1>. QED  BY <1>2, <1>3, <1>4, <1>5, <1>6 DEF ExtractionInv, ExtractionsHold

(* _failing_stage finds the first row that failed.                         *)
LEMMA ExtractFails ==
  ASSUME jobs["extract"] = "failed"
  PROVE  FailingStage(jobs) = "extract"
<1>. DEFINE failed == {i \in 1 .. 3 : jobs[Stages[i]] = "failed"}
<1>1. Stages[1] = "extract"
  BY DEF Stages
<1>2. 1 \in failed /\ \A t \in failed : 1 <= t
  BY <1>1
<1>3. FirstOf(failed) = 1
  <2>1. failed # {} /\ \E s \in failed : \A t \in failed : s <= t
    BY <1>2
  <2>2. FirstOf(failed) \in failed /\ \A t \in failed : FirstOf(failed) <= t
    BY <2>1 DEF FirstOf
  <2>3. FirstOf(failed) \in Int /\ FirstOf(failed) <= 1 /\ 1 <= FirstOf(failed)
    BY <1>2, <2>2
  <2>. QED  BY <2>3
<1>. QED  BY <1>1, <1>3 DEF FailingStage

(* The stages that follow, each a step of the worker alone.                *)
LEMMA StageSteps ==
  ASSUME ExtractionInv,
         Refuse \/ FailPermanently \/ CleanBegins \/ PutArtifact \/ CleanEnds \/ Spoil \/ ChunkBegins \/ ChunkEnds
  PROVE  ExtractionInv'
<1>1. /\ UNCHANGED <<content, attempts, spawns>> /\ NoChild /\ troubles' \in Nat /\ troubles <= troubles'
      /\ \/ task' = task
         \/ task \notin {"boot", "parse", "reap"} /\ task' \in Tasks \ {"boot", "parse", "reap", "queued", "extract"}
  BY DEF Refuse, FailPermanently, CleanBegins, PutArtifact, CleanEnds, Spoil, ChunkBegins, ChunkEnds, Goes, Undisturbed,
         Trouble, Tasks, ExtractionInv, ExtractionShape
<1>2. HearingFits' /\ CausesAreTrue' /\ NobodyIsLeft'
  BY <1>1, ChildAside
<1>3. jobs \in JobRows /\ artifact \in {"none", "sound", "unusable"} /\ spawns \in Nat /\ troubles \in Nat
  BY DEF ExtractionInv, ExtractionShape
<1>4. /\ jobs' \in JobRows /\ artifact' \in {"none", "sound", "unusable"}
      /\ WorkFits' /\ ResultIsWhole' /\ ResumeIsWhole' /\ StageIsTrue'
  <2>1. CASE Refuse
    <3>1. /\ task' = "failing" /\ jobs' = Ended("extract", "failed") /\ UNCHANGED <<artifact, error, troubles>>
      BY <2>1 DEF Refuse, Goes, Undisturbed
    <3>2. jobs' \in JobRows /\ jobs'["extract"] = "failed" /\ jobs'["clean"] = jobs["clean"]
      BY <1>3, <3>1, RowsOfJobs DEF StageNames
    <3>. QED  BY <1>1, <1>3, <3>1, <3>2, WorkFacts DEF WorkFits, ResultIsWhole, ResumeIsWhole, StageIsTrue
  <2>2. CASE FailPermanently
    <3>1. /\ task = "failing" /\ task' = "failed" /\ UNCHANGED <<artifact, jobs, troubles>>
          /\ error' = [stage |-> FailingStage(jobs), broke |-> "extract", retryable |-> FALSE, cause |-> verdict.cause]
      BY <2>2 DEF FailPermanently, Goes, Undisturbed
    <3>2. FailingStage(jobs) = "extract"
      BY <3>1, WorkFacts, ExtractFails DEF WorkFits
    <3>. QED  BY <1>1, <1>3, <3>1, <3>2, WorkFacts DEF WorkFits, ResultIsWhole, ResumeIsWhole, StageIsTrue
  <2>3. CASE CleanBegins
    <3>1. /\ task = "extracted" /\ task' = "put" /\ UNCHANGED <<artifact, error, troubles>>
          /\ jobs' = [jobs EXCEPT !["extract"] = "succeeded", !["clean"] = "running"]
      BY <2>3 DEF CleanBegins, Goes, Undisturbed
    <3>2. jobs' \in JobRows /\ jobs'["clean"] = "running"
      BY <1>3, <3>1 DEF JobRows, StageNames
    <3>. QED  BY <1>1, <1>3, <3>1, <3>2, WorkFacts DEF WorkFits, ResultIsWhole, ResumeIsWhole, StageIsTrue
  <2>4. CASE PutArtifact
    <3>1. task = "put" /\ task' = "kept" /\ artifact' = "sound" /\ UNCHANGED <<jobs, error, troubles>>
      BY <2>4 DEF PutArtifact, Goes, Undisturbed
    <3>. QED  BY <1>1, <1>3, <3>1, WorkFacts DEF WorkFits, ResultIsWhole, ResumeIsWhole, StageIsTrue
  <2>5. CASE CleanEnds
    <3>1. /\ task = "kept" /\ task' = "cleaned" /\ jobs' = Ended("clean", "succeeded")
          /\ UNCHANGED <<artifact, error, troubles>>
      BY <2>5 DEF CleanEnds, Goes, Undisturbed
    <3>2. jobs' \in JobRows /\ jobs'["clean"] = "succeeded"
      BY <1>3, <3>1, RowsOfJobs DEF StageNames
    <3>. QED  BY <1>1, <1>3, <3>1, <3>2, WorkFacts
              DEF WorkFits, Spared, Resumes, ResultIsWhole, ResumeIsWhole, StageIsTrue
  <2>6. CASE Spoil
    <3>1. /\ artifact = "sound" /\ artifact' = "unusable" /\ troubles' = troubles + 1
          /\ UNCHANGED <<task, jobs, error>>
      BY <2>6 DEF Spoil, Trouble
    <3>2. spawns' <= troubles'
      BY <1>1, <1>3, <3>1, WorkFacts
    <3>. QED  BY <1>1, <1>3, <3>1, <3>2, WorkFacts
              DEF WorkFits, Spared, ResultIsWhole, ResumeIsWhole, StageIsTrue
  <2>7. CASE ChunkBegins
    <3>1. task = "cleaned" /\ task' = "cut" /\ jobs' = Begun("chunk") /\ UNCHANGED <<artifact, error, troubles>>
      BY <2>7 DEF ChunkBegins, Goes, Undisturbed
    <3>2. jobs' \in JobRows /\ jobs'["clean"] = jobs["clean"]
      BY <1>3, <3>1, RowsOfJobs DEF StageNames
    <3>. QED  BY <1>1, <1>3, <3>1, <3>2, WorkFacts
              DEF WorkFits, Spared, Resumes, ResultIsWhole, ResumeIsWhole, StageIsTrue
  <2>8. CASE ChunkEnds
    <3>1. /\ task = "cut" /\ task' = "done" /\ jobs' = Ended("chunk", "succeeded")
          /\ UNCHANGED <<artifact, error, troubles>>
      BY <2>8 DEF ChunkEnds, Goes, Undisturbed
    <3>2. jobs' \in JobRows /\ jobs'["clean"] = jobs["clean"]
      BY <1>3, <3>1, RowsOfJobs DEF StageNames
    <3>. QED  BY <1>1, <1>3, <3>1, <3>2, WorkFacts DEF WorkFits, ResultIsWhole, ResumeIsWhole, StageIsTrue
  <2>. QED  BY <2>1, <2>2, <2>3, <2>4, <2>5, <2>6, <2>7, <2>8
<1>5. ExtractionShape'
  BY <1>1, <1>4 DEF ExtractionInv, ExtractionShape, NoChild, Tasks
<1>. QED  BY <1>2, <1>4, <1>5 DEF ExtractionInv, ExtractionsHold

(* What leaves all but the orphans alone changes nothing of this.          *)
LEMMA ExtractionStays ==
  ASSUME ExtractionInv,
         UNCHANGED <<content, task, attempts, child, pipe, verdict, jobs, artifact, error, spawns, troubles>>
  PROVE  ExtractionInv'
<1>1. ExtractionShape' /\ WorkFits'
  BY DEF ExtractionInv, ExtractionShape, WorkFits, Spared, Resumes
<1>2. HearingFits'
  BY DEF ExtractionInv, HearingFits, Booting, Parsing, Sayable, Unheard
<1>3. ExtractionsHold'
  BY DEF ExtractionInv, ExtractionsHold, ResultIsWhole, CausesAreTrue, NobodyIsLeft, ResumeIsWhole, StageIsTrue
<1>. QED  BY <1>1, <1>2, <1>3 DEF ExtractionInv

LEMMA ExtractionBegins ==
  ASSUME ExtractionInit
  PROVE  ExtractionInv
<1>1. /\ content \in Contents /\ task = "queued" /\ attempts = 1 /\ child = "none" /\ verdict = Unjudged
      /\ jobs = [s \in {"extract", "clean", "chunk"} |-> "none"] /\ artifact = "none" /\ error = NoError
      /\ spawns = 0 /\ troubles = 0
  BY DEF ExtractionInit, ExtractionBegin
<1>2. ExtractionShape
  BY <1>1 DEF ExtractionShape, Tasks, JobRows, StageNames
<1>3. HearingFits /\ WorkFits
  BY <1>1 DEF HearingFits, WorkFits, Spared
<1>4. ExtractionsHold
  BY <1>1 DEF ExtractionsHold, ResultIsWhole, CausesAreTrue, NobodyIsLeft, ResumeIsWhole, StageIsTrue, Unjudged, NoError
<1>. QED  BY <1>2, <1>3, <1>4 DEF ExtractionInv

LEMMA ExtractionStep ==
  ASSUME ExtractionInv, ExtractionNext \/ UNCHANGED extractionVars
  PROVE  ExtractionInv'
<1>1. CASE UNCHANGED extractionVars
  BY <1>1, ExtractionStays DEF extractionVars
<1>2. CASE OrphanEnds
  BY <1>2, ExtractionStays DEF OrphanEnds, Unwritten, NoChild
<1>. QED  BY <1>1, <1>2, TakeSteps, RetrySteps, MissingStep, SpawnStep, ChildSteps, HeardSteps, ReapStep, WorkerDiesStep, StageSteps
          DEF ExtractionNext, WorkerWorks

(* documents.py, purge.py, ingestion.py and run_isolated: the rows and the *)
(* object store agree whatever fails between them, and what an extraction  *)
(* hands on is what a child sent whole, its causes the true ones.          *)
THEOREM UploadsHold == IntakeSpec => []UploadsAreSound
<1>. DEFINE IntakeInv == LibraryInv /\ ExtractionInv
<1>1. LibraryInit /\ ExtractionInit => IntakeInv
  BY LibraryBegins, ExtractionBegins
<1>2. IntakeInv /\ [IntakeNext]_intakeVars => IntakeInv'
  <2>. SUFFICES ASSUME LibraryInv, ExtractionInv, [IntakeNext]_intakeVars PROVE IntakeInv'
    OBVIOUS
  <2>1. [LibraryNext]_libraryVars
    BY DEF IntakeNext, intakeVars
  <2>2. ExtractionNext \/ UNCHANGED extractionVars
    BY DEF IntakeNext, intakeVars
  <2>. QED  BY <2>1, <2>2, LibraryStep, ExtractionStep
<1>3. IntakeInv => UploadsAreSound
  BY DEF LibraryInv, ExtractionInv, UploadsAreSound
<1>. QED  BY <1>1, <1>2, <1>3, PTL DEF IntakeSpec

-----------------------------------------------------------------------------
(* Every place is picked, and behind it stand no more than there is room.  *)
LEMMA EveryPlaceIsPicked ==
  ASSUME NEW places \in SUBSET Int, IsFiniteSet(places), NEW i \in places
  PROVE  \E n \in 1 .. Cardinality(places) : Nth(n, places) = i
<1>. DEFINE A == {j \in places : j <= i}
            n == Cardinality(A)
<1>1. \A j \in places : j \in Int
  OBVIOUS
<1>2. IsFiniteSet(A) /\ n \in Nat /\ n <= Cardinality(places)
  BY FS_Subset, FS_CardinalityType
<1>3. n # 0
  <2>1. i \in A
    BY <1>1
  <2>. HIDE DEF A
  <2>. QED  BY <1>2, <2>1, FS_EmptySet
<1>4. Cardinality(places) \in Nat /\ n \in 1 .. Cardinality(places)
  BY <1>2, <1>3, FS_CardinalityType
<1>. DEFINE c == Nth(n, places)
            B == {j \in places : j <= c}
<1>. HIDE DEF n
<1>5. c \in places /\ Cardinality(B) = n
  BY <1>4, NthIsAPlace
<1>. HIDE DEF c
<1>6. IsFiniteSet(B)
  BY FS_Subset
<1>7. A = B
  <2>1. CASE c <= i
    <3>1. \A j \in places : j <= c => j <= i
      BY <1>1, <1>5, <2>1
    <3>2. B \subseteq A
      BY <3>1
    <3>. QED  BY <1>2, <1>5, <3>2, FS_Subset DEF n
  <2>2. CASE i <= c
    <3>1. \A j \in places : j <= i => j <= c
      BY <1>1, <1>5, <2>2
    <3>2. A \subseteq B
      BY <3>1
    <3>. QED  BY <1>6, <1>5, <3>2, FS_Subset DEF n
  <2>. QED  BY <1>1, <1>5, <2>1, <2>2
<1>8. i \in B /\ c \in A
  BY <1>1, <1>5, <1>7
<1>9. i = c
  BY <1>1, <1>5, <1>8
<1>. QED  BY <1>4, <1>9 DEF c

LEMMA RoomBehind ==
  ASSUME NEW l \in Nat, NEW places \in SUBSET (1 .. l), NEW n \in 1 .. Cardinality(places)
  PROVE  Cardinality(places) - n <= l - Nth(n, places)
<1>. DEFINE c == Nth(n, places)
            A == {j \in places : j <= c}
            room == (c + 1) .. l
<1>1. IsFiniteSet(places) /\ Cardinality(places) \in Nat
  <2>1. IsFiniteSet(1 .. l)
    BY FS_Interval
  <2>. QED  BY <2>1, FS_Subset, FS_CardinalityType
<1>2. places \in SUBSET Int
  OBVIOUS
<1>3. c \in places /\ Cardinality(A) = n
  BY <1>1, <1>2, NthIsAPlace
<1>4. c \in 1 .. l
  BY <1>3
<1>. HIDE DEF c
<1>5. /\ IsFiniteSet(places \ A)
      /\ Cardinality(places \ A) = Cardinality(places) - n
  <2>1. places \cap A = A
    OBVIOUS
  <2>. HIDE DEF A
  <2>. QED  BY <1>1, <1>3, <2>1, FS_Difference
<1>6. IsFiniteSet(room) /\ Cardinality(room) = l - c
  <2>1. c + 1 \in Int /\ l \in Int
    BY <1>4
  <2>2. IsFiniteSet(room) /\ Cardinality(room) = IF c + 1 > l THEN 0 ELSE l - (c + 1) + 1
    BY <2>1, FS_Interval
  <2>. HIDE DEF room
  <2>. QED  BY <1>4, <2>2
<1>7. places \ A \subseteq room
  <2>1. \A j \in places : j \in 1 .. l /\ (~ (j <= c) => j >= c + 1)
    BY <1>4
  <2>2. \A j \in places \ A : j \in 1 .. l /\ j >= c + 1
    BY <2>1
  <2>3. \A j : j \in 1 .. l /\ j >= c + 1 => j \in room
    BY <1>4
  <2>. QED  BY <2>2, <2>3
<1>8. Cardinality(places \ A) <= Cardinality(room)
  BY <1>6, <1>7, FS_Subset
<1>. QED  BY <1>5, <1>6, <1>8 DEF c

(***************************************************************************)
(* _history: of the visible rows the last ones, and of these what is told. *)
(***************************************************************************)
TellsTheLast(h, s, P, r, Q) ==
  \E place \in [1 .. Len(h) -> P] :
    /\ \A i \in 1 .. Len(h) : h[i] = s[place[i]] /\ \E j \in Q : r[j] = h[i]
    /\ \A i, j \in 1 .. Len(h) : i < j => place[i] < place[j]
    /\ \A k \in P : \/ \E i \in 1 .. Len(h) : place[i] = k
                    \/ k <= Len(s) - Window /\ \A i \in 1 .. Len(h) : k < place[i]
                    \/ \E j \in (1 .. Len(r)) \ Q : r[j] = s[k]

LEMMA RecentRows ==
  ASSUME NEW X, NEW s \in Seq(X), NEW P \in SUBSET (1 .. Len(s)), Window \in Nat \ {0},
         NEW r, r = Recent(Picked(s, P)), NEW Q \in SUBSET (1 .. Len(r))
  PROVE  r \in Seq(X) /\ Picked(r, Q) \in Seq(X) /\ TellsTheLast(Picked(r, Q), s, P, r, Q)
<1>. DEFINE v == Picked(s, P)
            h == Picked(r, Q)
<1>. DEFINE from == IF Len(v) > Window THEN Len(v) - Window + 1 ELSE 1
<1>1. /\ IsFiniteSet(P) /\ v \in Seq(X) /\ Len(v) = Cardinality(P) /\ Len(v) \in Nat /\ Len(s) \in Nat
      /\ \A n \in 1 .. Len(v) : Nth(n, P) \in P /\ v[n] = s[Nth(n, P)]
  BY PickedElements
<1>. HIDE DEF v
<1>2. P \in SUBSET Int
  BY <1>1
<1>3. from \in Nat /\ 1 <= from /\ from <= Len(v) + 1 /\ Len(v) - Window < from
  BY <1>1
<1>4. r = SubSeq(v, from, Len(v))
  BY DEF Recent, v
<1>5. from > 1 => from = Len(v) - Window + 1
  BY <1>1
<1>. HIDE DEF from
<1>6. /\ r \in Seq(X) /\ Len(r) = Len(v) - from + 1
      /\ \A j \in 1 .. Len(r) : r[j] = v[from + j - 1]
  <2>1. \A i \in from .. Len(v) : v[i] \in X
    <3>1. \A i \in 1 .. Len(v) : v[i] \in X
      BY <1>1
    <3>. QED  BY <1>1, <1>3, <3>1
  <2>2. /\ r \in Seq(X) /\ Len(r) = IF from <= Len(v) THEN Len(v) - from + 1 ELSE 0
        /\ \A j \in 1 .. Len(v) - from + 1 : r[j] = v[from + j - 1]
    BY <1>1, <1>3, <1>4, <2>1, SubSeqProperties
  <2>. QED  BY <1>1, <1>3, <2>2
<1>7. /\ IsFiniteSet(Q) /\ h \in Seq(X) /\ Len(h) = Cardinality(Q) /\ Len(h) \in Nat
      /\ \A i \in 1 .. Len(h) : Nth(i, Q) \in Q /\ h[i] = r[Nth(i, Q)]
  BY <1>6, PickedElements
<1>. HIDE DEF h
<1>8. Q \in SUBSET Int
  BY <1>6
<1>. DEFINE at == [i \in 1 .. Len(h) |-> from + Nth(i, Q) - 1]
            place == [i \in 1 .. Len(h) |-> Nth(at[i], P)]
<1>9. \A i \in 1 .. Len(h) : at[i] \in 1 .. Len(v) /\ at[i] >= from /\ h[i] = v[at[i]]
  <2>. TAKE i \in 1 .. Len(h)
  <2>1. Nth(i, Q) \in 1 .. Len(r) /\ h[i] = r[Nth(i, Q)]
    BY <1>7
  <2>2. at[i] = from + Nth(i, Q) - 1
    OBVIOUS
  <2>3. at[i] \in 1 .. Len(v) /\ at[i] >= from
    BY <1>1, <1>3, <1>6, <2>1, <2>2
  <2>4. r[Nth(i, Q)] = v[from + Nth(i, Q) - 1]
    BY <1>6, <2>1
  <2>. QED  BY <2>1, <2>2, <2>3, <2>4
<1>10. \A i, j \in 1 .. Len(h) : i < j => at[i] < at[j]
  <2>. SUFFICES ASSUME NEW i \in 1 .. Len(h), NEW j \in 1 .. Len(h), i < j PROVE at[i] < at[j]
    OBVIOUS
  <2>1. Nth(i, Q) < Nth(j, Q) /\ Nth(i, Q) \in Int /\ Nth(j, Q) \in Int
    BY <1>7, <1>8, NthGrows
  <2>. QED  BY <1>3, <2>1
<1>. HIDE DEF at
<1>11. place \in [1 .. Len(h) -> P]
  BY <1>1, <1>9
<1>12. \A i \in 1 .. Len(h) : h[i] = s[place[i]] /\ \E j \in Q : r[j] = h[i]
  BY <1>1, <1>7, <1>9
<1>13. \A i, j \in 1 .. Len(h) : i < j => place[i] < place[j]
  BY <1>1, <1>2, <1>9, <1>10, NthGrows
<1>14. ASSUME NEW k \in P
       PROVE  \/ \E i \in 1 .. Len(h) : place[i] = k
              \/ k <= Len(s) - Window /\ \A i \in 1 .. Len(h) : k < place[i]
              \/ \E j \in (1 .. Len(r)) \ Q : r[j] = s[k]
  <2>1. PICK n \in 1 .. Len(v) : Nth(n, P) = k
    BY <1>1, <1>2, EveryPlaceIsPicked
  <2>2. CASE n < from
    <3>1. Len(v) - n <= Len(s) - k
      BY <1>1, <2>1, RoomBehind
    <3>2. k \in Int
      BY <1>2
    <3>3. k <= Len(s) - Window
      BY <1>1, <1>3, <1>5, <2>2, <3>1, <3>2
    <3>4. \A i \in 1 .. Len(h) : n < at[i]
      BY <1>3, <1>9, <2>2
    <3>5. \A i \in 1 .. Len(h) : k < place[i]
      BY <1>1, <1>2, <1>9, <2>1, <3>4, NthGrows
    <3>. QED  BY <3>3, <3>5
  <2>3. CASE n >= from
    <3>. DEFINE j == n - from + 1
    <3>1. j \in 1 .. Len(r) /\ from + j - 1 = n
      BY <1>1, <1>3, <1>6, <2>3
    <3>2. r[j] = s[k]
      BY <1>1, <1>6, <2>1, <3>1
    <3>3. CASE j \in Q
      <4>1. PICK i \in 1 .. Len(h) : Nth(i, Q) = j
        BY <1>7, <1>8, <3>3, EveryPlaceIsPicked
      <4>2. at[i] = n
        BY <3>1, <4>1 DEF at
      <4>. QED  BY <2>1, <4>2
    <3>. QED  BY <3>1, <3>2, <3>3
  <2>. QED  BY <1>1, <1>3, <2>2, <2>3
<1>. HIDE DEF place
<1>15. TellsTheLast(h, s, P, r, Q)
  BY <1>11, <1>12, <1>13, <1>14 DEF TellsTheLast
<1>. QED  BY <1>6, <1>7, <1>15 DEF h

(***************************************************************************)
(* Composing: the values of the variables.                                 *)
(***************************************************************************)
Spoken == [turn : Nat, role : {"user", "assistant"}]
TurnStages == {"idle", "asked", "sent", "over"} \union Composing
Templates == [Owners -> [live : BOOLEAN, active : 0 .. 2]]
Statuses == {"none", "draft", "published", "archived"}
Chosen == (Owners \union {"none"}) \X (0 .. 2)
Prepared == [prompt : Chosen, history : Seq(Spoken), query : Seq(Spoken), retrieved : BOOLEAN, context : BOOLEAN]
Taking == DOMAIN request
Everyone == 1 .. TurnsBefore \union Taking
ComposerShape ==
  /\ Taking \in SUBSET (Nat \ (0 .. TurnsBefore)) /\ request \in [Taking -> Prepared]
  /\ talk \in Seq(Spoken) /\ stage \in [Everyone -> TurnStages] /\ text \in [Everyone -> {"empty", "part", "whole"}]
  /\ template \in Templates /\ version \in [Owners -> [Versions -> Statuses]]
  /\ chosen \in [Taking -> Chosen] /\ offered \in [Taking -> SUBSET Templates]
  /\ seen \in [Taking -> SUBSET Spoken] /\ edits \in Nat

(* The rows of a conversation: each is there once, when its turn has come  *)
(* so far, and an answer has no words before it is over.                   *)
RowsStand ==
  /\ \A i \in 1 .. Len(talk) : talk[i].turn \in Everyone
  /\ \A i, j \in 1 .. Len(talk) : i # j => talk[i] # talk[j]
  /\ \A t \in Taking :
       /\ stage[t] = "idle" => \A i \in 1 .. Len(talk) : talk[i].turn # t
       /\ stage[t] = "asked" => \A i \in 1 .. Len(talk) : talk[i].turn = t => talk[i].role = "user"
       /\ stage[t] # "over" => text[t] = "empty"

(* HistoryIsRecent, said of places instead of the place of a row.          *)
InTalk(m) == \E i \in 1 .. Len(talk) : talk[i] = m
ReadOf(t) ==
  LET told == request[t].history
      others == {m \in seen[t] : m.turn # t}
  IN /\ \A i, j \in 1 .. Len(talk), m, n \in 1 .. Len(told) :
          m < n /\ talk[i] = told[m] /\ talk[j] = told[n] => i < j
     /\ \A i \in 1 .. Len(talk) : talk[i] \in others /\ i > Len(talk) - Window => talk[i] \in SetOf(told)
     /\ \A i, j \in 1 .. Len(talk) : talk[i] \in others \ SetOf(told) /\ talk[j] \in SetOf(told) => i < j
ReadingsStand ==
  \A t \in Taking :
    /\ \A m \in seen[t] : InTalk(m)
    /\ \A i \in 1 .. Len(request[t].history) : InTalk(request[t].history[i])
    /\ stage[t] \in {"history", "sent"} => ReadOf(t)

(* What by_key has returned was in force while the turn was composed.      *)
WasInForce(t, p) ==
  /\ p[1] \in Owners /\ p[2] \in Versions
  /\ \E rows \in offered[t] : Foremost(rows, p)
PromptsStand ==
  \A t \in Taking :
    /\ stage[t] \in {"idle", "asked"} => request[t].prompt = Nothing
    /\ stage[t] \in Composing => template \in offered[t]
    /\ stage[t] = "prompt" => WasInForce(t, chosen[t])
    /\ request[t].prompt # Nothing =>
         WasInForce(t, request[t].prompt)
         /\ version[request[t].prompt[1]][request[t].prompt[2]] \in {"published", "archived"}
ComposerInv == ComposerShape /\ RowsStand /\ QuestionIsAskedOnce /\ ReadingsStand /\ PromptsStand

LEMMA MovesOf ==
  ASSUME ComposerShape, NEW t, NEW from, NEW to \in TurnStages, Moves(t, from, to)
  PROVE  /\ t \in Taking /\ t \in Everyone /\ stage[t] = from /\ stage'[t] = to
         /\ stage' \in [Everyone -> TurnStages] /\ \A u \in Everyone : u # t => stage'[u] = stage[u]
BY DEF ComposerShape, Moves, Taking, Everyone

(* What is left alone stays as it stands.                                  *)
LEMMA ReadingsStay ==
  ASSUME ReadingsStand, UNCHANGED <<talk, seen>>, Taking' = Taking,
         \A u \in Taking : request'[u].history = request[u].history,
         \A u \in Taking : stage'[u] \in {"history", "sent"} => stage[u] \in {"history", "sent"}
  PROVE  ReadingsStand'
<1>. SUFFICES ASSUME NEW u \in Taking
              PROVE  /\ \A m \in seen[u] : InTalk(m)'
                     /\ \A i \in 1 .. Len(request[u].history) : InTalk(request[u].history[i])'
                     /\ stage'[u] \in {"history", "sent"} => ReadOf(u)'
  BY DEF ReadingsStand
<1>1. \A m : InTalk(m)' <=> InTalk(m)
  BY DEF InTalk
<1>2. ReadOf(u)' <=> ReadOf(u)
  BY DEF ReadOf
<1>. QED  BY <1>1, <1>2 DEF ReadingsStand

LEMMA RowsStay ==
  ASSUME RowsStand, UNCHANGED <<talk, text>>, Taking' = Taking,
         \A u \in Taking : /\ stage'[u] \in {"idle", "asked"} => stage'[u] = stage[u]
                           /\ stage'[u] # "over" => stage[u] # "over"
  PROVE  RowsStand'
<1>1. Everyone' = Everyone
  BY DEF Everyone
<1>. QED  BY <1>1 DEF RowsStand

LEMMA PromptsStay ==
  ASSUME PromptsStand, UNCHANGED <<template, version, chosen, offered>>, Taking' = Taking,
         \A u \in Taking : request'[u].prompt = request[u].prompt,
         \A u \in Taking : /\ stage'[u] \in {"idle", "asked"} => stage[u] \in {"idle", "asked"}
                           /\ stage'[u] \in Composing => stage[u] \in Composing
                           /\ stage'[u] = "prompt" => stage[u] = "prompt"
  PROVE  PromptsStand'
<1>1. \A u, p : WasInForce(u, p)' <=> WasInForce(u, p)
  BY DEF WasInForce
<1>. QED  BY <1>1 DEF PromptsStand

LEMMA QuestionsStay ==
  ASSUME QuestionIsAskedOnce, UNCHANGED text, Taking' = Taking,
         \A u \in Taking : request'[u].history = request[u].history
  PROVE  QuestionIsAskedOnce'
BY DEF QuestionIsAskedOnce, Taking

(* append: a row that was not there, behind the others.                    *)
LEMMA TalkGrows ==
  ASSUME ComposerShape, RowsStand, ReadingsStand, NEW m \in Spoken, talk' = Append(talk, m),
         \A i \in 1 .. Len(talk) : talk[i] # m, UNCHANGED <<request, seen>>,
         Window \in Nat,
         \A u \in Taking : stage'[u] \in {"history", "sent"} => stage[u] \in {"history", "sent"}
  PROVE  /\ talk' \in Seq(Spoken) /\ Len(talk') = Len(talk) + 1 /\ talk'[Len(talk) + 1] = m
         /\ \A i \in 1 .. Len(talk) : talk'[i] = talk[i]
         /\ \A i, j \in 1 .. Len(talk') : i # j => talk'[i] # talk'[j]
         /\ ReadingsStand'
<1>1. talk \in Seq(Spoken) /\ Len(talk) \in Nat
  BY DEF ComposerShape
<1>2. /\ talk' \in Seq(Spoken) /\ Len(talk') = Len(talk) + 1 /\ talk'[Len(talk) + 1] = m
      /\ \A i \in 1 .. Len(talk) : talk'[i] = talk[i]
  BY <1>1, AppendProperties
<1>3. \A i \in 1 .. Len(talk') : i \in 1 .. Len(talk) \/ i = Len(talk) + 1
  BY <1>1, <1>2
<1>4. \A i, j \in 1 .. Len(talk') : i # j => talk'[i] # talk'[j]
  <2>. SUFFICES ASSUME NEW i \in 1 .. Len(talk'), NEW j \in 1 .. Len(talk'), i # j
                PROVE  talk'[i] # talk'[j]
    OBVIOUS
  <2>. QED  BY <1>2, <1>3 DEF RowsStand
<1>5. \A x : InTalk(x) => InTalk(x)'
  BY <1>1, <1>2 DEF InTalk
<1>6. ~ InTalk(m)
  BY DEF InTalk
<1>7. ASSUME NEW u \in Taking, stage[u] \in {"history", "sent"}
      PROVE  ReadOf(u)'
  <2>. DEFINE told == request[u].history
              others == {x \in seen[u] : x.turn # u}
  <2>1. told' = told /\ others' = others
    OBVIOUS
  <2>2. (\A x \in others : InTalk(x)) /\ \A n \in 1 .. Len(told) : InTalk(told[n])
    BY DEF ReadingsStand
  <2>3. m \notin others /\ m \notin SetOf(told) /\ \A n \in 1 .. Len(told) : told[n] # m
    BY <1>6, <2>2 DEF SetOf
  <2>4. ReadOf(u)
    BY <1>7 DEF ReadingsStand
  <2>5. /\ \A i, j \in 1 .. Len(talk), n, k \in 1 .. Len(told) :
              n < k /\ talk[i] = told[n] /\ talk[j] = told[k] => i < j
        /\ \A i \in 1 .. Len(talk) : talk[i] \in others /\ i > Len(talk) - Window => talk[i] \in SetOf(told)
        /\ \A i, j \in 1 .. Len(talk) : talk[i] \in others \ SetOf(told) /\ talk[j] \in SetOf(told) => i < j
    BY <2>4 DEF ReadOf
  <2>. HIDE DEF told, others
  <2>6. \A i, j \in 1 .. Len(talk'), n, k \in 1 .. Len(told) :
              n < k /\ talk'[i] = told[n] /\ talk'[j] = told[k] => i < j
    <3>. SUFFICES ASSUME NEW i \in 1 .. Len(talk'), NEW j \in 1 .. Len(talk'),
                         NEW n \in 1 .. Len(told), NEW k \in 1 .. Len(told),
                         n < k, talk'[i] = told[n], talk'[j] = told[k]
                  PROVE  i < j
      OBVIOUS
    <3>1. i \in 1 .. Len(talk) /\ j \in 1 .. Len(talk)
      BY <1>2, <1>3, <2>3
    <3>. QED  BY <1>2, <2>5, <3>1
  <2>7. \A i \in 1 .. Len(talk') : talk'[i] \in others /\ i > Len(talk') - Window => talk'[i] \in SetOf(told)
    <3>. SUFFICES ASSUME NEW i \in 1 .. Len(talk'), talk'[i] \in others, i > Len(talk') - Window
                  PROVE  talk'[i] \in SetOf(told)
      OBVIOUS
    <3>1. i \in 1 .. Len(talk)
      BY <1>2, <1>3, <2>3
    <3>2. i > Len(talk) - Window
      BY <1>1, <1>2, <3>1
    <3>. QED  BY <1>2, <2>5, <3>1, <3>2
  <2>8. \A i, j \in 1 .. Len(talk') : talk'[i] \in others \ SetOf(told) /\ talk'[j] \in SetOf(told) => i < j
    <3>. SUFFICES ASSUME NEW i \in 1 .. Len(talk'), NEW j \in 1 .. Len(talk'),
                         talk'[i] \in others \ SetOf(told), talk'[j] \in SetOf(told)
                  PROVE  i < j
      OBVIOUS
    <3>1. i \in 1 .. Len(talk) /\ j \in 1 .. Len(talk)
      BY <1>2, <1>3, <2>3
    <3>. QED  BY <1>2, <2>5, <3>1
  <2>9. SetOf(told)' = SetOf(told)
    BY <2>1 DEF SetOf
  <2>. QED  BY <2>1, <2>6, <2>7, <2>8, <2>9 DEF ReadOf, told, others
<1>8. ReadingsStand'
  <2>1. Taking' = Taking
    BY DEF Taking
  <2>. SUFFICES ASSUME NEW u \in Taking
                PROVE  /\ \A x \in seen[u] : InTalk(x)'
                       /\ \A i \in 1 .. Len(request[u].history) : InTalk(request[u].history[i])'
                       /\ stage'[u] \in {"history", "sent"} => ReadOf(u)'
    BY <2>1 DEF ReadingsStand
  <2>2. \A x \in seen[u] : InTalk(x)
    BY DEF ReadingsStand
  <2>3. \A i \in 1 .. Len(request[u].history) : InTalk(request[u].history[i])
    BY DEF ReadingsStand
  <2>. QED  BY <1>5, <1>7, <2>2, <2>3
<1>. QED  BY <1>2, <1>4, <1>8

LEMMA AskStep ==
  ASSUME ComposerInv, Window \in Nat, NEW t, Ask(t)
  PROVE  ComposerInv'
<1>1. ComposerShape /\ RowsStand /\ QuestionIsAskedOnce /\ ReadingsStand /\ PromptsStand
  BY DEF ComposerInv
<1>2. /\ Moves(t, "idle", "asked") /\ talk' = Append(talk, Question(t))
      /\ UNCHANGED <<text, template, version, chosen, offered, seen, request, edits>>
  BY DEF Ask
<1>3. /\ t \in Taking /\ t \in Everyone /\ stage[t] = "idle" /\ stage'[t] = "asked"
      /\ stage' \in [Everyone -> TurnStages] /\ \A u \in Everyone : u # t => stage'[u] = stage[u]
  BY <1>1, <1>2, MovesOf DEF TurnStages
<1>4. Taking' = Taking /\ Everyone' = Everyone /\ Taking \subseteq Everyone
  BY <1>2 DEF Taking, Everyone
<1>5. Question(t) \in Spoken /\ Question(t).turn = t /\ Question(t).role = "user"
  BY <1>1, <1>3 DEF Question, Message, Spoken, ComposerShape
<1>6. \A i \in 1 .. Len(talk) : talk[i] # Question(t)
  BY <1>1, <1>3, <1>5 DEF RowsStand
<1>7. /\ talk' \in Seq(Spoken) /\ Len(talk') = Len(talk) + 1 /\ talk'[Len(talk) + 1] = Question(t)
      /\ \A i \in 1 .. Len(talk) : talk'[i] = talk[i]
      /\ \A i, j \in 1 .. Len(talk') : i # j => talk'[i] # talk'[j]
      /\ ReadingsStand'
  <2>1. \A u \in Taking : stage'[u] \in {"history", "sent"} => stage[u] \in {"history", "sent"}
    BY <1>3, <1>4
  <2>2. UNCHANGED <<request, seen>>
    BY <1>2
  <2>. HIDE DEF Question
  <2>. QED  BY <1>1, <1>2, <1>5, <1>6, <2>1, <2>2, TalkGrows
<1>8. \A i \in 1 .. Len(talk') : i \in 1 .. Len(talk) \/ talk'[i] = Question(t)
  <2>1. Len(talk) \in Nat
    BY <1>1 DEF ComposerShape
  <2>2. \A i \in 1 .. Len(talk') : i \in 1 .. Len(talk) \/ i = Len(talk) + 1
    BY <1>7, <2>1
  <2>. QED  BY <1>7, <2>2
<1>9. ComposerShape'
  BY <1>1, <1>2, <1>3, <1>4, <1>7 DEF ComposerShape
<1>10. RowsStand'
  <2>1. \A i \in 1 .. Len(talk') : talk'[i].turn \in Everyone
    BY <1>1, <1>3, <1>5, <1>7, <1>8 DEF RowsStand
  <2>2. ASSUME NEW u \in Taking
        PROVE  /\ stage'[u] = "idle" => \A i \in 1 .. Len(talk') : talk'[i].turn # u
               /\ stage'[u] = "asked" => \A i \in 1 .. Len(talk') : talk'[i].turn = u => talk'[i].role = "user"
               /\ stage'[u] # "over" => text[u] = "empty"
    BY <1>1, <1>3, <1>4, <1>5, <1>7, <1>8 DEF RowsStand
  <2>. QED  BY <1>2, <1>4, <1>7, <2>1, <2>2 DEF RowsStand
<1>11. QuestionIsAskedOnce'
  BY <1>1, <1>2, <1>4, QuestionsStay
<1>12. PromptsStand'
  <2>1. \A u \in Taking : /\ stage'[u] \in {"idle", "asked"} => stage[u] \in {"idle", "asked"}
                          /\ stage'[u] \in Composing => stage[u] \in Composing
                          /\ stage'[u] = "prompt" => stage[u] = "prompt"
    BY <1>3, <1>4 DEF Composing
  <2>. QED  BY <1>1, <1>2, <1>4, <2>1, PromptsStay
<1>. QED  BY <1>7, <1>9, <1>10, <1>11, <1>12 DEF ComposerInv

LEMMA OpenTurnStep ==
  ASSUME ComposerInv, Window \in Nat, NEW t, OpenTurn(t)
  PROVE  ComposerInv'
<1>. DEFINE answer == Message(t, "assistant")
<1>1. ComposerShape /\ RowsStand /\ QuestionIsAskedOnce /\ ReadingsStand /\ PromptsStand
  BY DEF ComposerInv
<1>2. /\ Moves(t, "asked", "started") /\ talk' = Append(talk, answer)
      /\ offered' = [offered EXCEPT ![t] = {template}]
      /\ UNCHANGED <<text, template, version, chosen, seen, request, edits>>
  BY DEF OpenTurn
<1>3. /\ t \in Taking /\ t \in Everyone /\ stage[t] = "asked" /\ stage'[t] = "started"
      /\ stage' \in [Everyone -> TurnStages] /\ \A u \in Everyone : u # t => stage'[u] = stage[u]
  BY <1>1, <1>2, MovesOf DEF TurnStages, Composing
<1>4. Taking' = Taking /\ Everyone' = Everyone /\ Taking \subseteq Everyone
  BY <1>2 DEF Taking, Everyone
<1>5. answer \in Spoken /\ answer.turn = t /\ answer.role = "assistant"
  BY <1>1, <1>3 DEF Message, Spoken, ComposerShape
<1>. HIDE DEF answer
<1>6. \A i \in 1 .. Len(talk) : talk[i] # answer
  BY <1>1, <1>3, <1>5 DEF RowsStand
<1>7. /\ talk' \in Seq(Spoken) /\ Len(talk') = Len(talk) + 1 /\ talk'[Len(talk) + 1] = answer
      /\ \A i \in 1 .. Len(talk) : talk'[i] = talk[i]
      /\ \A i, j \in 1 .. Len(talk') : i # j => talk'[i] # talk'[j]
      /\ ReadingsStand'
  <2>1. \A u \in Taking : stage'[u] \in {"history", "sent"} => stage[u] \in {"history", "sent"}
    BY <1>3, <1>4
  <2>2. UNCHANGED <<request, seen>>
    BY <1>2
  <2>. QED  BY <1>1, <1>2, <1>5, <1>6, <2>1, <2>2, TalkGrows
<1>8. \A i \in 1 .. Len(talk') : i \in 1 .. Len(talk) \/ talk'[i] = answer
  <2>1. Len(talk) \in Nat
    BY <1>1 DEF ComposerShape
  <2>2. \A i \in 1 .. Len(talk') : i \in 1 .. Len(talk) \/ i = Len(talk) + 1
    BY <1>7, <2>1
  <2>. QED  BY <1>7, <2>2
<1>9. /\ offered' \in [Taking -> SUBSET Templates] /\ offered'[t] = {template}
      /\ \A u \in Taking : u # t => offered'[u] = offered[u]
  BY <1>1, <1>2, <1>3 DEF ComposerShape
<1>10. ComposerShape'
  BY <1>1, <1>2, <1>3, <1>4, <1>7, <1>9 DEF ComposerShape
<1>11. RowsStand'
  <2>1. \A i \in 1 .. Len(talk') : talk'[i].turn \in Everyone
    BY <1>1, <1>3, <1>5, <1>7, <1>8 DEF RowsStand
  <2>2. ASSUME NEW u \in Taking
        PROVE  /\ stage'[u] = "idle" => \A i \in 1 .. Len(talk') : talk'[i].turn # u
               /\ stage'[u] = "asked" => \A i \in 1 .. Len(talk') : talk'[i].turn = u => talk'[i].role = "user"
               /\ stage'[u] # "over" => text[u] = "empty"
    BY <1>1, <1>3, <1>4, <1>5, <1>7, <1>8 DEF RowsStand
  <2>. QED  BY <1>2, <1>4, <1>7, <2>1, <2>2 DEF RowsStand
<1>12. QuestionIsAskedOnce'
  BY <1>1, <1>2, <1>4, QuestionsStay
<1>13. PromptsStand'
  <2>. SUFFICES ASSUME NEW u \in Taking
                PROVE  /\ stage'[u] \in {"idle", "asked"} => request[u].prompt = Nothing
                       /\ stage'[u] \in Composing => template \in offered'[u]
                       /\ stage'[u] = "prompt" => WasInForce(u, chosen[u])'
                       /\ request[u].prompt # Nothing =>
                            WasInForce(u, request[u].prompt)'
                            /\ version[request[u].prompt[1]][request[u].prompt[2]] \in {"published", "archived"}
    BY <1>2, <1>4 DEF PromptsStand
  <2>1. CASE u = t
    <3>1. request[u].prompt = Nothing
      BY <1>1, <1>3, <2>1 DEF PromptsStand
    <3>. QED  BY <1>3, <1>9, <2>1, <3>1
  <2>2. CASE u # t
    <3>1. stage'[u] = stage[u] /\ offered'[u] = offered[u]
      BY <1>3, <1>4, <1>9, <2>2
    <3>2. WasInForce(u, chosen[u])' <=> WasInForce(u, chosen[u])
      BY <1>2, <3>1 DEF WasInForce
    <3>3. WasInForce(u, request[u].prompt)' <=> WasInForce(u, request[u].prompt)
      BY <1>2, <3>1 DEF WasInForce
    <3>. QED  BY <1>1, <3>1, <3>2, <3>3 DEF PromptsStand
  <2>. QED  BY <2>1, <2>2
<1>. QED  BY <1>7, <1>10, <1>11, <1>12, <1>13 DEF ComposerInv

(* A turn that is over, or goes on, without a change to what was read.     *)
LEMMA StageAlone ==
  ASSUME ComposerInv, NEW t, NEW from \in {"started", "prompt", "rendered", "history", "sent"},
         NEW to \in {"over", "prompt", "rendered", "sent"}, Moves(t, from, to), from = "history" \/ to # "sent",
         UNCHANGED <<talk, text, seen>>, Taking' = Taking,
         \A u \in Taking : request'[u].history = request[u].history
  PROVE  RowsStand' /\ QuestionIsAskedOnce' /\ ReadingsStand'
<1>1. ComposerShape /\ RowsStand /\ QuestionIsAskedOnce /\ ReadingsStand
  BY DEF ComposerInv
<1>2. /\ t \in Taking /\ t \in Everyone /\ stage[t] = from /\ stage'[t] = to
      /\ stage' \in [Everyone -> TurnStages] /\ \A u \in Everyone : u # t => stage'[u] = stage[u]
  BY <1>1, MovesOf DEF TurnStages, Composing
<1>3. \A u \in Taking : u = t \/ stage'[u] = stage[u]
  BY <1>2 DEF Everyone
<1>4. \A u \in Taking : /\ stage'[u] \in {"idle", "asked"} => stage'[u] = stage[u]
                        /\ stage'[u] # "over" => stage[u] # "over"
                        /\ stage'[u] \in {"history", "sent"} => stage[u] \in {"history", "sent"}
  BY <1>2, <1>3
<1>. QED  BY <1>1, <1>4, RowsStay, QuestionsStay, ReadingsStay

LEMMA FindPromptStep ==
  ASSUME ComposerInv, NEW t, FindPrompt(t)
  PROVE  ComposerInv'
<1>. DEFINE found == InForce(template)
            to == IF found[2] = 0 THEN "over" ELSE "prompt"
<1>1. ComposerShape /\ RowsStand /\ QuestionIsAskedOnce /\ ReadingsStand /\ PromptsStand
  BY DEF ComposerInv
<1>2. /\ Moves(t, "started", to) /\ chosen' = [chosen EXCEPT ![t] = found]
      /\ UNCHANGED <<talk, text, template, version, offered, seen, request, edits>>
  BY DEF FindPrompt
<1>3. template \in Templates
  BY <1>1 DEF ComposerShape
<1>4. /\ found \in Chosen
      /\ found[2] # 0 => /\ found[1] \in Owners /\ found[2] \in Versions
                         /\ template[found[1]].live /\ template[found[1]].active = found[2]
                         /\ found[1] = "system" => ~template["own"].live
  <2>1. CASE template["own"].live
    <3>1. found = <<"own", template["own"].active>> /\ template["own"].active \in 0 .. 2
      BY <1>3, <2>1 DEF InForce, ByKey, Templates, Owners
    <3>. QED  BY <2>1, <3>1 DEF Chosen, Owners, Versions
  <2>2. CASE ~template["own"].live /\ template["system"].live
    <3>1. found = <<"system", template["system"].active>> /\ template["system"].active \in 0 .. 2
      BY <1>3, <2>2 DEF InForce, ByKey, Templates, Owners
    <3>. QED  BY <2>2, <3>1 DEF Chosen, Owners, Versions
  <2>3. CASE ~template["own"].live /\ ~template["system"].live
    <3>1. found = <<"none", 0>>
      BY <2>3 DEF InForce, ByKey, Nothing
    <3>. QED  BY <3>1 DEF Chosen
  <2>. QED  BY <2>1, <2>2, <2>3
<1>. HIDE DEF found
<1>5. to \in {"over", "prompt"} /\ to \in TurnStages /\ (to = "prompt" => found[2] # 0)
  BY DEF TurnStages, Composing
<1>. HIDE DEF to
<1>6. /\ t \in Taking /\ t \in Everyone /\ stage[t] = "started" /\ stage'[t] = to
      /\ stage' \in [Everyone -> TurnStages] /\ \A u \in Everyone : u # t => stage'[u] = stage[u]
  BY <1>1, <1>2, <1>5, MovesOf
<1>7. Taking' = Taking /\ Everyone' = Everyone /\ Taking \subseteq Everyone
  BY <1>2 DEF Taking, Everyone
<1>8. RowsStand' /\ QuestionIsAskedOnce' /\ ReadingsStand'
  <2>1. \A u \in Taking : request'[u].history = request[u].history
    BY <1>2
  <2>. QED  BY <1>2, <1>5, <1>7, <2>1, StageAlone
<1>9. /\ chosen' \in [Taking -> Chosen] /\ chosen'[t] = found
      /\ \A u \in Taking : u # t => chosen'[u] = chosen[u]
  BY <1>1, <1>2, <1>4, <1>6 DEF ComposerShape
<1>10. ComposerShape'
  BY <1>1, <1>2, <1>6, <1>7, <1>9 DEF ComposerShape
<1>11. PromptsStand'
  <2>1. \A u, p : WasInForce(u, p)' <=> WasInForce(u, p)
    BY <1>2 DEF WasInForce
  <2>. SUFFICES ASSUME NEW u \in Taking
                PROVE  /\ stage'[u] \in {"idle", "asked"} => request[u].prompt = Nothing
                       /\ stage'[u] \in Composing => template \in offered[u]
                       /\ stage'[u] = "prompt" => WasInForce(u, chosen'[u])
                       /\ request[u].prompt # Nothing =>
                            WasInForce(u, request[u].prompt)
                            /\ version[request[u].prompt[1]][request[u].prompt[2]] \in {"published", "archived"}
    BY <1>2, <1>7 DEF PromptsStand, WasInForce
  <2>2. CASE u = t
    <3>1. template \in offered[u]
      BY <1>1, <1>6, <2>2 DEF PromptsStand, Composing
    <3>2. to = "prompt" => WasInForce(u, found)
      BY <1>4, <1>5, <3>1 DEF WasInForce, Foremost
    <3>. QED  BY <1>1, <1>5, <1>6, <1>9, <2>2, <3>1, <3>2 DEF PromptsStand
  <2>3. CASE u # t
    BY <1>1, <1>6, <1>7, <1>9, <2>3 DEF PromptsStand
  <2>. QED  BY <2>2, <2>3
<1>. QED  BY <1>8, <1>10, <1>11 DEF ComposerInv

LEMMA FindVersionStep ==
  ASSUME ComposerInv, NEW t, FindVersion(t)
  PROVE  ComposerInv'
<1>. DEFINE serves == Servable(chosen[t][1], chosen[t][2])
            p == IF serves THEN chosen[t] ELSE Nothing
            to == IF serves THEN "rendered" ELSE "over"
<1>1. ComposerShape /\ RowsStand /\ QuestionIsAskedOnce /\ ReadingsStand /\ PromptsStand
  BY DEF ComposerInv
<1>2. /\ Moves(t, "prompt", to) /\ request' = [request EXCEPT ![t].prompt = p]
      /\ UNCHANGED <<talk, text, template, version, chosen, offered, seen, edits>>
  BY DEF FindVersion
<1>3. to \in {"over", "rendered"} /\ to \in TurnStages
  BY DEF TurnStages, Composing
<1>4. /\ t \in Taking /\ t \in Everyone /\ stage[t] = "prompt" /\ stage'[t] = to
      /\ stage' \in [Everyone -> TurnStages] /\ \A u \in Everyone : u # t => stage'[u] = stage[u]
  <2>. HIDE DEF to
  <2>. QED  BY <1>1, <1>2, <1>3, MovesOf
<1>5. /\ p \in Chosen /\ WasInForce(t, chosen[t])
      /\ p # Nothing => p = chosen[t] /\ version[p[1]][p[2]] = "published"
  <2>1. chosen[t] \in Chosen
    BY <1>1, <1>4 DEF ComposerShape
  <2>2. Nothing \in Chosen
    BY DEF Chosen, Nothing
  <2>3. WasInForce(t, chosen[t])
    BY <1>1, <1>4 DEF PromptsStand
  <2>. QED  BY <2>1, <2>2, <2>3 DEF Servable
<1>. HIDE DEF p, to
<1>6. /\ request' \in [Taking -> Prepared] /\ request'[t].prompt = p
      /\ \A u \in Taking : /\ request'[u].history = request[u].history
                           /\ u # t => request'[u].prompt = request[u].prompt
  <2>1. request \in [Taking -> Prepared] /\ request[t] \in Prepared
    BY <1>1, <1>4 DEF ComposerShape
  <2>. DEFINE one == [request[t] EXCEPT !.prompt = p]
  <2>2. one \in Prepared /\ one.prompt = p /\ one.history = request[t].history
    <3>1. p \in Chosen
      BY <1>5
    <3>. QED  BY <2>1, <3>1 DEF Prepared
  <2>3. request' = [request EXCEPT ![t] = one]
    BY <1>2, <2>2
  <2>. QED  BY <1>4, <2>1, <2>2, <2>3
<1>7. Taking' = Taking /\ Everyone' = Everyone /\ Taking \subseteq Everyone
  BY <1>6 DEF Taking, Everyone
<1>8. RowsStand' /\ QuestionIsAskedOnce' /\ ReadingsStand'
  BY <1>2, <1>3, <1>6, <1>7, StageAlone
<1>9. ComposerShape'
  BY <1>1, <1>2, <1>4, <1>6, <1>7 DEF ComposerShape
<1>10. PromptsStand'
  <2>. SUFFICES ASSUME NEW u \in Taking
                PROVE  /\ stage'[u] \in {"idle", "asked"} => request'[u].prompt = Nothing
                       /\ stage'[u] \in Composing => template \in offered[u]
                       /\ stage'[u] = "prompt" => WasInForce(u, chosen[u])
                       /\ request'[u].prompt # Nothing =>
                            WasInForce(u, request'[u].prompt)
                            /\ version[request'[u].prompt[1]][request'[u].prompt[2]] \in {"published", "archived"}
    BY <1>2, <1>7 DEF PromptsStand, WasInForce
  <2>1. CASE u = t
    <3>1. template \in offered[u]
      BY <1>1, <1>4, <2>1 DEF PromptsStand, Composing
    <3>. QED  BY <1>3, <1>4, <1>5, <1>6, <2>1, <3>1
  <2>2. CASE u # t
    BY <1>1, <1>4, <1>6, <1>7, <2>2 DEF PromptsStand
  <2>. QED  BY <2>1, <2>2
<1>. QED  BY <1>8, <1>9, <1>10 DEF ComposerInv

(* RenderFails, RetrievalFails, Compose and Finish: the end of composing.  *)
LEMMA PromptsLeft ==
  ASSUME ComposerInv, NEW t, NEW from \in {"prompt", "history", "sent"}, NEW to \in {"over", "sent"}, Moves(t, from, to),
         UNCHANGED <<template, version, chosen, offered>>, Taking' = Taking,
         \A u \in Taking : request'[u].prompt = request[u].prompt
  PROVE  PromptsStand'
<1>1. ComposerShape /\ PromptsStand
  BY DEF ComposerInv
<1>2. /\ t \in Taking /\ t \in Everyone /\ stage[t] = from /\ stage'[t] = to
      /\ stage' \in [Everyone -> TurnStages] /\ \A u \in Everyone : u # t => stage'[u] = stage[u]
  BY <1>1, MovesOf DEF TurnStages, Composing
<1>3. \A u \in Taking : u = t \/ stage'[u] = stage[u]
  BY <1>2 DEF Everyone
<1>4. \A u \in Taking : /\ stage'[u] \in {"idle", "asked"} => stage[u] \in {"idle", "asked"}
                        /\ stage'[u] \in Composing => stage[u] \in Composing
                        /\ stage'[u] = "prompt" => stage[u] = "prompt"
  BY <1>2, <1>3 DEF Composing
<1>. QED  BY <1>1, <1>4, PromptsStay

LEMMA TurnFails ==
  ASSUME ComposerInv, NEW t, RenderFails(t) \/ RetrievalFails(t)
  PROVE  ComposerInv'
<1>1. PICK from \in {"prompt", "history"} :
        /\ Moves(t, from, "over")
        /\ UNCHANGED <<talk, text, template, version, chosen, offered, seen, request, edits>>
  BY DEF RenderFails, RetrievalFails
<1>2. Taking' = Taking /\ Everyone' = Everyone
  BY <1>1 DEF Taking, Everyone
<1>3. \A u \in Taking : request'[u].prompt = request[u].prompt /\ request'[u].history = request[u].history
  BY <1>1
<1>4. RowsStand' /\ QuestionIsAskedOnce' /\ ReadingsStand'
  BY <1>1, <1>2, <1>3, StageAlone
<1>5. PromptsStand'
  BY <1>1, <1>2, <1>3, PromptsLeft
<1>6. ComposerShape /\ stage' \in [Everyone -> TurnStages]
  <2>1. ComposerShape /\ "over" \in TurnStages
    BY DEF ComposerInv, TurnStages
  <2>. QED  BY <1>1, <2>1, MovesOf
<1>7. ComposerShape'
  BY <1>1, <1>2, <1>6 DEF ComposerShape
<1>. QED  BY <1>4, <1>5, <1>7 DEF ComposerInv

LEMMA ComposeStep ==
  ASSUME ComposerInv, NEW t, Compose(t)
  PROVE  ComposerInv'
<1>1. PICK kbs \in BOOLEAN, some \in BOOLEAN :
        /\ Moves(t, "history", "sent")
        /\ request' = [request EXCEPT ![t].retrieved = kbs, ![t].context = some]
        /\ UNCHANGED <<talk, text, template, version, chosen, offered, seen, edits>>
  BY DEF Compose
<1>2. ComposerShape /\ t \in Taking /\ stage' \in [Everyone -> TurnStages]
  <2>1. ComposerShape /\ "sent" \in TurnStages
    BY DEF ComposerInv, TurnStages
  <2>. QED  BY <1>1, <2>1, MovesOf
<1>3. /\ request' \in [Taking -> Prepared]
      /\ \A u \in Taking : request'[u].prompt = request[u].prompt /\ request'[u].history = request[u].history
  <2>1. request \in [Taking -> Prepared] /\ request[t] \in Prepared
    BY <1>2 DEF ComposerShape
  <2>. DEFINE half == [request[t] EXCEPT !.retrieved = kbs]
              one == [half EXCEPT !.context = some]
  <2>2. half \in Prepared /\ half.prompt = request[t].prompt /\ half.history = request[t].history
    BY <2>1 DEF Prepared
  <2>3. one \in Prepared /\ one.prompt = half.prompt /\ one.history = half.history
    <3>. HIDE DEF half
    <3>. QED  BY <2>2 DEF Prepared
  <2>4. request' = [request EXCEPT ![t] = one]
    BY <1>1, <1>2, <2>1
  <2>. HIDE DEF one, half
  <2>. QED  BY <1>2, <2>1, <2>2, <2>3, <2>4
<1>4. Taking' = Taking /\ Everyone' = Everyone
  BY <1>3 DEF Taking, Everyone
<1>5. RowsStand' /\ QuestionIsAskedOnce' /\ ReadingsStand'
  BY <1>1, <1>3, <1>4, StageAlone
<1>6. PromptsStand'
  BY <1>1, <1>3, <1>4, PromptsLeft
<1>7. ComposerShape'
  BY <1>1, <1>2, <1>3, <1>4 DEF ComposerShape
<1>. QED  BY <1>5, <1>6, <1>7 DEF ComposerInv

(* _complete: words that come later were in no history.                    *)
LEMMA FinishStep ==
  ASSUME ComposerInv, NEW t, Finish(t)
  PROVE  ComposerInv'
<1>1. PICK said \in {"empty", "part", "whole"} :
        /\ Moves(t, "sent", "over") /\ text' = [text EXCEPT ![t] = said]
        /\ UNCHANGED <<talk, template, version, chosen, offered, seen, request, edits>>
  BY DEF Finish
<1>2. ComposerShape /\ RowsStand /\ QuestionIsAskedOnce /\ ReadingsStand /\ PromptsStand
  BY DEF ComposerInv
<1>3. /\ t \in Taking /\ t \in Everyone /\ stage[t] = "sent" /\ stage'[t] = "over"
      /\ stage' \in [Everyone -> TurnStages] /\ \A u \in Everyone : u # t => stage'[u] = stage[u]
  BY <1>1, <1>2, MovesOf DEF TurnStages
<1>4. Taking' = Taking /\ Everyone' = Everyone /\ Taking \subseteq Everyone
  BY <1>1 DEF Taking, Everyone
<1>5. /\ text' \in [Everyone -> {"empty", "part", "whole"}] /\ text[t] = "empty"
      /\ \A u \in Everyone : u # t => text'[u] = text[u]
  BY <1>1, <1>2, <1>3 DEF ComposerShape, RowsStand
<1>6. RowsStand'
  <2>1. \A u \in Taking : /\ stage'[u] \in {"idle", "asked"} => stage[u] = stage'[u]
                          /\ stage'[u] # "over" => stage[u] # "over" /\ text'[u] = text[u]
    BY <1>3, <1>4, <1>5
  <2>. QED  BY <1>1, <1>2, <1>4, <2>1 DEF RowsStand
<1>7. QuestionIsAskedOnce'
  <2>. SUFFICES ASSUME NEW u \in Taking, NEW i \in 1 .. Len(request[u].history)
                PROVE  LET m == request[u].history[i] IN m.turn # u /\ (m.role = "assistant" => text'[m.turn] # "empty")
    BY <1>1, <1>4 DEF QuestionIsAskedOnce, Taking
  <2>. DEFINE m == request[u].history[i]
  <2>1. m.turn # u /\ (m.role = "assistant" => text[m.turn] # "empty")
    BY <1>2 DEF QuestionIsAskedOnce, Taking
  <2>2. InTalk(m)
    BY <1>2 DEF ReadingsStand
  <2>. HIDE DEF m
  <2>3. m.turn \in Everyone
    BY <1>2, <2>2 DEF InTalk, RowsStand
  <2>4. m.role = "assistant" => text'[m.turn] # "empty"
    BY <1>5, <2>1, <2>3
  <2>. QED  BY <2>1, <2>4 DEF m
<1>8. ReadingsStand'
  <2>1. \A u \in Taking : stage'[u] \in {"history", "sent"} => stage[u] \in {"history", "sent"}
    BY <1>3, <1>4
  <2>2. \A u \in Taking : request'[u].history = request[u].history
    BY <1>1
  <2>. QED  BY <1>1, <1>2, <1>4, <2>1, <2>2, ReadingsStay
<1>9. PromptsStand'
  <2>1. \A u \in Taking : request'[u].prompt = request[u].prompt
    BY <1>1
  <2>. QED  BY <1>1, <1>4, <2>1, PromptsLeft
<1>10. ComposerShape'
  BY <1>1, <1>2, <1>3, <1>4, <1>5 DEF ComposerShape
<1>. QED  BY <1>6, <1>7, <1>8, <1>9, <1>10 DEF ComposerInv

(* build_search_query: the questions a search is made with.                *)
LEMMA QueryIsAsked ==
  ASSUME NEW t \in Nat, NEW h \in Seq(Spoken), HistoryTurns \in Nat
  PROVE  QueryOf(t, h) \in Seq(Spoken)
<1>. DEFINE asked == Picked(h, {i \in 1 .. Len(h) : h[i].role = "user"})
            n == IF Len(asked) > HistoryTurns THEN HistoryTurns ELSE Len(asked)
            tail == SubSeq(asked, Len(asked) - n + 1, Len(asked))
<1>1. asked \in Seq(Spoken)
  BY PickedElements
<1>. HIDE DEF asked
<1>2. Len(asked) \in Nat /\ n \in 0 .. Len(asked)
  BY <1>1
<1>. HIDE DEF n
<1>3. \A i \in (Len(asked) - n + 1) .. Len(asked) : asked[i] \in Spoken
  <2>1. \A i \in 1 .. Len(asked) : asked[i] \in Spoken
    BY <1>1
  <2>2. \A i \in (Len(asked) - n + 1) .. Len(asked) : i \in 1 .. Len(asked)
    BY <1>2
  <2>. QED  BY <2>1, <2>2
<1>4. tail \in Seq(Spoken)
  <2>1. Len(asked) - n + 1 \in Int /\ Len(asked) \in Int
    BY <1>2
  <2>. QED  BY <1>3, <2>1, SubSeqProperties
<1>5. <<Question(t)>> \in Seq(Spoken)
  <2>1. Question(t) \in Spoken
    BY DEF Question, Message, Spoken
  <2>. HIDE DEF Question
  <2>. QED  BY <2>1
<1>. HIDE DEF tail
<1>6. tail \o <<Question(t)>> \in Seq(Spoken)
  BY <1>4, <1>5, ConcatProperties
<1>7. QueryOf(t, h) = tail \o <<Question(t)>>
  BY DEF QueryOf, tail, n, asked
<1>. QED  BY <1>6, <1>7

LEMMA ReadHistoryStep ==
  ASSUME ComposerInv, Window \in Nat \ {0}, HistoryTurns \in Nat, NEW t, ReadHistory(t)
  PROVE  ComposerInv'
<1>. DEFINE P == {i \in 1 .. Len(talk) : stage[talk[i].turn] \notin {"idle", "asked"}}
            v == VisibleRows
            r == Recent(v)
            Q == {i \in 1 .. Len(r) : Told(t, r[i])}
            h == Picked(r, Q)
<1>1. ComposerShape /\ RowsStand /\ QuestionIsAskedOnce /\ ReadingsStand /\ PromptsStand
  BY DEF ComposerInv
<1>2. /\ Moves(t, "rendered", "history")
      /\ request' = [request EXCEPT ![t].history = h, ![t].query = QueryOf(t, h)]
      /\ seen' = [seen EXCEPT ![t] = {m \in SetOf(v) : m.role = "user" \/ text[m.turn] # "empty"}]
      /\ UNCHANGED <<talk, text, template, version, chosen, offered, edits>>
  BY DEF ReadHistory
<1>3. /\ t \in Taking /\ t \in Everyone /\ stage[t] = "rendered" /\ stage'[t] = "history"
      /\ stage' \in [Everyone -> TurnStages] /\ \A u \in Everyone : u # t => stage'[u] = stage[u]
  BY <1>1, <1>2, MovesOf DEF TurnStages, Composing
<1>4. talk \in Seq(Spoken) /\ Len(talk) \in Nat /\ t \in Nat
  BY <1>1, <1>3 DEF ComposerShape
<1>5. v = Picked(talk, P) /\ v \in Seq(Spoken) /\ \A i \in 1 .. Len(v) : \E k \in P : v[i] = talk[k]
  <2>1. v = Picked(talk, P)
    BY DEF VisibleRows
  <2>. HIDE DEF v, P
  <2>2. P \in SUBSET (1 .. Len(talk))
    BY DEF P
  <2>3. /\ v \in Seq(Spoken) /\ Len(v) = Cardinality(P)
        /\ \A n \in 1 .. Cardinality(P) : Nth(n, P) \in P /\ v[n] = talk[Nth(n, P)]
    BY <1>4, <2>1, <2>2, PickedElements
  <2>. QED  BY <2>1, <2>3
<1>6. r \in Seq(Spoken) /\ h \in Seq(Spoken) /\ TellsTheLast(h, talk, P, r, Q)
  <2>1. P \in SUBSET (1 .. Len(talk)) /\ Q \in SUBSET (1 .. Len(r))
    OBVIOUS
  <2>2. r = Recent(Picked(talk, P))
    <3>. HIDE DEF v, P
    <3>. QED  BY <1>5
  <2>. HIDE DEF P, v, r, Q
  <2>. QED  BY <1>4, <2>1, <2>2, RecentRows
<1>7. PICK place \in [1 .. Len(h) -> P] :
        /\ \A i \in 1 .. Len(h) : h[i] = talk[place[i]] /\ \E j \in Q : r[j] = h[i]
        /\ \A i, j \in 1 .. Len(h) : i < j => place[i] < place[j]
        /\ \A k \in P : \/ \E i \in 1 .. Len(h) : place[i] = k
                        \/ k <= Len(talk) - Window /\ \A i \in 1 .. Len(h) : k < place[i]
                        \/ \E j \in (1 .. Len(r)) \ Q : r[j] = talk[k]
  <2>. HIDE DEF P, v, r, Q, h
  <2>. QED  BY <1>6 DEF TellsTheLast
<1>8. P \in SUBSET (1 .. Len(talk)) /\ (\A j \in Q : Told(t, r[j])) /\ \A j \in (1 .. Len(r)) \ Q : ~Told(t, r[j])
  OBVIOUS
<1>. DEFINE read == {m \in SetOf(v) : m.role = "user" \/ text[m.turn] # "empty"}
<1>9. /\ \A m \in read : m \in Spoken /\ \E k \in P : talk[k] = m
      /\ \A m \in read : m.turn # t => Told(t, m)
  <2>1. \A m \in SetOf(v) : \E k \in P : talk[k] = m
    <3>. HIDE DEF P, v
    <3>. QED  BY <1>5 DEF SetOf
  <2>2. \A k \in P : talk[k] \in Spoken
    BY <1>4
  <2>. HIDE DEF P, v
  <2>. QED  BY <2>1, <2>2 DEF Told
<1>. HIDE DEF P, v, r, Q, h, read
<1>10. /\ request' \in [Taking -> Prepared] /\ request'[t].history = h
       /\ \A u \in Taking : /\ request'[u].prompt = request[u].prompt
                            /\ u # t => request'[u].history = request[u].history
  <2>1. request \in [Taking -> Prepared] /\ request[t] \in Prepared
    BY <1>1, <1>3 DEF ComposerShape
  <2>. DEFINE q == QueryOf(t, h)
              half == [request[t] EXCEPT !.history = h]
              one == [half EXCEPT !.query = q]
  <2>2. q \in Seq(Spoken)
    BY <1>4, <1>6, QueryIsAsked
  <2>. HIDE DEF q
  <2>3. half \in Prepared /\ half.prompt = request[t].prompt /\ half.history = h
    BY <1>6, <2>1 DEF Prepared
  <2>4. one \in Prepared /\ one.prompt = half.prompt /\ one.history = half.history
    <3>. HIDE DEF half
    <3>. QED  BY <2>2, <2>3 DEF Prepared
  <2>5. request' = [request EXCEPT ![t] = one]
    BY <1>2, <1>3, <2>1 DEF q
  <2>. HIDE DEF one, half
  <2>. QED  BY <1>3, <2>1, <2>3, <2>4, <2>5
<1>11. /\ seen' \in [Taking -> SUBSET Spoken] /\ seen'[t] = read /\ \A u \in Taking : u # t => seen'[u] = seen[u]
  BY <1>1, <1>2, <1>3, <1>9 DEF ComposerShape, read
<1>12. Taking' = Taking /\ Everyone' = Everyone /\ Taking \subseteq Everyone
  BY <1>10 DEF Taking, Everyone
<1>13. \A i, j \in 1 .. Len(talk) : talk[i] = talk[j] => i = j
  BY <1>1 DEF RowsStand
<1>14. \A i \in 1 .. Len(h) : place[i] \in P /\ place[i] \in 1 .. Len(talk) /\ h[i] = talk[place[i]] /\ Told(t, h[i])
  BY <1>7, <1>8
<1>15. ReadOf(t)'
  <2>. DEFINE others == {m \in read : m.turn # t}
  <2>1. \A i \in 1 .. Len(talk) : talk[i] \in others => i \in P /\ Told(t, talk[i])
    <3>. SUFFICES ASSUME NEW i \in 1 .. Len(talk), talk[i] \in others PROVE i \in P /\ Told(t, talk[i])
      OBVIOUS
    <3>1. PICK k \in P : talk[k] = talk[i]
      BY <1>9
    <3>. QED  BY <1>8, <1>9, <1>13, <3>1
  <2>2. \A i \in 1 .. Len(talk) : talk[i] \in others =>
           \/ talk[i] \in SetOf(h)
           \/ i <= Len(talk) - Window /\ \A n \in 1 .. Len(h) : i < place[n]
    <3>. SUFFICES ASSUME NEW i \in 1 .. Len(talk), talk[i] \in others, talk[i] \notin SetOf(h)
                  PROVE  i <= Len(talk) - Window /\ \A n \in 1 .. Len(h) : i < place[n]
      OBVIOUS
    <3>1. i \in P /\ Told(t, talk[i])
      BY <2>1
    <3>2. ~ \E j \in (1 .. Len(r)) \ Q : r[j] = talk[i]
      BY <1>8, <3>1
    <3>3. ~ \E n \in 1 .. Len(h) : place[n] = i
      BY <1>14 DEF SetOf
    <3>. QED  BY <1>7, <3>1, <3>2, <3>3
  <2>. HIDE DEF others
  <2>3. \A i, j \in 1 .. Len(talk), m, n \in 1 .. Len(h) : m < n /\ talk[i] = h[m] /\ talk[j] = h[n] => i < j
    <3>. SUFFICES ASSUME NEW i \in 1 .. Len(talk), NEW j \in 1 .. Len(talk), NEW m \in 1 .. Len(h), NEW n \in 1 .. Len(h),
                         m < n, talk[i] = h[m], talk[j] = h[n]
                  PROVE  i < j
      OBVIOUS
    <3>1. i = place[m] /\ j = place[n]
      BY <1>13, <1>14
    <3>. QED  BY <1>7, <3>1
  <2>4. \A i \in 1 .. Len(talk) : talk[i] \in others /\ i > Len(talk) - Window => talk[i] \in SetOf(h)
    <3>. SUFFICES ASSUME NEW i \in 1 .. Len(talk), talk[i] \in others, i > Len(talk) - Window
                  PROVE  talk[i] \in SetOf(h)
      OBVIOUS
    <3>1. ~ (i <= Len(talk) - Window)
      BY <1>4
    <3>. QED  BY <2>2, <3>1
  <2>5. \A i, j \in 1 .. Len(talk) : talk[i] \in others \ SetOf(h) /\ talk[j] \in SetOf(h) => i < j
    <3>. SUFFICES ASSUME NEW i \in 1 .. Len(talk), NEW j \in 1 .. Len(talk),
                         talk[i] \in others \ SetOf(h), talk[j] \in SetOf(h)
                  PROVE  i < j
      OBVIOUS
    <3>1. PICK n \in 1 .. Len(h) : h[n] = talk[j]
      BY DEF SetOf
    <3>2. j = place[n]
      BY <1>13, <1>14, <3>1
    <3>. QED  BY <2>2, <3>2
  <2>6. request'[t].history = h /\ {m \in seen'[t] : m.turn # t} = others /\ talk' = talk
    BY <1>2, <1>10, <1>11 DEF others
  <2>. QED  BY <2>3, <2>4, <2>5, <2>6 DEF ReadOf, SetOf
<1>16. ReadingsStand'
  <2>1. ASSUME NEW u \in Taking
        PROVE  /\ \A m \in seen'[u] : InTalk(m)
               /\ \A i \in 1 .. Len(request'[u].history) : InTalk(request'[u].history[i])
               /\ stage'[u] \in {"history", "sent"} => ReadOf(u)'
    <3>1. CASE u = t
      <4>1. \A m \in read : InTalk(m)
        BY <1>8, <1>9 DEF InTalk
      <4>2. \A i \in 1 .. Len(h) : InTalk(h[i])
        BY <1>14 DEF InTalk
      <4>3. seen'[u] = read /\ request'[u].history = h /\ ReadOf(u)'
        BY <1>10, <1>11, <1>15, <3>1
      <4>. QED  BY <4>1, <4>2, <4>3
    <3>2. CASE u # t
      <4>1. request'[u].history = request[u].history /\ seen'[u] = seen[u] /\ stage'[u] = stage[u] /\ talk' = talk
        BY <1>2, <1>3, <1>10, <1>11, <1>12, <3>2
      <4>2. ReadOf(u)' <=> ReadOf(u)
        BY <4>1 DEF ReadOf
      <4>. QED  BY <1>1, <4>1, <4>2 DEF ReadingsStand
    <3>. QED  BY <3>1, <3>2
  <2>2. \A m : InTalk(m) => \E i \in 1 .. Len(talk') : talk'[i] = m
    BY <1>2 DEF InTalk
  <2>3. \A u \in Taking : /\ \A m \in seen'[u] : \E i \in 1 .. Len(talk') : talk'[i] = m
                          /\ \A n \in 1 .. Len(request'[u].history) :
                               \E i \in 1 .. Len(talk') : talk'[i] = request'[u].history[n]
    BY <2>1, <2>2
  <2>4. \A u \in Taking : stage'[u] \in {"history", "sent"} => ReadOf(u)'
    BY <2>1
  <2>. QED  BY <1>12, <2>3, <2>4 DEF ReadingsStand, InTalk
<1>17. QuestionIsAskedOnce'
  <2>. SUFFICES ASSUME NEW u \in Taking, NEW i \in 1 .. Len(request'[u].history)
                PROVE  LET m == request'[u].history[i] IN m.turn # u /\ (m.role = "assistant" => text[m.turn] # "empty")
    BY <1>2, <1>12 DEF QuestionIsAskedOnce, Taking
  <2>1. CASE u = t
    <3>1. Told(t, h[i])
      BY <1>10, <1>14, <2>1
    <3>. QED  BY <1>10, <2>1, <3>1 DEF Told
  <2>2. CASE u # t
    <3>1. request'[u].history = request[u].history
      BY <1>10, <2>2
    <3>. QED  BY <1>1, <3>1 DEF QuestionIsAskedOnce, Taking
  <2>. QED  BY <2>1, <2>2
<1>18. RowsStand' /\ PromptsStand'
  <2>1. \A u \in Taking : /\ stage'[u] \in {"idle", "asked"} => stage'[u] = stage[u]
                          /\ stage'[u] # "over" => stage[u] # "over"
                          /\ stage'[u] \in {"idle", "asked"} => stage[u] \in {"idle", "asked"}
                          /\ stage'[u] \in Composing => stage[u] \in Composing
                          /\ stage'[u] = "prompt" => stage[u] = "prompt"
    BY <1>3, <1>12 DEF Composing
  <2>2. RowsStand'
    BY <1>1, <1>2, <1>12, <2>1, RowsStay
  <2>3. PromptsStand'
    BY <1>1, <1>2, <1>10, <1>12, <2>1, PromptsStay
  <2>. QED  BY <2>2, <2>3
<1>19. ComposerShape'
  BY <1>1, <1>2, <1>3, <1>10, <1>11, <1>12 DEF ComposerShape
<1>. QED  BY <1>16, <1>17, <1>18, <1>19 DEF ComposerInv

(***************************************************************************)
(* The templates are edited: a version that was served stays one that was  *)
(* published, and what was in force to a turn stays among what was offered.*)
(***************************************************************************)
LEMMA OneVersion ==
  ASSUME version \in [Owners -> [Versions -> Statuses]], NEW o \in Owners, NEW n \in Versions, NEW status \in Statuses,
         version' = [version EXCEPT ![o][n] = status]
  PROVE  /\ version' \in [Owners -> [Versions -> Statuses]] /\ version'[o][n] = status
         /\ \A p \in Owners, m \in Versions : (p # o \/ m # n) => version'[p][m] = version[p][m]
<1>. DEFINE one == [version[o] EXCEPT ![n] = status]
<1>1. one \in [Versions -> Statuses] /\ one[n] = status /\ \A m \in Versions : m # n => one[m] = version[o][m]
  OBVIOUS
<1>2. version' = [version EXCEPT ![o] = one]
  OBVIOUS
<1>. HIDE DEF one
<1>3. /\ version' \in [Owners -> [Versions -> Statuses]] /\ version'[o] = one
      /\ \A p \in Owners : p # o => version'[p] = version[p]
  BY <1>1, <1>2
<1>. QED  BY <1>1, <1>3

Editing == (\E o \in Owners : Write(o) \/ \E n \in Versions : Publish(o, n) \/ Retire(o, n) \/ Activate(o, n)) \/ Withdraws
LEMMA VersionsAge ==
  ASSUME ComposerShape, Editing
  PROVE  /\ template' \in Templates /\ version' \in [Owners -> [Versions -> Statuses]]
         /\ \A p \in Owners, m \in Versions :
              version[p][m] \in {"published", "archived"} => version'[p][m] \in {"published", "archived"}
<1>1. template \in Templates /\ version \in [Owners -> [Versions -> Statuses]]
  BY DEF ComposerShape
<1>2. ASSUME NEW o \in Owners, NEW row \in [live : BOOLEAN, active : 0 .. 2], template' = [template EXCEPT ![o] = row]
      PROVE  template' \in Templates
  BY <1>1, <1>2 DEF Templates
<1>3. ASSUME NEW o \in Owners PROVE template[o] \in [live : BOOLEAN, active : 0 .. 2]
  BY <1>1 DEF Templates
<1>4. CASE \E o \in Owners : Write(o)
  <2>1. PICK o \in Owners : Write(o)
    BY <1>4
  <2>. DEFINE n == IF version[o][1] = "none" THEN 1 ELSE 2
              row == [template[o] EXCEPT !.live = TRUE]
  <2>2. n \in Versions /\ version[o][n] = "none"
    BY <2>1 DEF Write, Versions
  <2>3. version' = [version EXCEPT ![o][n] = "draft"] /\ template' = [template EXCEPT ![o] = row]
    BY <1>1, <2>1 DEF Write, Templates
  <2>4. row \in [live : BOOLEAN, active : 0 .. 2]
    BY <1>3
  <2>5. template' \in Templates
    <3>. HIDE DEF row
    <3>. QED  BY <1>2, <2>3, <2>4
  <2>. HIDE DEF n
  <2>6. /\ version' \in [Owners -> [Versions -> Statuses]]
        /\ \A p \in Owners, m \in Versions : (p # o \/ m # n) => version'[p][m] = version[p][m]
    BY <1>1, <2>2, <2>3, OneVersion DEF Statuses
  <2>. QED  BY <2>2, <2>5, <2>6
<1>5. CASE \E o \in Owners, n \in Versions : Publish(o, n) \/ Retire(o, n)
  <2>1. PICK o \in Owners, n \in Versions, status \in {"published", "archived"} :
          version' = [version EXCEPT ![o][n] = status] /\ UNCHANGED template
    BY <1>5 DEF Publish, Retire, Becomes
  <2>2. /\ version' \in [Owners -> [Versions -> Statuses]] /\ version'[o][n] = status
        /\ \A p \in Owners, m \in Versions : (p # o \/ m # n) => version'[p][m] = version[p][m]
    BY <1>1, <2>1, OneVersion DEF Statuses
  <2>. QED  BY <1>1, <2>1, <2>2
<1>6. CASE \E o \in Owners, n \in Versions : Activate(o, n)
  <2>1. PICK o \in Owners, n \in Versions : Activate(o, n)
    BY <1>6
  <2>. DEFINE row == [template[o] EXCEPT !.active = n]
  <2>2. template' = [template EXCEPT ![o] = row] /\ UNCHANGED version
    BY <1>1, <2>1 DEF Activate, Templates
  <2>3. row \in [live : BOOLEAN, active : 0 .. 2]
    BY <1>3 DEF Versions
  <2>. HIDE DEF row
  <2>. QED  BY <1>1, <1>2, <2>2, <2>3
<1>7. CASE Withdraws
  <2>. DEFINE row == [template["own"] EXCEPT !.live = FALSE]
  <2>1. "own" \in Owners
    BY DEF Owners
  <2>2. template' = [template EXCEPT !["own"] = row] /\ UNCHANGED version
    BY <1>1, <1>7, <2>1 DEF Withdraws, Templates
  <2>3. row \in [live : BOOLEAN, active : 0 .. 2]
    BY <1>3, <2>1
  <2>. HIDE DEF row
  <2>. QED  BY <1>1, <1>2, <2>1, <2>2, <2>3
<1>. QED  BY <1>4, <1>5, <1>6, <1>7 DEF Editing

LEMMA ForceLasts ==
  ASSUME NEW u, NEW p, WasInForce(u, p), offered[u] \subseteq offered'[u]
  PROVE  \E rows \in offered'[u] : Foremost(rows, p)
BY DEF WasInForce

LEMMA EditStep ==
  ASSUME ComposerInv, Edit
  PROVE  ComposerInv'
<1>1. ComposerShape /\ RowsStand /\ QuestionIsAskedOnce /\ ReadingsStand /\ PromptsStand
  BY DEF ComposerInv
<1>2. /\ edits > 0 /\ edits' = edits - 1 /\ Editing
      /\ offered' = [t \in DOMAIN offered |->
                       offered[t] \union (IF stage[t] \in Composing THEN {template'} ELSE {})]
      /\ UNCHANGED <<talk, stage, text, chosen, seen, request>>
  BY DEF Edit, Editing
<1>3. Taking' = Taking /\ Everyone' = Everyone
  BY <1>2 DEF Taking, Everyone
<1>4. /\ template' \in Templates /\ version' \in [Owners -> [Versions -> Statuses]]
      /\ \A p \in Owners, m \in Versions :
           version[p][m] \in {"published", "archived"} => version'[p][m] \in {"published", "archived"}
  BY <1>1, <1>2, VersionsAge
<1>5. /\ offered' \in [Taking -> SUBSET Templates]
      /\ \A u \in Taking : offered[u] \subseteq offered'[u] /\ (stage[u] \in Composing => template' \in offered'[u])
  <2>1. offered \in [Taking -> SUBSET Templates]
    BY <1>1 DEF ComposerShape
  <2>. QED  BY <1>2, <1>4, <2>1
<1>6. ComposerShape'
  <2>1. edits' \in Nat
    BY <1>1, <1>2 DEF ComposerShape
  <2>. QED  BY <1>1, <1>2, <1>3, <1>4, <1>5, <2>1 DEF ComposerShape
<1>7. RowsStand' /\ QuestionIsAskedOnce' /\ ReadingsStand'
  BY <1>1, <1>2, <1>3, RowsStay, QuestionsStay, ReadingsStay
<1>8. PromptsStand'
  <2>1. \A q : \A v \in Taking : WasInForce(v, q) => \E rows \in offered'[v] : Foremost(rows, q)
    BY <1>5, ForceLasts
  <2>. SUFFICES ASSUME NEW u \in Taking
                PROVE  /\ stage[u] \in {"idle", "asked"} => request[u].prompt = Nothing
                       /\ stage[u] \in Composing => template' \in offered'[u]
                       /\ stage[u] = "prompt" => WasInForce(u, chosen[u])'
                       /\ request[u].prompt # Nothing =>
                            WasInForce(u, request[u].prompt)'
                            /\ version'[request[u].prompt[1]][request[u].prompt[2]] \in {"published", "archived"}
    BY <1>2, <1>3 DEF PromptsStand
  <2>2. stage[u] = "prompt" => WasInForce(u, chosen[u])'
    <3>. SUFFICES ASSUME stage[u] = "prompt" PROVE WasInForce(u, chosen[u])'
      OBVIOUS
    <3>. DEFINE p == chosen[u]
    <3>1. p' = p
      BY <1>2
    <3>2. WasInForce(u, p)
      BY <1>1 DEF PromptsStand
    <3>. HIDE DEF p
    <3>3. p[1] \in Owners /\ p[2] \in Versions
      BY <3>2 DEF WasInForce
    <3>4. \E rows \in offered'[u] : Foremost(rows, p)
      BY <2>1, <3>2
    <3>5. WasInForce(u, p)'
      BY <3>1, <3>3, <3>4 DEF WasInForce
    <3>. QED  BY <3>5 DEF p
  <2>3. request[u].prompt # Nothing =>
          WasInForce(u, request[u].prompt)'
          /\ version'[request[u].prompt[1]][request[u].prompt[2]] \in {"published", "archived"}
    <3>. SUFFICES ASSUME request[u].prompt # Nothing
                  PROVE  WasInForce(u, request[u].prompt)'
                         /\ version'[request[u].prompt[1]][request[u].prompt[2]] \in {"published", "archived"}
      OBVIOUS
    <3>. DEFINE p == request[u].prompt
    <3>1. p' = p
      BY <1>2
    <3>2. WasInForce(u, p) /\ version[p[1]][p[2]] \in {"published", "archived"}
      BY <1>1 DEF PromptsStand
    <3>. HIDE DEF p
    <3>3. p[1] \in Owners /\ p[2] \in Versions
      BY <3>2 DEF WasInForce
    <3>4. \E rows \in offered'[u] : Foremost(rows, p)
      BY <2>1, <3>2
    <3>5. WasInForce(u, p)'
      BY <3>1, <3>3, <3>4 DEF WasInForce
    <3>6. version'[p[1]][p[2]] \in {"published", "archived"}
      BY <1>4, <3>2, <3>3
    <3>. QED  BY <3>5, <3>6 DEF p
  <2>. QED  BY <1>1, <1>5, <2>2, <2>3 DEF PromptsStand
<1>. QED  BY <1>6, <1>7, <1>8 DEF ComposerInv

(* What TurnsAreComposed says follows: a row has one place in the talk.    *)
LEMMA ComposedIs ==
  ASSUME ComposerInv
  PROVE  TurnsAreComposed
<1>1. ComposerShape /\ RowsStand /\ QuestionIsAskedOnce /\ ReadingsStand /\ PromptsStand
  BY DEF ComposerInv
<1>2. HistoryIsRecent
  <2>. SUFFICES ASSUME NEW t \in Taking, stage[t] \in {"history", "sent"}
                PROVE  LET told == request[t].history
                           At(m) == CHOOSE i \in 1 .. Len(talk) : talk[i] = m
                           others == {m \in seen[t] : m.turn # t}
                       IN /\ \A i \in 1 .. Len(told) - 1 : At(told[i]) < At(told[i + 1])
                          /\ \A m \in others : At(m) > Len(talk) - Window => m \in SetOf(told)
                          /\ \A m \in others \ SetOf(told), k \in SetOf(told) : At(m) < At(k)
    BY DEF HistoryIsRecent, Taking
  <2>. DEFINE told == request[t].history
              At(m) == CHOOSE i \in 1 .. Len(talk) : talk[i] = m
              others == {m \in seen[t] : m.turn # t}
  <2>1. \A m : InTalk(m) => At(m) \in 1 .. Len(talk) /\ talk[At(m)] = m
    BY DEF InTalk
  <2>2. (\A m \in others : InTalk(m)) /\ \A i \in 1 .. Len(told) : InTalk(told[i])
    BY <1>1 DEF ReadingsStand
  <2>3. Len(told) \in Nat /\ \A m \in SetOf(told) : InTalk(m)
    <3>1. told \in Seq(Spoken)
      BY <1>1 DEF ComposerShape, Prepared
    <3>. QED  BY <2>2, <3>1 DEF SetOf
  <2>4. /\ \A i, j \in 1 .. Len(talk), m, n \in 1 .. Len(told) :
              m < n /\ talk[i] = told[m] /\ talk[j] = told[n] => i < j
        /\ \A i \in 1 .. Len(talk) : talk[i] \in others /\ i > Len(talk) - Window => talk[i] \in SetOf(told)
        /\ \A i, j \in 1 .. Len(talk) : talk[i] \in others \ SetOf(told) /\ talk[j] \in SetOf(told) => i < j
    BY <1>1 DEF ReadingsStand, ReadOf
  <2>. HIDE DEF told, At, others
  <2>5. ASSUME NEW i \in 1 .. Len(told) - 1 PROVE At(told[i]) < At(told[i + 1])
    <3>1. i \in 1 .. Len(told) /\ i + 1 \in 1 .. Len(told) /\ i < i + 1
      BY <2>3
    <3>. DEFINE x == At(told[i])
                y == At(told[i + 1])
    <3>2. x \in 1 .. Len(talk) /\ y \in 1 .. Len(talk) /\ talk[x] = told[i] /\ talk[y] = told[i + 1]
      BY <2>1, <2>2, <3>1
    <3>. HIDE DEF x, y
    <3>3. x < y
      BY <2>4, <3>1, <3>2
    <3>. QED  BY <3>3 DEF x, y
  <2>6. \A m \in others : At(m) > Len(talk) - Window => m \in SetOf(told)
    BY <2>1, <2>2, <2>4
  <2>7. \A m \in others \ SetOf(told), k \in SetOf(told) : At(m) < At(k)
    BY <2>1, <2>2, <2>3, <2>4
  <2>. QED  BY <2>5, <2>6, <2>7 DEF told, At, others
<1>3. PromptIsSound
  BY <1>1 DEF PromptIsSound, PromptsStand, WasInForce, Taking
<1>. QED  BY <1>1, <1>2, <1>3 DEF TurnsAreComposed

LEMMA TalkBegins ==
  ASSUME TurnsBefore \in Nat,
         talk = [i \in 1 .. 2 * TurnsBefore |-> Message((i + 1) \div 2, IF i % 2 = 1 THEN "user" ELSE "assistant")]
  PROVE  /\ talk \in Seq(Spoken) /\ \A i \in 1 .. Len(talk) : talk[i].turn \in 1 .. TurnsBefore
         /\ \A i, j \in 1 .. Len(talk) : i # j => talk[i] # talk[j]
<1>1. \A i \in 1 .. 2 * TurnsBefore : (i + 1) \div 2 \in 1 .. TurnsBefore
  OBVIOUS
<1>2. \A i, j \in 1 .. 2 * TurnsBefore : (i + 1) \div 2 = (j + 1) \div 2 /\ (i % 2 = 1 <=> j % 2 = 1) => i = j
  OBVIOUS
<1>3. \A i \in 1 .. 2 * TurnsBefore : talk[i] \in Spoken /\ talk[i].turn = (i + 1) \div 2
                                      /\ (talk[i].role = "user" <=> i % 2 = 1)
  BY <1>1 DEF Message, Spoken
<1>4. talk \in Seq(Spoken) /\ Len(talk) = 2 * TurnsBefore
  <2>1. 2 * TurnsBefore \in Nat
    OBVIOUS
  <2>2. talk \in [1 .. 2 * TurnsBefore -> Spoken]
    BY <1>3
  <2>. QED  BY <2>1, <2>2
<1>5. \A i, j \in 1 .. Len(talk) : i # j => talk[i] # talk[j]
  <2>. SUFFICES ASSUME NEW i \in 1 .. 2 * TurnsBefore, NEW j \in 1 .. 2 * TurnsBefore, talk[i] = talk[j]
                PROVE  i = j
    BY <1>4
  <2>1. (i + 1) \div 2 = (j + 1) \div 2 /\ (i % 2 = 1 <=> j % 2 = 1)
    BY <1>3
  <2>. QED  BY <1>2, <2>1
<1>6. \A i \in 1 .. Len(talk) : talk[i].turn \in 1 .. TurnsBefore
  <2>. SUFFICES ASSUME NEW i \in 1 .. 2 * TurnsBefore PROVE talk[i].turn \in 1 .. TurnsBefore
    BY <1>4
  <2>1. talk[i].turn = (i + 1) \div 2
    BY <1>3
  <2>. QED  BY <1>1, <2>1
<1>. QED  BY <1>4, <1>5, <1>6

LEMMA ComposerStarts ==
  ASSUME ComposerAssumption, ComposerInit
  PROVE  ComposerInv
<1>1. PICK scene \in Scenes : ComposerBegin(scene)
  BY DEF ComposerInit
<1>2. /\ TurnsBefore \in Nat /\ scene.turns \in SUBSET (Nat \ (0 .. TurnsBefore)) /\ scene.own \in BOOLEAN
      /\ scene.edits \in Nat /\ scene.said \in [1 .. TurnsBefore -> {"empty", "part", "whole"}]
  BY DEF ComposerAssumption
<1>3. /\ Taking = scene.turns /\ Everyone = 1 .. TurnsBefore \union scene.turns
      /\ \A t \in Taking : /\ stage[t] = "idle" /\ text[t] = "empty" /\ request[t] = Unsent /\ seen[t] = {}
                           /\ t \notin 1 .. TurnsBefore
  BY <1>1, <1>2 DEF ComposerBegin, Taking, Everyone
<1>4. Unsent \in Prepared /\ Unsent.prompt = Nothing /\ Unsent.history = <<>> /\ Nothing \in Chosen
  BY DEF Unsent, Prepared, Nothing, Chosen
<1>5. /\ talk \in Seq(Spoken) /\ \A i \in 1 .. Len(talk) : talk[i].turn \in 1 .. TurnsBefore
      /\ \A i, j \in 1 .. Len(talk) : i # j => talk[i] # talk[j]
  BY <1>1, <1>2, TalkBegins DEF ComposerBegin
<1>6. ComposerShape
  <2>1. request \in [Taking -> Prepared] /\ seen \in [Taking -> SUBSET Spoken] /\ edits \in Nat
    BY <1>1, <1>2, <1>3, <1>4 DEF ComposerBegin
  <2>2. stage \in [Everyone -> TurnStages] /\ text \in [Everyone -> {"empty", "part", "whole"}]
    BY <1>1, <1>2, <1>3 DEF ComposerBegin, TurnStages
  <2>3. template \in Templates
    BY <1>1, <1>2 DEF ComposerBegin, Templates, Owners
  <2>4. version \in [Owners -> [Versions -> Statuses]]
    BY <1>1, <1>2 DEF ComposerBegin, Versions, Statuses, Owners
  <2>5. chosen \in [Taking -> Chosen] /\ offered \in [Taking -> SUBSET Templates]
    BY <1>1, <1>3, <1>4 DEF ComposerBegin
  <2>. QED  BY <1>2, <1>3, <1>5, <2>1, <2>2, <2>3, <2>4, <2>5 DEF ComposerShape
<1>7. RowsStand
  BY <1>3, <1>5 DEF RowsStand
<1>8. QuestionIsAskedOnce /\ ReadingsStand /\ PromptsStand
  BY <1>3, <1>4 DEF QuestionIsAskedOnce, ReadingsStand, PromptsStand, Taking, Composing
<1>. QED  BY <1>6, <1>7, <1>8 DEF ComposerInv

LEMMA ComposerGoes ==
  ASSUME ComposerAssumption, ComposerInv, [ComposerNext]_composerVars
  PROVE  ComposerInv'
<1>1. Window \in Nat \ {0} /\ Window \in Nat /\ HistoryTurns \in Nat
  BY DEF ComposerAssumption
<1>2. CASE UNCHANGED composerVars
  <2>1. ComposerShape' /\ RowsStand' /\ QuestionIsAskedOnce'
    BY <1>2 DEF composerVars, ComposerInv, ComposerShape, RowsStand, QuestionIsAskedOnce, Taking, Everyone
  <2>2. ReadingsStand' /\ PromptsStand'
    <3>1. ReadingsStand /\ PromptsStand /\ Taking' = Taking
      BY <1>2 DEF composerVars, ComposerInv, Taking
    <3>2. UNCHANGED <<talk, stage, seen, request, template, version, chosen, offered>>
      BY <1>2 DEF composerVars
    <3>. QED  BY <3>1, <3>2, ReadingsStay, PromptsStay
  <2>. QED  BY <2>1, <2>2 DEF ComposerInv
<1>3. CASE Edit
  BY <1>3, EditStep
<1>4. ASSUME NEW t \in Taking,
             Ask(t) \/ OpenTurn(t) \/ FindPrompt(t) \/ FindVersion(t) \/ RenderFails(t)
             \/ ReadHistory(t) \/ Compose(t) \/ RetrievalFails(t) \/ Finish(t)
      PROVE  ComposerInv'
  BY <1>1, <1>4, AskStep, OpenTurnStep, FindPromptStep, FindVersionStep, TurnFails, ReadHistoryStep, ComposeStep, FinishStep
<1>. QED  BY <1>2, <1>3, <1>4 DEF ComposerNext, Taking

ComposerSpec == ComposerInit /\ [][ComposerNext]_composerVars

(***************************************************************************)
(* THEOREM.  Whatever is asked, answered and edited at the same time: the  *)
(* question of a turn is asked once, the history goes back from the newest *)
(* row without a gap, and the prompt was in force and no draft (_history,  *)
(* for_conversation, render, by_key, active_version).                      *)
(***************************************************************************)
THEOREM TurnsHold == ComposerSpec => []TurnsAreComposed
<1>1. ComposerInit => ComposerInv
  BY ComposerAssumption, ComposerStarts
<1>2. ComposerInv /\ [ComposerNext]_composerVars => ComposerInv'
  BY ComposerAssumption, ComposerGoes
<1>3. ComposerInv => TurnsAreComposed
  BY ComposedIs
<1>. QED  BY <1>1, <1>2, <1>3, PTL DEF ComposerSpec
=============================================================================
