--------------------------- MODULE HistoryProofs ---------------------------
(***************************************************************************)
(* The properties of History for any rows, queries, page sizes and any     *)
(* interleaving of inserts with a walk.                                    *)
(***************************************************************************)
EXTENDS History, FiniteSetTheorems, TLAPS

\* Newest first, ties broken by id, is a strict total order of the rows.
LEMMA NewerOrder ==
  ASSUME NEW r \in Row, NEW k \in Row
  PROVE  /\ ~Newer(r, r)
         /\ r # k => Newer(r, k) \/ Newer(k, r)
         /\ \A j \in Row : Newer(j, k) /\ Newer(k, r) => Newer(j, r)
<1>1. \A j \in Row : j \in Int /\ TimeOf[j] \in Int
  BY HistoryAssumption
<1> QED
  BY <1>1 DEF Newer

\* All the sets that are counted are finite.
LEMMA Finite ==
  ASSUME table \subseteq Row
  PROVE  /\ Matching \subseteq Row /\ IsFiniteSet(Matching)
         /\ Cardinality(Matching) \in Nat
         /\ \A r : IsFiniteSet(Ahead(r)) /\ Rank(r) \in Nat
<1>1. Matching \subseteq Row /\ IsFiniteSet(Row)
  BY HistoryAssumption DEF Matching
<1>2. IsFiniteSet(Matching)
  BY <1>1, FS_Subset
<1>3. ASSUME NEW r PROVE IsFiniteSet(Ahead(r))
  <2>1. Ahead(r) \subseteq Matching
    BY DEF Ahead
  <2> QED
    BY <1>2, <2>1, FS_Subset
<1> QED
  BY <1>1, <1>2, <1>3, FS_CardinalityType DEF Rank

\* A newer row has a smaller rank.
LEMMA RankStrict ==
  ASSUME table \subseteq Row, NEW k \in Matching, NEW r \in Matching, Newer(k, r)
  PROVE  Rank(k) < Rank(r)
<1>1. k \in Row /\ r \in Row /\ Ahead(k) \subseteq Row
  BY Finite DEF Ahead
<1>2. Ahead(k) \cup {k} \subseteq Ahead(r)
  BY <1>1, NewerOrder DEF Ahead
<1>3. k \notin Ahead(k)
  BY <1>1, NewerOrder DEF Ahead
<1>4. IsFiniteSet(Ahead(k)) /\ IsFiniteSet(Ahead(r)) /\ Rank(k) \in Nat /\ Rank(r) \in Nat
  BY Finite
<1>5. Cardinality(Ahead(k) \cup {k}) = Rank(k) + 1
  BY <1>3, <1>4, FS_AddElement DEF Rank
<1>6. Cardinality(Ahead(k) \cup {k}) <= Rank(r)
  BY <1>2, <1>4, FS_Subset DEF Rank
<1> QED
  BY <1>4, <1>5, <1>6

\* No two rows share a rank, and ranks are positions in the listing.
LEMMA RankPosition ==
  ASSUME table \subseteq Row, NEW r \in Matching
  PROVE  /\ Rank(r) < Cardinality(Matching)
         /\ \A k \in Matching : Rank(k) = Rank(r) => k = r
<1>1. ASSUME NEW k \in Matching, Rank(k) = Rank(r) PROVE k = r
  <2>1. Rank(r) \in Nat /\ k \in Row /\ r \in Row
    BY Finite
  <2>2. ~Newer(k, r) /\ ~Newer(r, k)
    BY <1>1, <2>1, RankStrict
  <2> QED
    BY <2>1, <2>2, NewerOrder
<1>2. Rank(r) < Cardinality(Matching)
  <2>1. Ahead(r) \subseteq Matching /\ r \notin Ahead(r)
    BY Finite, NewerOrder DEF Ahead
  <2>2. Rank(r) <= Cardinality(Matching) /\ Rank(r) # Cardinality(Matching)
    BY <2>1, Finite, FS_Subset DEF Rank
  <2> QED
    BY <2>2, Finite
<1> QED
  BY <1>1, <1>2

\* Rows with ranks from a up to b are at most b - a many.
LEMMA RanksFit ==
  ASSUME table \subseteq Row, NEW S \in SUBSET Matching, NEW a \in Nat, NEW b \in Nat,
         a <= b, \A r \in S : a <= Rank(r) /\ Rank(r) < b
  PROVE  IsFiniteSet(S) /\ Cardinality(S) \in Nat /\ Cardinality(S) <= b - a
<1> DEFINE T == a..(b - 1)
           f == [r \in S |-> Rank(r)]
<1>1. f \in [S -> T]
  BY Finite
<1>2. \A r \in S, k \in S : f[r] = f[k] => r = k
  BY RankPosition
<1>3. f \in Injection(S, T)
  BY <1>1, <1>2 DEF Injection, IsInjective
<1>4. IsFiniteSet(T) /\ Cardinality(T) = b - a
  <2>1. a \in Int /\ b - 1 \in Int
    OBVIOUS
  <2>2. /\ IsFiniteSet(a..(b - 1))
        /\ Cardinality(a..(b - 1)) = IF a > b - 1 THEN 0 ELSE b - 1 - a + 1
    BY <2>1, FS_Interval, Zenon
  <2>3. (IF a > b - 1 THEN 0 ELSE b - 1 - a + 1) = b - a
    OBVIOUS
  <2> QED
    BY <2>2, <2>3
<1> HIDE DEF f, T
<1>5. IsFiniteSet(S) /\ Cardinality(S) <= b - a
  BY <1>3, <1>4, FS_Injection
<1> QED
  BY <1>5, FS_CardinalityType

-----------------------------------------------------------------------------
\* What the client was told of the total is what is there, or a row came in.
CountHolds ==
  phase = "list" =>
    /\ total <= Cardinality(Matching)
    /\ ~raced => total = Cardinality(Matching)

HInv == TypeOK /\ NothingLeftBehind /\ NoEmptyPage /\ MissedOnlyByRace /\ CountHolds

\* Before the first walk there is nothing to promise.
LEMMA InitHInv == Init => HInv
<1> SUFFICES ASSUME Init PROVE HInv
  OBVIOUS
<1>1. phase = "idle"
  BY DEF Init
<1>2. TypeOK
  BY DEF Init, TypeOK
<1>3. NothingLeftBehind /\ NoEmptyPage /\ MissedOnlyByRace /\ CountHolds
  BY <1>1 DEF NothingLeftBehind, Walking, NoEmptyPage, MissedOnlyByRace, CountHolds
<1> QED
  BY <1>2, <1>3 DEF HInv

\* An insert moves rows to later positions, if at all.
LEMMA InsertRanks ==
  ASSUME TypeOK, NEW x \in Row, Insert(x)
  PROVE  /\ Matching \subseteq Matching'
         /\ ~Matches(x, query) => Matching' = Matching
         /\ Cardinality(Matching) <= Cardinality(Matching')
         /\ Cardinality(Matching) \in Nat /\ Cardinality(Matching') \in Nat
         /\ \A r : Rank(r) \in Nat /\ Rank(r)' \in Nat /\ Rank(r) <= Rank(r)'
<1>1. table \subseteq Row /\ table' \subseteq Row /\ query' = query
  BY DEF Insert, TypeOK
<1>2. Matching \subseteq Matching' /\ (~Matches(x, query) => Matching' = Matching)
  BY <1>1 DEF Insert, Matching, Matches
<1>3. /\ IsFiniteSet(Matching') /\ Cardinality(Matching') \in Nat
      /\ \A r : IsFiniteSet(Ahead(r)') /\ Rank(r)' \in Nat
  <2>1. Matching' \subseteq Row /\ IsFiniteSet(Row)
    BY <1>1, HistoryAssumption DEF Matching
  <2>2. IsFiniteSet(Matching')
    BY <2>1, FS_Subset
  <2>3. ASSUME NEW r PROVE IsFiniteSet(Ahead(r)')
    <3>1. Ahead(r)' \subseteq Matching'
      BY DEF Ahead
    <3> QED
      BY <2>2, <3>1, FS_Subset
  <2> QED
    BY <2>2, <2>3, FS_CardinalityType DEF Rank
<1>4. ASSUME NEW r PROVE Rank(r) <= Rank(r)'
  <2>1. Ahead(r) \subseteq Ahead(r)'
    BY <1>2 DEF Ahead, Newer
  <2> QED
    BY <1>3, <2>1, FS_Subset DEF Rank
<1>5. Cardinality(Matching) <= Cardinality(Matching')
  BY <1>2, <1>3, FS_Subset
<1> QED
  BY <1>1, <1>2, <1>3, <1>4, <1>5, Finite

\* Inserts keep the invariant.
LEMMA InsertHInv ==
  ASSUME HInv, NEW x \in Row, Insert(x)
  PROVE  HInv'
<1> USE DEF HInv
<1>1. TypeOK'
  BY DEF TypeOK, Insert
<1>2. NothingLeftBehind'
  <2> SUFFICES ASSUME Walking, NEW r \in known \ seen
               PROVE  r \in Matching' /\ Rank(r)' >= offset
    BY DEF NothingLeftBehind, Walking, Insert
  <2>1. r \in Matching /\ Rank(r) >= offset
    BY DEF NothingLeftBehind
  <2> QED
    BY <2>1, InsertRanks DEF TypeOK
<1>3. NoEmptyPage'
  <2>1. offset' = offset /\ phase' = phase /\ offset \in Nat
    BY DEF Insert, TypeOK
  <2> QED
    BY <2>1, InsertRanks DEF NoEmptyPage
<1>4. MissedOnlyByRace'
  BY DEF Insert, MissedOnlyByRace
<1>5. CountHolds'
  <2>1. /\ phase' = phase /\ total' = total /\ total \in Nat
        /\ raced' = IF phase = "list" /\ Matches(x, query) THEN TRUE ELSE raced
    BY DEF Insert, TypeOK
  <2> QED
    BY <2>1, InsertRanks DEF CountHolds
<1> QED
  BY <1>1, <1>2, <1>3, <1>4, <1>5

\* The page sizes and the page of a request.
LEMMA PageFacts ==
  ASSUME TypeOK, phase = "list"
  PROVE  /\ PageSize \in Nat \ {0}
         /\ Page \subseteq Matching /\ IsFiniteSet(Page)
         /\ Cardinality(Page) \in Nat /\ Cardinality(Page) <= PageSize
<1>1. PageSize \in Nat \ {0}
  BY HistoryAssumption DEF TypeOK, Query, PageSize
<1>2. table \subseteq Row /\ offset \in Nat
  BY DEF TypeOK
<1>3. Page \in SUBSET Matching
  BY DEF Page
<1>4. \A r \in Page : offset <= Rank(r) /\ Rank(r) < offset + PageSize
  BY DEF Page
<1> DEFINE b == offset + PageSize
<1>5. b \in Nat /\ offset <= b /\ b - offset = PageSize
  BY <1>1, <1>2
<1>6. IsFiniteSet(Page) /\ Cardinality(Page) \in Nat /\ Cardinality(Page) <= b - offset
  BY <1>2, <1>3, <1>4, <1>5, RanksFit
<1> QED
  BY <1>1, <1>3, <1>5, <1>6

\* A listing that has more rows to come leaves some beyond its page.
LEMMA MoreToCome ==
  ASSUME HInv, phase = "list", HasMore
  PROVE  Cardinality(Matching) > offset + PageSize
<1> DEFINE n == Cardinality(Matching)
           Before == {r \in Matching : Rank(r) < offset}
<1>1. n \in Nat /\ IsFiniteSet(Matching) /\ table \subseteq Row /\ offset \in Nat /\ total \in Nat
  BY Finite DEF HInv, TypeOK
<1>2. offset + Cardinality(Page) < n
  BY <1>1, PageFacts DEF HInv, CountHolds, HasMore
<1> SUFFICES ASSUME n <= offset + PageSize PROVE FALSE
  BY <1>1, PageFacts DEF HInv
<1>3. \A r \in Matching : Rank(r) \in Nat /\ Rank(r) < n
  BY <1>1, Finite, RankPosition
<1>4. Matching \subseteq Before \cup Page
  BY <1>1, <1>3, PageFacts DEF Page, HInv
<1>5. IsFiniteSet(Before) /\ Cardinality(Before) \in Nat /\ Cardinality(Before) <= offset - 0
  <2>1. \A r \in Before : 0 <= Rank(r) /\ Rank(r) < offset
    BY <1>3
  <2>2. Before \in SUBSET Matching
    OBVIOUS
  <2> HIDE DEF Before
  <2> QED
    BY <1>1, <2>1, <2>2, RanksFit
<1> HIDE DEF Before
<1>6. Page \cap Before \subseteq Page /\ Before \cap Page \subseteq Page
  OBVIOUS
<1>7. /\ IsFiniteSet(Before \cup Page)
      /\ Cardinality(Before \cup Page) =
           Cardinality(Before) + Cardinality(Page) - Cardinality(Before \cap Page)
  BY <1>5, PageFacts, FS_Union DEF HInv
<1>8. Cardinality(Before \cap Page) \in Nat
  BY <1>6, PageFacts, FS_Subset, FS_CardinalityType DEF HInv
<1>9. n <= Cardinality(Before \cup Page)
  BY <1>4, <1>7, FS_Subset
<1> QED
  BY <1>1, <1>2, <1>5, <1>7, <1>8, <1>9, PageFacts DEF HInv

\* A page keeps the invariant: what it does not show is still ahead, and when
\* it is the last one nothing is.
LEMMA ListHInv ==
  ASSUME HInv, List
  PROVE  HInv'
<1> USE DEF HInv
<1>0. /\ phase = "list" /\ table' = table /\ query' = query /\ known' = known
      /\ seen' = seen \cup Page /\ raced' = raced /\ total' = total
      /\ Matching' = Matching /\ offset \in Nat /\ total \in Nat
      /\ phase' \in {"count", "over"}
  BY DEF List, Matching, TypeOK
<1>1. PageSize \in Nat \ {0} /\ Page \subseteq Matching /\ Cardinality(Page) \in Nat
  BY <1>0, PageFacts
<1>2. \A r : Rank(r)' = Rank(r) /\ Rank(r) \in Nat
  BY <1>0, Finite DEF Rank, Ahead, TypeOK, Newer
<1>3. \A r \in known \ seen : r \in Matching /\ Rank(r) >= offset
  BY <1>0 DEF NothingLeftBehind, Walking
<1>4. \A r \in known \ seen' : r \in Matching /\ Rank(r) >= offset + PageSize
  BY <1>0, <1>1, <1>2, <1>3 DEF Page
<1>5. TypeOK'
  BY <1>0, <1>1 DEF TypeOK, List, Matching
<1>6. NothingLeftBehind'
  <2> SUFFICES ASSUME phase' = "count", NEW r \in known \ seen'
               PROVE  r \in Matching /\ Rank(r) >= offset'
    BY <1>0, <1>2 DEF NothingLeftBehind, Walking
  <2>1. offset' = offset + PageSize
    BY DEF List
  <2> QED
    BY <1>4, <2>1
<1>7. NoEmptyPage'
  <2> SUFFICES ASSUME phase' = "count" PROVE Cardinality(Matching) > offset'
    BY <1>0 DEF NoEmptyPage
  <2>1. HasMore /\ offset' = offset + PageSize
    BY DEF List
  <2> QED
    BY <1>0, <2>1, MoreToCome
<1>8. MissedOnlyByRace'
  <2> SUFFICES ASSUME phase' = "over", ~raced, NEW r \in known \ seen' PROVE FALSE
    BY <1>0 DEF MissedOnlyByRace
  <2>1. ~(offset + Cardinality(Page) < total)
    BY DEF List, HasMore
  <2>2. total = Cardinality(Matching)
    BY <1>0 DEF CountHolds
  <2>3. r \in Matching /\ Rank(r) >= offset + PageSize
    BY <1>4
  <2>4. Rank(r) < Cardinality(Matching)
    BY <2>3, RankPosition DEF TypeOK
  <2>5. Cardinality(Page) <= PageSize
    BY <1>0, PageFacts
  <2> QED
    BY <1>0, <1>1, <1>2, <2>1, <2>2, <2>3, <2>4, <2>5
<1>9. CountHolds'
  BY <1>0 DEF CountHolds
<1> QED
  BY <1>5, <1>6, <1>7, <1>8, <1>9

\* The invariant is kept by every step.
LEMMA NextHInv == HInv /\ [Next]_historyVars => HInv'
<1> SUFFICES ASSUME HInv, [Next]_historyVars PROVE HInv'
  OBVIOUS
<1>1. ASSUME NEW r \in Row, Insert(r) PROVE HInv'
  BY <1>1, InsertHInv
<1>2. ASSUME NEW q \in Query, Ask(q) PROVE HInv'
  <2>1. /\ phase' = "count" /\ offset' = 0 /\ total' = 0 /\ query' = q /\ raced' = FALSE
        /\ seen' = {} /\ known' = {r \in table : Matches(r, q)} /\ table' = table
    BY <1>2 DEF Ask
  <2>2. TypeOK'
    BY <2>1 DEF HInv, TypeOK
  <2>3. known' = Matching'
    BY <2>1 DEF Matching
  <2>4. \A r : Rank(r)' \in Nat
    <3>1. Matching' \subseteq Row /\ IsFiniteSet(Row)
      BY <2>2, HistoryAssumption DEF Matching, TypeOK
    <3>2. IsFiniteSet(Matching')
      BY <3>1, FS_Subset
    <3>3. ASSUME NEW r PROVE IsFiniteSet(Ahead(r)')
      <4>1. Ahead(r)' \subseteq Matching'
        BY DEF Ahead
      <4> QED
        BY <3>2, <4>1, FS_Subset
    <3> QED
      BY <3>3, FS_CardinalityType DEF Rank
  <2>5. NothingLeftBehind'
    BY <2>1, <2>3, <2>4 DEF NothingLeftBehind
  <2>6. NoEmptyPage' /\ MissedOnlyByRace' /\ CountHolds'
    BY <2>1 DEF NoEmptyPage, MissedOnlyByRace, CountHolds
  <2> QED
    BY <2>2, <2>5, <2>6 DEF HInv
<1>3. CASE Count
  <2>1. /\ phase = "count" /\ phase' = "list" /\ total' = Cardinality(Matching)
        /\ raced' = FALSE /\ UNCHANGED <<table, query, offset, seen, known>>
    BY <1>3 DEF Count
  <2>2. Matching' = Matching /\ \A r : Rank(r)' = Rank(r)
    BY <2>1 DEF Matching, Rank, Ahead, Newer
  <2>3. TypeOK'
    BY <2>1, Finite DEF HInv, TypeOK
  <2>4. NothingLeftBehind'
    BY <2>1, <2>2 DEF HInv, NothingLeftBehind, Walking
  <2>5. CountHolds'
    BY <2>1, <2>2, Finite DEF HInv, TypeOK, CountHolds
  <2>6. NoEmptyPage' /\ MissedOnlyByRace'
    BY <2>1 DEF NoEmptyPage, MissedOnlyByRace
  <2> QED
    BY <2>3, <2>4, <2>5, <2>6 DEF HInv
<1>4. CASE List
  BY <1>4, ListHInv
<1>5. CASE UNCHANGED historyVars
  BY <1>5 DEF historyVars, walkVars, HInv, TypeOK, NothingLeftBehind, Walking, NoEmptyPage,
              MissedOnlyByRace, CountHolds, Matching, Rank, Ahead, Newer
<1> QED
  BY <1>1, <1>2, <1>3, <1>4, <1>5 DEF Next

-----------------------------------------------------------------------------
\* In every reachable state the inductive invariant holds.
THEOREM HistoryInvariant == Spec => []HInv
BY InitHInv, NextHInv, PTL DEF Spec

\* The variables keep their types.
THEOREM HistoryTypeCorrect == Spec => []TypeOK
<1>1. HInv => TypeOK
  BY DEF HInv
<1> QED
  BY <1>1, HistoryInvariant, PTL

\* Offsets never run away from rows the client has still to see.
THEOREM WalkLeavesNothing == Spec => []NothingLeftBehind
<1>1. HInv => NothingLeftBehind
  BY DEF HInv
<1> QED
  BY <1>1, HistoryInvariant, PTL

\* has_more is never a false promise.
THEOREM HasMoreKeepsItsWord == Spec => []NoEmptyPage
<1>1. HInv => NoEmptyPage
  BY DEF HInv
<1> QED
  BY <1>1, HistoryInvariant, PTL

\* The only way to miss a row is the race of an insert with the last page.
THEOREM OnlyTheRaceMisses == Spec => []MissedOnlyByRace
<1>1. HInv => MissedOnlyByRace
  BY DEF HInv
<1> QED
  BY <1>1, HistoryInvariant, PTL
=============================================================================
