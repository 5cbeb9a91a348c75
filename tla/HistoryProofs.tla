--------------------------- MODULE HistoryProofs ---------------------------
(***************************************************************************)
(* Reading the history page by page, for any number of rows and any page   *)
(* size: how often a row is shown twice, and how many rows a reader who    *)
(* goes on to the last page can miss, when others come and go meanwhile.   *)
(*                                                                         *)
(* The argument is about the place (Place) of a row among those that match: *)
(* one more row moves the rest by a place at most, so at most one of them  *)
(* crosses the boundary between the pages read and those still to come.    *)
(***************************************************************************)
EXTENDS History, FiniteSetTheorems, TLAPS

-----------------------------------------------------------------------------
(* Places.                                                                 *)

\* The place of n among S, newest first.
Place(S, n) == Cardinality({m \in S : m >= n})

\* Rows of T beyond the first j places of S, rows within them, and rows of S
\* in the places after j up to k.
Beyond(T, S, j) == {n \in T : Place(S, n) > j}
Within(T, S, j) == {n \in T : Place(S, n) <= j}
Between(S, j, k) == {n \in S : Place(S, n) > j /\ Place(S, n) <= k}

LEMMA PlaceType ==
    ASSUME NEW S, IsFiniteSet(S), NEW n \in S, S \subseteq Nat
    PROVE  Place(S, n) \in Nat /\ 1 <= Place(S, n) /\ Place(S, n) <= Cardinality(S)
  <1> DEFINE R == {m \in S : m >= n}
  <1>1. R \in SUBSET S /\ R # {}
    OBVIOUS
  <1>2. IsFiniteSet(R) /\ Cardinality(R) <= Cardinality(S)
    BY <1>1, FS_Subset
  <1>3. Cardinality(R) \in Nat /\ Cardinality(R) # 0
    BY <1>1, <1>2, FS_CardinalityType, FS_EmptySet
  <1> QED BY <1>2, <1>3 DEF Place

\* Newer rows have lower places.
LEMMA PlacesApart ==
    ASSUME NEW S, IsFiniteSet(S), S \subseteq Nat, NEW m \in S, NEW n \in S, m < n
    PROVE  Place(S, n) < Place(S, m)
  <1> DEFINE M == {x \in S : x >= m}
             N == {x \in S : x >= n}
  <1>1. N \in SUBSET M /\ m \in M /\ m \notin N
    <2>1. m \in Nat /\ n \in Nat
      OBVIOUS
    <2>2. \A x \in S : x >= n => x >= m
      BY <2>1
    <2>3. m >= m /\ ~(m >= n)
      BY <2>1
    <2>4. m \in M /\ m \notin N
      BY <2>3
    <2>5. N \subseteq M
      BY <2>2
    <2> QED BY <2>4, <2>5
  <1>2. IsFiniteSet(M)
    BY FS_Subset
  <1>3. Cardinality(N) <= Cardinality(M) /\ Cardinality(N) # Cardinality(M)
    BY <1>1, <1>2, FS_Subset
  <1>4. Place(S, n) \in Nat /\ Place(S, m) \in Nat
    BY PlaceType
  <1>5. Place(S, n) = Cardinality(N) /\ Place(S, m) = Cardinality(M)
    BY DEF Place
  <1> HIDE DEF M, N
  <1> QED BY <1>3, <1>4, <1>5

\* No two rows have one place, so there are no more rows than places.
LEMMA OnePerPlace ==
    ASSUME NEW S, IsFiniteSet(S), S \subseteq Nat, NEW j \in Nat, NEW k \in Nat, j <= k
    PROVE  /\ IsFiniteSet(Between(S, j, k))
           /\ Cardinality(Between(S, j, k)) \in Nat
           /\ Cardinality(Between(S, j, k)) <= k - j
  <1> DEFINE T == Between(S, j, k)
             f == [n \in T |-> Place(S, n)]
  <1>1. T \subseteq S /\ \A n \in T : Place(S, n) > j /\ Place(S, n) <= k
    BY DEF Between
  <1>2. \A n \in S : Place(S, n) \in Nat
    BY PlaceType
  <1>3. \A m, n \in T : Place(S, m) = Place(S, n) => m = n
    <2>1. SUFFICES ASSUME NEW m \in T, NEW n \in T, m # n
                   PROVE  Place(S, m) # Place(S, n)
      OBVIOUS
    <2> HIDE DEF T
    <2>2. m \in S /\ n \in S /\ m \in Nat /\ n \in Nat
      BY <1>1
    <2>3. Place(S, m) \in Nat /\ Place(S, n) \in Nat
      BY <1>2, <2>2
    <2>4. CASE m < n
      <3>1. Place(S, n) < Place(S, m)
        BY <2>2, <2>4, PlacesApart
      <3> QED BY <2>3, <3>1
    <2>5. CASE n < m
      <3>1. Place(S, m) < Place(S, n)
        BY <2>2, <2>5, PlacesApart
      <3> QED BY <2>3, <3>1
    <2> QED BY <2>1, <2>2, <2>4, <2>5
  <1> HIDE DEF T
  <1>4. \A n \in T : Place(S, n) \in j + 1 .. k
    BY <1>1, <1>2
  <1>5. f \in Injection(T, j + 1 .. k)
    BY <1>3, <1>4 DEF Injection, IsInjective
  <1>6. /\ IsFiniteSet(j + 1 .. k)
        /\ Cardinality(j + 1 .. k) = IF j + 1 > k THEN 0 ELSE k - (j + 1) + 1
    <2>1. j + 1 \in Int /\ k \in Int
      OBVIOUS
    <2> QED BY <2>1, FS_Interval
  <1>7. IsFiniteSet(T) /\ Cardinality(T) <= Cardinality(j + 1 .. k)
    BY <1>5, <1>6, FS_Injection
  <1>8. Cardinality(T) \in Nat /\ Cardinality(T) <= k - j
    <2>1. Cardinality(T) \in Nat
      BY <1>7, FS_CardinalityType
    <2> QED BY <1>6, <1>7, <2>1
  <1> QED BY <1>7, <1>8 DEF T

\* Beyond the first j places there are as many rows as S has more than j.
LEMMA Overflow ==
    ASSUME NEW S, IsFiniteSet(S), S \subseteq Nat, NEW j \in Nat
    PROVE  /\ IsFiniteSet(Beyond(S, S, j))
           /\ Cardinality(Beyond(S, S, j)) <= IF j > Cardinality(S) THEN 0 ELSE Cardinality(S) - j
  <1> DEFINE T == Beyond(S, S, j)
             c == Cardinality(S)
  <1>1. c \in Nat
    BY FS_CardinalityType
  <1>2. \A n \in S : Place(S, n) \in Nat /\ Place(S, n) <= c
    BY PlaceType
  <1> HIDE DEF c
  <1>3. CASE j <= c
    <2>1. T = Between(S, j, c)
      BY <1>2 DEF Beyond, Between
    <2>2. IsFiniteSet(T) /\ Cardinality(T) <= c - j
      BY <1>1, <1>3, <2>1, OnePerPlace
    <2> QED BY <1>1, <1>3, <2>2 DEF c
  <1>4. CASE ~(j <= c)
    <2>1. \A n \in S : ~(Place(S, n) > j)
      BY <1>1, <1>2, <1>4
    <2>2. T = {}
      BY <2>1 DEF Beyond
    <2>3. IsFiniteSet(T) /\ Cardinality(T) = 0
      BY <2>2, FS_EmptySet
    <2>4. j > c
      BY <1>1, <1>4
    <2> QED BY <2>3, <2>4 DEF c
  <1> QED BY <1>3, <1>4

\* One more row moves another by a place at most.
LEMMA PlaceMoves ==
    ASSUME NEW S, IsFiniteSet(S), S \subseteq Nat, NEW e \in Nat, e \notin S, NEW n \in S
    PROVE  Place(S \cup {e}, n) \in {Place(S, n), Place(S, n) + 1}
  <1> DEFINE R == {m \in S : m >= n}
  <1>1. {m \in S \cup {e} : m >= n} = IF e >= n THEN R \cup {e} ELSE R
    OBVIOUS
  <1>2. IsFiniteSet(R) /\ e \notin R
    BY FS_Subset
  <1>3. Cardinality(R \cup {e}) = Cardinality(R) + 1
    BY <1>2, FS_AddElement
  <1> QED BY <1>1, <1>3 DEF Place

\* And only one row moves from the first j places to the rest.
LEMMA OneCrosses ==
    ASSUME NEW S, IsFiniteSet(S), S \subseteq Nat, NEW e \in Nat, e \notin S, NEW j \in Nat
    PROVE  /\ \A n \in S : Place(S, n) > j => Place(S \cup {e}, n) > j
           /\ \A m, n \in S :
                /\ Place(S, m) <= j /\ Place(S \cup {e}, m) > j
                /\ Place(S, n) <= j /\ Place(S \cup {e}, n) > j
                => m = n
  <1>1. \A n \in S : Place(S, n) \in Nat
    BY PlaceType
  <1>2. \A n \in S : Place(S \cup {e}, n) \in {Place(S, n), Place(S, n) + 1}
    BY PlaceMoves
  <1>3. ASSUME NEW m \in S, NEW n \in S,
               Place(S, m) <= j, Place(S \cup {e}, m) > j,
               Place(S, n) <= j, Place(S \cup {e}, n) > j
        PROVE  m = n
    <2>1. Place(S, m) = j /\ Place(S, n) = j
      BY <1>1, <1>2, <1>3
    <2>2. ~(Place(S, m) < Place(S, n)) /\ ~(Place(S, n) < Place(S, m))
      BY <2>1
    <2>3. m \in Nat /\ n \in Nat
      OBVIOUS
    <2>4. ~(m < n)
      BY <2>2, PlacesApart
    <2>5. ~(n < m)
      BY <2>2, PlacesApart
    <2> QED BY <2>3, <2>4, <2>5
  <1> QED BY <1>1, <1>2, <1>3

\* A set that is within another but for one element.
LEMMA OneMore ==
    ASSUME NEW A, IsFiniteSet(A), NEW B,
           \A x, y \in B \ A : x = y
    PROVE  IsFiniteSet(B) /\ Cardinality(B) \in Nat /\ Cardinality(B) <= Cardinality(A) + 1
  <1>1. CASE B \subseteq A
    BY <1>1, FS_Subset, FS_CardinalityType
  <1>2. CASE ~(B \subseteq A)
    <2>1. PICK x \in B : x \notin A
      BY <1>2
    <2>2. B \in SUBSET (A \cup {x})
      BY <2>1
    <2>3. IsFiniteSet(A \cup {x}) /\ Cardinality(A \cup {x}) = Cardinality(A) + 1
      BY <2>1, FS_AddElement
    <2> QED BY <2>2, <2>3, FS_Subset, FS_CardinalityType
  <1> QED BY <1>1, <1>2

\* So of any rows one more at most lies beyond, and one less within.
LEMMA OnePushed ==
    ASSUME NEW S, IsFiniteSet(S), S \subseteq Nat, NEW e \in Nat, e \notin S, NEW j \in Nat,
           NEW T \in SUBSET S
    PROVE  /\ Cardinality(Beyond(T, S, j)) \in Nat
           /\ Cardinality(Beyond(T, S \cup {e}, j)) \in Nat
           /\ Cardinality(Beyond(T, S, j)) <= Cardinality(Beyond(T, S \cup {e}, j))
           /\ Cardinality(Beyond(T, S \cup {e}, j)) <= Cardinality(Beyond(T, S, j)) + 1
  <1> DEFINE B == Beyond(T, S, j)
             C == Beyond(T, S \cup {e}, j)
  <1>1. \A n \in S : Place(S, n) > j \/ Place(S, n) <= j
    <2>1. \A n \in S : Place(S, n) \in Nat
      BY PlaceType
    <2> QED BY <2>1
  <1>2. B \in SUBSET S /\ B \in SUBSET C /\ C \in SUBSET S
    BY OneCrosses DEF Beyond
  <1>3. IsFiniteSet(B) /\ IsFiniteSet(C)
    BY <1>2, FS_Subset
  <1>4. \A x \in C \ B : x \in S /\ Place(S, x) <= j /\ Place(S \cup {e}, x) > j
    BY <1>1 DEF Beyond
  <1>5. \A x, y \in C \ B : x = y
    BY <1>4, OneCrosses
  <1> HIDE DEF B, C
  <1>6. Cardinality(C) \in Nat /\ Cardinality(C) <= Cardinality(B) + 1
    BY <1>3, <1>5, OneMore
  <1>7. Cardinality(B) \in Nat /\ Cardinality(B) <= Cardinality(C)
    BY <1>2, <1>3, FS_Subset, FS_CardinalityType
  <1> QED BY <1>6, <1>7 DEF B, C

LEMMA OnePulled ==
    ASSUME NEW S, IsFiniteSet(S), S \subseteq Nat, NEW e \in Nat, e \notin S, NEW j \in Nat,
           NEW T \in SUBSET S
    PROVE  /\ Cardinality(Within(T, S, j)) \in Nat
           /\ Cardinality(Within(T, S \cup {e}, j)) \in Nat
           /\ Cardinality(Within(T, S \cup {e}, j)) <= Cardinality(Within(T, S, j))
           /\ Cardinality(Within(T, S, j)) <= Cardinality(Within(T, S \cup {e}, j)) + 1
  <1> DEFINE B == Within(T, S \cup {e}, j)
             C == Within(T, S, j)
  <1>2. \A n \in S : Place(S, n) \in Nat
    BY PlaceType
  <1>1. \A n \in S : Place(S \cup {e}, n) \in Nat
    <2>1. \A n \in S : Place(S \cup {e}, n) \in {Place(S, n), Place(S, n) + 1}
      BY PlaceMoves
    <2> QED BY <1>2, <2>1
  <1>3. \A n \in S : Place(S \cup {e}, n) <= j => Place(S, n) <= j
    <2>1. \A n \in S : Place(S, n) > j => Place(S \cup {e}, n) > j
      BY OneCrosses
    <2> QED BY <1>1, <1>2, <2>1
  <1>4. B \in SUBSET S /\ B \in SUBSET C /\ C \in SUBSET S
    BY <1>3 DEF Within
  <1>5. IsFiniteSet(B) /\ IsFiniteSet(C)
    BY <1>4, FS_Subset
  <1>6. \A x \in C \ B : x \in S /\ Place(S, x) <= j /\ Place(S \cup {e}, x) > j
    BY <1>1 DEF Within
  <1>7. \A x, y \in C \ B : x = y
    BY <1>6, OneCrosses
  <1> HIDE DEF B, C
  <1>8. Cardinality(C) \in Nat /\ Cardinality(C) <= Cardinality(B) + 1
    BY <1>5, <1>7, OneMore
  <1>9. Cardinality(B) \in Nat /\ Cardinality(B) <= Cardinality(C)
    BY <1>4, <1>5, FS_Subset, FS_CardinalityType
  <1> QED BY <1>8, <1>9 DEF B, C

-----------------------------------------------------------------------------
(* The inductive invariant.                                                *)

Matches == Matching(row, filter)

\* Places on the pages read or passed so far.
Past == PageSize * (IF step = "shown" THEN page ELSE page - 1)

\* Rows of payments that have not begun are not there.
Unbegun == \A n \in Id : n > begun => row[n] = "none"

\* A row that was in the walk matches, or is settled for good.
Walked ==
    /\ steady \subseteq Matches
    /\ left \cap Matches = {}
    /\ slipped \subseteq entered
    /\ \A n \in seen \cup entered \cup left :
         n \in Matches \/ row[n] \in {"COMPLETED", "FAILED"}

\* Every row that came moved one row at most back among the unread ones, to be
\* shown again.
Pushed ==
    repeats + Cardinality(Beyond(seen \cap Matches, Matches, Past)) <= Cardinality(entered)

\* Places on the pages passed without having been shown.
Passed == PageSize * skipped

\* Every row that left moved one row at most up among those read; the others
\* that were not shown had a place on a page that was passed.
Pulled == Cardinality(Within(steady \ seen, Matches, Past)) <= Cardinality(left) + Passed

\* The page on the screen is the page asked for, once that has been answered.
Shown == step = "shown" => onscreen = [page |-> page, total |-> total]

\* What COUNT did not count had not come yet.
Counted == step = "fetch" => Cardinality(Matches) <= total + Cardinality(slipped)

IInv ==
    /\ TypeOK /\ Unbegun /\ Walked /\ Pushed /\ Pulled /\ Counted /\ Shown
    /\ MissedOnlyByOverlap

-----------------------------------------------------------------------------

LEMMA Finite ==
    /\ MaxRows \in Nat /\ PageSize \in Nat \ {0} /\ MaxSkips \in Nat
    /\ Id \subseteq Nat /\ IsFiniteSet(Id)
    /\ \A S \in SUBSET Id : IsFiniteSet(S) /\ Cardinality(S) \in 0 .. MaxRows
  <1>1. /\ MaxRows \in Nat /\ PageSize \in Nat \ {0} /\ MaxSkips \in Nat
        /\ 1 \in Int /\ MaxRows \in Int
    BY RowsAssumption
  <1>2. Id \subseteq Nat /\ IsFiniteSet(Id) /\ Cardinality(Id) = MaxRows
    BY <1>1, FS_Interval DEF Id
  <1>3. ASSUME NEW S \in SUBSET Id
        PROVE  IsFiniteSet(S) /\ Cardinality(S) \in 0 .. MaxRows
    <2>1. IsFiniteSet(S) /\ Cardinality(S) <= MaxRows
      BY <1>2, FS_Subset
    <2>2. Cardinality(S) \in Nat
      BY <2>1, FS_CardinalityType
    <2> QED BY <1>1, <2>1, <2>2
  <1> QED BY <1>1, <1>2, <1>3

LEMMA MatchingIds ==
    /\ \A t, f : Matching(t, f) \subseteq Id
    /\ Matches \subseteq Id /\ IsFiniteSet(Matches) /\ Matches \subseteq Nat
    /\ \A n \in Matches : Place(Matches, n) \in Nat
  <1>1. \A t, f : Matching(t, f) \subseteq Id
    BY DEF Matching
  <1>2. Matches \subseteq Id /\ IsFiniteSet(Matches) /\ Matches \subseteq Nat
    BY <1>1, Finite DEF Matches
  <1> QED BY <1>1, <1>2, PlaceType

LEMMA PastType ==
    ASSUME TypeOK
    PROVE  /\ page \in Nat \ {0} /\ Past \in Nat
           /\ skipped \in Nat /\ Passed \in Nat
  <1>1. page \in Nat \ {0} /\ skipped \in Nat
    BY Finite DEF TypeOK
  <1>2. (IF step = "shown" THEN page ELSE page - 1) \in Nat
    BY <1>1
  <1> QED BY <1>1, <1>2, Finite DEF Past, Passed

\* The rows of a page are those with its places.
LEMMA PagePlaces ==
    ASSUME TypeOK
    PROVE  /\ Offset(page) \in Nat /\ Offset(page) = PageSize * (page - 1)
           /\ Offset(page) + PageSize = PageSize * page
           /\ PageOf(page) = {n \in Matches : /\ Place(Matches, n) > PageSize * (page - 1)
                                              /\ Place(Matches, n) <= PageSize * page}
  <1>1. /\ page \in Nat /\ page - 1 \in Nat /\ PageSize \in Nat
        /\ Offset(page) = (page - 1) * PageSize
    BY PastType, Finite DEF Offset
  <1>2. /\ Offset(page) \in Nat /\ Offset(page) = PageSize * (page - 1)
        /\ Offset(page) + PageSize = PageSize * page
    BY <1>1
  <1>3. PageOf(page) = {n \in Matches :
                          Place(Matches, n) \in Offset(page) + 1 .. Offset(page) + PageSize}
    BY DEF PageOf, Place, Matches
  <1>4. \A n \in Matches : Place(Matches, n) \in Nat
    BY MatchingIds
  <1>5. \A n \in Matches :
            Place(Matches, n) \in Offset(page) + 1 .. Offset(page) + PageSize
            <=> Place(Matches, n) > PageSize * (page - 1) /\ Place(Matches, n) <= PageSize * page
    <2> DEFINE a == PageSize * (page - 1)
               b == PageSize * page
    <2>1. a \in Nat /\ b \in Nat /\ Offset(page) = a /\ Offset(page) + PageSize = b
      BY <1>1, <1>2
    <2> HIDE DEF a, b
    <2>2. \A n \in Matches : Place(Matches, n) \in a + 1 .. b
             <=> Place(Matches, n) > a /\ Place(Matches, n) <= b
      BY <1>4, <2>1
    <2> QED BY <2>1, <2>2 DEF a, b
  <1> QED BY <1>2, <1>3, <1>5

-----------------------------------------------------------------------------
(* A row changes.                                                          *)

\* Row n changes, and nothing comes to match or ceases to.
Remains ==
    /\ Matches' = Matches
    /\ steady' = steady /\ UNCHANGED <<entered, left, slipped>>

Enters(n) ==
    /\ n \in Id /\ n \notin Matches
    /\ Matches' = Matches \cup {n}
    /\ steady' = steady /\ left' = left
    /\ entered' = entered \cup {n}
    /\ slipped' = IF step = "fetch" THEN slipped \cup {n} ELSE slipped

Leaves(n) ==
    /\ n \in Matches
    /\ Matches' = Matches \ {n}
    /\ steady' = steady \ {n} /\ left' = left \cup {n}
    /\ UNCHANGED <<entered, slipped>>

\* A row that is not settled takes status s, and what that does to the walk.
Changes(n, s) ==
    /\ row[n] \in {"uncommitted", "PENDING"}
    /\ s \in Status \cup {"none"}
    /\ s = "PENDING" => row[n] = "uncommitted"
    /\ s = "none" => row[n] = "uncommitted"
    /\ row' = [row EXCEPT ![n] = s]
    /\ UNCHANGED <<begun, reader>>

LEMMA BecomesKinds ==
    ASSUME TypeOK, Walked, NEW n \in Id, NEW s, Becomes(n, s), row[n] \in {"uncommitted", "PENDING"}
    PROVE  Remains \/ Enters(n) \/ Leaves(n)
  <1>1. /\ row' = [row EXCEPT ![n] = s] /\ filter' = filter
        /\ row'[n] = s /\ \A m \in Id \ {n} : row'[m] = row[m]
    BY DEF Becomes, reader, TypeOK
  <1>2. Matches' = Matching(row', filter)
    BY <1>1 DEF Matches
  <1>3. /\ steady' = steady \cap Matches'
        /\ left' = left \cup (Matches \ Matches')
        /\ entered' = entered \cup (Matches' \ Matches)
        /\ slipped' = IF step = "fetch" THEN slipped \cup (Matches' \ Matches) ELSE slipped
    BY <1>1, <1>2 DEF Becomes, Matches
  <1>4. \A m \in Id \ {n} : m \in Matches' <=> m \in Matches
    BY <1>1, <1>2 DEF Matches, Matching
  <1>5. steady \subseteq Matches /\ Matches \subseteq Id /\ Matches' \subseteq Id
    BY <1>2, MatchingIds DEF Walked
  <1>6. CASE n \in Matches /\ n \notin Matches'
    BY <1>3, <1>4, <1>5, <1>6 DEF Leaves
  <1>7. CASE n \notin Matches /\ n \in Matches'
    BY <1>3, <1>4, <1>5, <1>7 DEF Enters
  <1>8. CASE n \in Matches <=> n \in Matches'
    <2>1. Matches' = Matches
      BY <1>4, <1>5, <1>8
    <2> QED BY <1>3, <1>5, <2>1 DEF Remains
  <1> QED BY <1>6, <1>7, <1>8

\* What came or went was not part of the walk before, or will not be again.
LEMMA RowsWalked ==
    ASSUME TypeOK, Unbegun, Walked, NEW n \in Id, NEW s, Changes(n, s), Becomes(n, s)
    PROVE  /\ TypeOK' /\ Unbegun' /\ Walked'
           /\ Remains \/ (Enters(n) /\ n \notin seen \cup entered \cup steady)
                      \/ (Leaves(n) /\ n \notin left)
  <1>1. /\ row'[n] = s /\ \A m \in Id \ {n} : row'[m] = row[m]
        /\ row' \in [Id -> Status \cup {"none", "uncommitted"}]
    BY DEF Changes, TypeOK
  <1>2. Remains \/ Enters(n) \/ Leaves(n)
    BY BecomesKinds DEF Changes
  <1>3. Matches \subseteq Id
    BY MatchingIds
  <1>4. TypeOK'
    <2>1. /\ steady' \subseteq Id /\ entered' \subseteq Id
          /\ left' \subseteq Id /\ slipped' \subseteq Id
      BY <1>2, <1>3 DEF Remains, Enters, Leaves, TypeOK
    <2> QED BY <1>1, <2>1 DEF Changes, reader, TypeOK
  <1>5. Unbegun'
    BY <1>1 DEF Changes, Unbegun
  <1>6. n \notin Matches => n \notin seen \cup entered \cup left \cup steady
    BY DEF Walked, Changes
  <1>7. n \in Matches => n \notin left
    BY DEF Walked
  <1>8. n \in Matches /\ Leaves(n) => row'[n] \in {"COMPLETED", "FAILED"}
    <2>1. SUFFICES ASSUME n \in Matches, Leaves(n), s \in {"PENDING", "none"}
                   PROVE  FALSE
      BY <1>1 DEF Changes, Status
    <2>2. row[n] = "uncommitted"
      BY <2>1 DEF Changes
    <2> QED BY <2>1, <2>2 DEF Matches, Matching, Status
  <1>9. Walked'
    <2>1. \A m \in Id \ {n} : m \in Matches' <=> m \in Matches
      BY <1>2 DEF Remains, Enters, Leaves
    <2>2. steady' \subseteq Matches' /\ left' \cap Matches' = {} /\ slipped' \subseteq entered'
      BY <1>2, <1>6 DEF Remains, Enters, Leaves, Walked
    <2>3. seen' = seen
      BY DEF Changes, reader
    <2>4. ASSUME NEW m \in seen' \cup entered' \cup left'
          PROVE  m \in Matches' \/ row'[m] \in {"COMPLETED", "FAILED"}
      <3>1. CASE m # n
        <4>1. m \in seen \cup entered \cup left /\ m \in Id
          BY <1>2, <2>3, <2>4, <3>1 DEF Remains, Enters, Leaves, TypeOK
        <4> QED BY <1>1, <2>1, <3>1, <4>1 DEF Walked
      <3>2. CASE m = n /\ Remains
        <4>1. n \in Matches'
          BY <1>6, <2>3, <2>4, <3>2 DEF Remains
        <4> QED BY <3>2, <4>1
      <3>3. CASE m = n /\ Enters(n)
        BY <3>3 DEF Enters
      <3>4. CASE m = n /\ Leaves(n)
        BY <1>8, <3>4 DEF Leaves
      <3> QED BY <1>2, <3>1, <3>2, <3>3, <3>4
    <2> QED BY <2>2, <2>4 DEF Walked
  <1> QED BY <1>2, <1>4, <1>5, <1>6, <1>7, <1>9 DEF Enters, Leaves

-----------------------------------------------------------------------------

RowStep(n) ==
    /\ UNCHANGED reader
    /\ \/ Remains
       \/ Enters(n) /\ n \notin seen \cup entered \cup steady
       \/ Leaves(n) /\ n \notin left

LEMMA PushedByRow ==
    ASSUME TypeOK, Pushed, NEW n \in Id, RowStep(n)
    PROVE  Pushed'
  <1> DEFINE T == seen \cap Matches
  <1>1. Past' = Past /\ Past \in Nat /\ seen' = seen /\ repeats' = repeats /\ repeats \in Nat
    BY PastType DEF RowStep, reader, Past, TypeOK
  <1>2. n \in Nat /\ IsFiniteSet(entered) /\ Cardinality(entered) \in Nat
    BY Finite DEF TypeOK
  <1>3. CASE Remains
    BY <1>1, <1>3 DEF Remains, Pushed
  <1>4. CASE Enters(n) /\ n \notin seen \cup entered \cup steady
    <2>1. Matches' = Matches \cup {n} /\ n \notin Matches /\ seen' \cap Matches' = T
      BY <1>1, <1>4 DEF Enters
    <2>2. /\ Cardinality(Beyond(T, Matches, Past)) \in Nat
          /\ Cardinality(Beyond(T, Matches \cup {n}, Past)) \in Nat
          /\ Cardinality(Beyond(T, Matches \cup {n}, Past)) <= Cardinality(Beyond(T, Matches, Past)) + 1
      <3>1. T \in SUBSET Matches
        OBVIOUS
      <3> QED BY <1>1, <1>2, <2>1, <3>1, OnePushed, MatchingIds
    <2>3. Cardinality(entered') = Cardinality(entered) + 1
      BY <1>2, <1>4, FS_AddElement DEF Enters
    <2> HIDE DEF T
    <2>4. repeats + Cardinality(Beyond(T, Matches \cup {n}, Past)) <= Cardinality(entered')
      BY <1>1, <1>2, <2>2, <2>3 DEF Pushed, T
    <2> QED BY <1>1, <2>1, <2>4 DEF Pushed
  <1>5. CASE Leaves(n)
    <2> DEFINE U == seen \cap Matches'
    <2>1. /\ n \notin Matches' /\ Matches = Matches' \cup {n}
          /\ Matches' \subseteq Nat /\ IsFiniteSet(Matches') /\ entered' = entered
      BY <1>5, MatchingIds, FS_RemoveElement DEF Leaves
    <2>2. /\ Cardinality(Beyond(U, Matches', Past)) \in Nat
          /\ Cardinality(Beyond(U, Matches' \cup {n}, Past)) \in Nat
          /\ Cardinality(Beyond(U, Matches', Past)) <= Cardinality(Beyond(U, Matches' \cup {n}, Past))
      <3>1. U \in SUBSET Matches'
        OBVIOUS
      <3> QED BY <1>1, <1>2, <2>1, <3>1, OnePushed
    <2>3. /\ Cardinality(Beyond(T, Matches, Past)) \in Nat
          /\ Cardinality(Beyond(U, Matches, Past)) <= Cardinality(Beyond(T, Matches, Past))
      <3>1. Beyond(T, Matches, Past) \in SUBSET Id
        BY MatchingIds DEF Beyond
      <3>2. Beyond(U, Matches, Past) \in SUBSET Beyond(T, Matches, Past)
        BY <2>1 DEF Beyond
      <3> HIDE DEF T, U
      <3>3. IsFiniteSet(Beyond(T, Matches, Past))
        BY <3>1, Finite
      <3> QED BY <3>2, <3>3, FS_Subset, FS_CardinalityType
    <2>4. Cardinality(Beyond(U, Matches', Past)) <= Cardinality(Beyond(T, Matches, Past))
      BY <2>1, <2>2, <2>3
    <2>5. repeats + Cardinality(Beyond(T, Matches, Past)) <= Cardinality(entered)
      BY DEF Pushed
    <2>6. Beyond(seen' \cap Matches', Matches', Past') = Beyond(U, Matches', Past)
      BY <1>1
    <2> HIDE DEF T, U
    <2>7. repeats + Cardinality(Beyond(U, Matches', Past)) <= Cardinality(entered)
      BY <1>1, <1>2, <2>2, <2>3, <2>4, <2>5
    <2> QED BY <1>1, <2>1, <2>6, <2>7 DEF Pushed
  <1> QED BY <1>3, <1>4, <1>5 DEF RowStep

LEMMA PulledByRow ==
    ASSUME TypeOK, Walked, Pulled, NEW n \in Id, RowStep(n)
    PROVE  Pulled'
  <1> DEFINE T == steady \ seen
  <1>1. Past' = Past /\ Past \in Nat /\ seen' = seen /\ T \in SUBSET Matches
    BY PastType DEF RowStep, reader, Past, Walked
  <1>2. /\ n \in Nat /\ IsFiniteSet(left) /\ Cardinality(left) \in Nat
        /\ Passed \in Nat /\ Passed' = Passed
    BY Finite, PastType DEF TypeOK, RowStep, reader, Passed
  <1>3. CASE Remains
    BY <1>1, <1>2, <1>3 DEF Remains, Pulled
  <1>4. CASE Enters(n)
    <2>1. /\ Matches' = Matches \cup {n} /\ n \notin Matches
          /\ steady' \ seen' = T /\ left' = left
      BY <1>1, <1>4 DEF Enters
    <2> HIDE DEF T
    <2>2. /\ Cardinality(Within(T, Matches, Past)) \in Nat
          /\ Cardinality(Within(T, Matches \cup {n}, Past)) \in Nat
          /\ Cardinality(Within(T, Matches \cup {n}, Past)) <= Cardinality(Within(T, Matches, Past))
      BY <1>1, <1>2, <2>1, OnePulled, MatchingIds
    <2>3. Cardinality(Within(T, Matches, Past)) <= Cardinality(left) + Passed
      BY DEF Pulled, T
    <2>4. Cardinality(Within(T, Matches \cup {n}, Past)) <= Cardinality(left) + Passed
      BY <1>2, <2>2, <2>3
    <2> QED BY <1>1, <1>2, <2>1, <2>4 DEF Pulled
  <1>5. CASE Leaves(n) /\ n \notin left
    <2> DEFINE U == T \ {n}
    <2>1. /\ n \notin Matches' /\ Matches = Matches' \cup {n}
          /\ Matches' \subseteq Nat /\ IsFiniteSet(Matches')
          /\ U \in SUBSET Matches' /\ steady' \ seen' = U
      BY <1>1, <1>5, MatchingIds, FS_RemoveElement DEF Leaves
    <2>2. /\ IsFiniteSet(Within(T, Matches, Past))
          /\ Cardinality(Within(T, Matches, Past)) \in Nat
          /\ Cardinality(Within(U, Matches, Past)) <= Cardinality(Within(T, Matches, Past))
      <3>1. Within(T, Matches, Past) \in SUBSET Id
        BY <1>1, MatchingIds DEF Within
      <3>2. Within(U, Matches, Past) \in SUBSET Within(T, Matches, Past)
        BY DEF Within
      <3> HIDE DEF T, U
      <3>3. IsFiniteSet(Within(T, Matches, Past))
        BY <3>1, Finite
      <3> QED BY <3>2, <3>3, FS_Subset, FS_CardinalityType
    <2> HIDE DEF U
    <2>3. /\ Cardinality(Within(U, Matches', Past)) \in Nat
          /\ Cardinality(Within(U, Matches' \cup {n}, Past)) \in Nat
          /\ Cardinality(Within(U, Matches', Past)) <= Cardinality(Within(U, Matches' \cup {n}, Past)) + 1
      BY <1>1, <1>2, <2>1, OnePulled
    <2>4. Cardinality(left') = Cardinality(left) + 1
      BY <1>2, <1>5, FS_AddElement DEF Leaves
    <2>5. Cardinality(Within(T, Matches, Past)) <= Cardinality(left) + Passed
      BY DEF Pulled
    <2> HIDE DEF T
    <2>6. Cardinality(Within(U, Matches', Past)) <= Cardinality(left') + Passed
      <3>1. Cardinality(Within(U, Matches, Past)) \in Nat
        BY <2>1, <2>3
      <3>2. Cardinality(Within(U, Matches', Past)) <= Cardinality(Within(U, Matches, Past)) + 1
        BY <2>1, <2>3
      <3> QED BY <1>2, <2>2, <2>3, <2>4, <2>5, <3>1, <3>2
    <2> QED BY <1>1, <1>2, <2>1, <2>6 DEF Pulled
  <1> QED BY <1>3, <1>4, <1>5 DEF RowStep

LEMMA CountsByRow ==
    ASSUME TypeOK, Walked, Counted, Shown, MissedOnlyByOverlap, NEW n \in Id, RowStep(n)
    PROVE  Counted' /\ Shown' /\ MissedOnlyByOverlap'
  <1>1. /\ UNCHANGED <<step, total, page, seen, skipped>> /\ total \in Nat
        /\ HasNext' = HasNext /\ Shown'
    BY Finite DEF RowStep, reader, TypeOK, HasNext, Shown
  <1>2. /\ PageSize * skipped \in Nat
        /\ IsFiniteSet(Matches) /\ Cardinality(Matches) \in Nat
        /\ IsFiniteSet(slipped) /\ Cardinality(slipped) \in Nat
        /\ IsFiniteSet(left) /\ Cardinality(left) \in Nat
        /\ IsFiniteSet(steady \ seen) /\ Cardinality(steady \ seen) \in Nat
    <2>1. /\ Matches \in SUBSET Id /\ slipped \in SUBSET Id /\ left \in SUBSET Id
          /\ steady \ seen \in SUBSET Id
      BY MatchingIds DEF TypeOK
    <2> QED BY <2>1, Finite, PastType DEF Passed
  <1>3. CASE Remains
    BY <1>1, <1>3 DEF Remains, Counted, MissedOnlyByOverlap
  <1>4. CASE Enters(n) /\ n \notin seen \cup entered \cup steady
    <2>1. Counted'
      <3>1. SUFFICES ASSUME step = "fetch"
                     PROVE  Cardinality(Matches') <= total + Cardinality(slipped')
        BY <1>1 DEF Counted
      <3>2. n \notin slipped
        BY <1>4 DEF Walked
      <3>3. Cardinality(Matches') = Cardinality(Matches) + 1
        BY <1>2, <1>4, FS_AddElement DEF Enters
      <3>4. Cardinality(slipped') = Cardinality(slipped) + 1
        BY <1>2, <1>4, <3>1, <3>2, FS_AddElement DEF Enters
      <3> QED BY <1>1, <1>2, <3>1, <3>3, <3>4 DEF Counted
    <2>2. MissedOnlyByOverlap'
      BY <1>1, <1>4 DEF Enters, MissedOnlyByOverlap
    <2> QED BY <1>1, <2>1, <2>2
  <1>5. CASE Leaves(n) /\ n \notin left
    <2>1. Counted'
      <3>1. Cardinality(Matches') \in Nat /\ Cardinality(Matches') <= Cardinality(Matches)
        BY <1>2, <1>5, FS_Subset, FS_CardinalityType DEF Leaves
      <3> QED BY <1>1, <1>2, <1>5, <3>1 DEF Leaves, Counted
    <2>2. MissedOnlyByOverlap'
      <3>1. Cardinality(left') = Cardinality(left) + 1
        BY <1>2, <1>5, FS_AddElement DEF Leaves
      <3>2. steady' \ seen' \in SUBSET (steady \ seen)
        BY <1>1, <1>5 DEF Leaves
      <3>3. /\ Cardinality(steady' \ seen') \in Nat
            /\ Cardinality(steady' \ seen') <= Cardinality(steady \ seen)
        BY <1>2, <3>2, FS_Subset, FS_CardinalityType
      <3> QED BY <1>1, <1>2, <1>5, <3>1, <3>3 DEF Leaves, MissedOnlyByOverlap
    <2> QED BY <1>1, <2>1, <2>2
  <1> QED BY <1>3, <1>4, <1>5 DEF RowStep

LEMMA RowAction ==
    ASSUME IInv, NEW n \in Id, Commit(n) \/ RollBack(n) \/ Settle(n)
    PROVE  IInv'
  <1>1. PICK s : Changes(n, s) /\ Becomes(n, s)
    BY DEF Commit, RollBack, Settle, Becomes, Changes, Status
  <1>2. TypeOK' /\ Unbegun' /\ Walked' /\ RowStep(n)
    BY <1>1, RowsWalked DEF IInv, RowStep, Changes
  <1> QED BY <1>2, PushedByRow, PulledByRow, CountsByRow DEF IInv

\* A payment begins: its row is not there for any query yet.
LEMMA BeginStep ==
    ASSUME IInv, Begin
    PROVE  IInv'
  <1> DEFINE n == begun + 1
  <1>1. n \in Id /\ row[n] = "none" /\ begun \in Nat
    BY Finite DEF Begin, Id, IInv, TypeOK, Unbegun
  <1>2. /\ row'[n] = "uncommitted" /\ \A m \in Id \ {n} : row'[m] = row[m]
        /\ row' \in [Id -> Status \cup {"none", "uncommitted"}]
    BY <1>1 DEF Begin, IInv, TypeOK
  <1>3. /\ seen \cup entered \cup left \subseteq Id
        /\ UNCHANGED <<filter, page, total, step, onscreen, seen, repeats, skipped>>
        /\ UNCHANGED <<steady, entered, left, slipped>>
    BY DEF Begin, reader, walk, IInv, TypeOK
  <1>4. Matches' = Matches
    <2>1. \A m \in Id : row[m] # row'[m] => row[m] \notin Status /\ row'[m] \notin Status
      BY <1>1, <1>2 DEF Status
    <2> QED BY <1>3, <2>1 DEF Matches, Matching
  <1>5. TypeOK'
    <2>1. begun' \in 0 .. MaxRows
      BY Finite DEF Begin, IInv, TypeOK
    <2> QED BY <1>2, <1>3, <2>1 DEF IInv, TypeOK
  <1>6. Unbegun'
    <2>1. SUFFICES ASSUME NEW m \in Id, m > begun'
                   PROVE  row'[m] = "none"
      BY DEF Unbegun
    <2>2. begun' = n /\ m \in Nat
      BY <2>1, Finite DEF Begin
    <2>3. m # n /\ m > begun
      BY <1>1, <2>1, <2>2
    <2> QED BY <1>2, <2>3 DEF IInv, Unbegun
  <1>7. Walked'
    <2>1. n \notin seen \cup entered \cup left
      BY <1>1 DEF IInv, Walked, Matches, Matching, Status
    <2>2. \A m \in seen \cup entered \cup left :
             m \in Matches \/ row'[m] \in {"COMPLETED", "FAILED"}
      BY <1>2, <1>3, <2>1 DEF IInv, Walked
    <2> QED BY <1>3, <1>4, <2>2 DEF IInv, Walked
  <1>8. RowStep(n)
    BY <1>3, <1>4 DEF RowStep, Remains, reader
  <1> HIDE DEF n
  <1> QED BY <1>1, <1>5, <1>6, <1>7, <1>8, PushedByRow, PulledByRow, CountsByRow DEF IInv

-----------------------------------------------------------------------------
(* The reader's steps.                                                     *)

LEMMA Quotient ==
    ASSUME NEW a \in Nat, NEW p \in Nat \ {0}
    PROVE  a \div p \in Nat /\ p * (a \div p) <= a /\ a < p * (a \div p) + p
  OBVIOUS

LEMMA ProductMonotone ==
    ASSUME NEW a \in Int, NEW b \in Int, NEW p \in Nat, a <= b
    PROVE  p * a <= p * b /\ p * (a + 1) = p * a + p /\ p * a \in Int /\ p * b \in Int
  OBVIOUS

\* Pages there are for a rows; has_next is about these.
LEMMA Pages ==
    ASSUME NEW a \in Nat
    PROVE  LET pages == (a + PageSize - 1) \div PageSize
           IN /\ pages \in Nat /\ a <= PageSize * pages
              /\ \A b \in Nat : b <= a => (b + PageSize - 1) \div PageSize <= pages
  <1> DEFINE P == PageSize
             q == (a + P - 1) \div P
  <1>1. P \in Nat \ {0} /\ a + P - 1 \in Nat
    BY Finite
  <1>2. q \in Nat /\ P * q <= a + P - 1 /\ a + P - 1 < P * q + P
    BY <1>1, Quotient
  <1>3. P * q \in Nat
    BY <1>1, <1>2
  <1>4. ASSUME NEW b \in Nat, b <= a
        PROVE  (b + P - 1) \div P <= q
    <2> DEFINE r == (b + P - 1) \div P
    <2>1. b + P - 1 \in Nat
      BY <1>1
    <2>2. r \in Nat /\ P * r <= b + P - 1
      BY <1>1, <2>1, Quotient
    <2> HIDE DEF r, q
    <2>3. SUFFICES ASSUME q + 1 <= r
                   PROVE  FALSE
      BY <1>2, <2>2 DEF r, q
    <2>4. P * (q + 1) <= P * r /\ P * (q + 1) = P * q + P /\ P * r \in Int
      <3>1. P * (q + 1) <= P * r /\ P * r \in Int
        BY <1>1, <1>2, <2>2, <2>3, ProductMonotone
      <3>2. P * (q + 1) = P * q + P
        BY <1>1, <1>2
      <3> QED BY <3>1, <3>2
    <2> HIDE DEF P
    <2> QED BY <1>1, <1>2, <1>3, <1>4, <2>2, <2>4
  <1>5. a <= P * q
    <2> HIDE DEF q, P
    <2> QED BY <1>1, <1>2, <1>3
  <1> QED BY <1>2, <1>4, <1>5

LEMMA CountStep ==
    ASSUME IInv, CountRows
    PROVE  IInv'
  <1>1. Matches' = Matches /\ Past' = Past /\ Passed' = Passed
    BY DEF CountRows, table, Matches, Past, Passed
  <1>2. /\ Matches \in SUBSET Id
        /\ total' = Cardinality(Matches) /\ total' \in 0 .. MaxRows
    <2>1. total' = Cardinality(Matches) /\ Matches \in SUBSET Id
      BY MatchingIds DEF CountRows, Matches
    <2> QED BY <2>1, Finite
  <1>3. TypeOK' /\ Unbegun' /\ Walked'
    BY <1>1, <1>2 DEF CountRows, table, IInv, TypeOK, Unbegun, Walked
  <1>4. Pushed' /\ Pulled'
    BY <1>1 DEF CountRows, IInv, Pushed, Pulled
  <1>5. Counted'
    <2>1. Cardinality(slipped') = 0
      BY FS_EmptySet DEF CountRows
    <2> QED BY <1>1, <1>2, <2>1, Finite DEF Counted
  <1>6. Shown' /\ MissedOnlyByOverlap'
    BY DEF CountRows, Shown, MissedOnlyByOverlap
  <1> QED BY <1>3, <1>4, <1>5, <1>6 DEF IInv

\* has_next of a page that was shown never leads past the pages there can be.
LEMMA NextExists ==
    ASSUME TypeOK, Shown, NextPage, step = "shown"
    PROVE  page' \in 1 .. (MaxRows + PageSize - 1) \div PageSize
  <1> DEFINE pages == (onscreen.total + PageSize - 1) \div PageSize
             most == (MaxRows + PageSize - 1) \div PageSize
  <1>1. page \in Nat \ {0} /\ onscreen.page = page /\ onscreen.total \in 0 .. MaxRows
    <2>1. onscreen = [page |-> page, total |-> total]
      BY DEF Shown
    <2> QED BY <2>1, PastType DEF TypeOK
  <1>2. onscreen.total \in Nat /\ MaxRows \in Nat /\ onscreen.total <= MaxRows
    BY <1>1, Finite
  <1>3. pages \in Nat /\ most \in Nat /\ pages <= most
    BY <1>2, Pages
  <1>4. page < pages /\ page' = page + 1
    BY <1>1 DEF NextPage, HasNext
  <1> HIDE DEF pages, most
  <1>5. page' \in 1 .. most
    BY <1>1, <1>3, <1>4
  <1> QED BY <1>5 DEF most

\* A page given up before it was shown: its rows count as passed.
LEMMA PassedOver ==
    ASSUME IInv, NextPage, step # "shown"
    PROVE  Pushed' /\ Pulled'
  <1> DEFINE a == PageSize * (page - 1)
             b == PageSize * page
             T == seen \cap Matches
             U == steady \ seen
             B == Beyond(T, Matches, a)
             C == Beyond(T, Matches, b)
             V == Within(U, Matches, a)
             W == Within(U, Matches, b)
             G == Between(Matches, a, b)
  <1>1. /\ a \in Nat /\ b \in Nat /\ b = a + PageSize /\ a <= b
        /\ Past = a /\ Past' = b
    <2>1. TypeOK /\ page \in Nat \ {0} /\ page' = page + 1 /\ step' = "count"
      BY PastType DEF IInv, NextPage
    <2>2. Past = a
      BY DEF Past
    <2>3. page + 1 - 1 = page
      BY <2>1
    <2>4. Past' = b
      BY <2>1, <2>3 DEF Past
    <2>5. a \in Nat /\ b = a + PageSize
      BY <2>1, PagePlaces
    <2> HIDE DEF a, b
    <2> QED BY <2>2, <2>4, <2>5, Finite
  <1>2. /\ Matches' = Matches /\ seen' \cap Matches' = T /\ steady' \ seen' = U
        /\ UNCHANGED <<repeats, entered, left>>
    BY DEF NextPage, table, walk, Matches
  <1>3. /\ Passed \in Nat /\ Passed' = Passed + PageSize /\ repeats \in Nat
        /\ Cardinality(left) \in Nat /\ Cardinality(entered) \in Nat
    <2>1. TypeOK /\ skipped \in Nat /\ Passed \in Nat /\ skipped' = skipped + 1
      BY PastType DEF IInv, NextPage
    <2>2. PageSize * (skipped + 1) = PageSize * skipped + PageSize
      BY <2>1, Finite, ProductMonotone
    <2> QED BY <2>1, <2>2, Finite DEF TypeOK, Passed
  <1>4. /\ \A n \in Matches : Place(Matches, n) \in Nat
        /\ Matches \subseteq Id /\ IsFiniteSet(Matches) /\ Matches \subseteq Nat
    BY MatchingIds
  <1> HIDE DEF a, b
  <1>5. /\ C \in SUBSET B /\ B \in SUBSET Id /\ V \in SUBSET Id
        /\ W \in SUBSET (V \cup G) /\ G \in SUBSET Id
    <2>1. U \in SUBSET Matches
      BY DEF IInv, Walked
    <2> HIDE DEF U
    <2>2. \A n \in Matches :
              /\ Place(Matches, n) > b => Place(Matches, n) > a
              /\ Place(Matches, n) <= b => Place(Matches, n) <= a \/ Place(Matches, n) > a
      BY <1>1, <1>4
    <2>3. C \in SUBSET B /\ B \in SUBSET Id
      BY <1>4, <2>2 DEF Beyond
    <2>4. V \in SUBSET Id /\ G \in SUBSET Id
      BY <1>4, <2>1 DEF Within, Between
    <2>5. W \in SUBSET (V \cup G)
      BY <2>1, <2>2 DEF Within, Between
    <2> QED BY <2>3, <2>4, <2>5
  <1>6. Cardinality(G) \in Nat /\ Cardinality(G) <= PageSize
    <2>1. Cardinality(G) \in Nat /\ Cardinality(G) <= b - a
      BY <1>1, <1>4, OnePerPlace
    <2> HIDE DEF G
    <2> QED BY <1>1, <2>1, Finite
  <1>7. /\ repeats + Cardinality(B) <= Cardinality(entered)
        /\ Cardinality(V) <= Cardinality(left) + Passed
    BY <1>1 DEF IInv, Pushed, Pulled
  <1>8. /\ Beyond(seen' \cap Matches', Matches', Past') = C
        /\ Within(steady' \ seen', Matches', Past') = W
    BY <1>1, <1>2
  <1> HIDE DEF T, U, B, C, V, W, G
  <1>9. Pushed'
    <2>1. IsFiniteSet(B) /\ Cardinality(B) \in Nat
      BY <1>5, Finite
    <2>2. Cardinality(C) \in Nat /\ Cardinality(C) <= Cardinality(B)
      BY <1>5, <2>1, FS_Subset, FS_CardinalityType
    <2>3. repeats' + Cardinality(C) <= Cardinality(entered')
      BY <1>2, <1>3, <1>7, <2>1, <2>2
    <2> QED BY <1>8, <2>3 DEF Pushed
  <1>10. Pulled'
    <2>1. /\ IsFiniteSet(V) /\ IsFiniteSet(G) /\ IsFiniteSet(V \cup G)
          /\ Cardinality(V) \in Nat /\ Cardinality(V \cap G) \in Nat
          /\ Cardinality(V \cup G) \in Nat
      <3>1. V \cup G \in SUBSET Id /\ V \cap G \in SUBSET Id
        BY <1>5
      <3> QED BY <1>5, <3>1, Finite
    <2>2. Cardinality(V \cup G) = Cardinality(V) + Cardinality(G) - Cardinality(V \cap G)
      BY <2>1, FS_Union
    <2>3. Cardinality(W) \in Nat /\ Cardinality(W) <= Cardinality(V \cup G)
      BY <1>5, <2>1, FS_Subset, FS_CardinalityType
    <2>4. Cardinality(W) <= Cardinality(left) + (Passed + PageSize)
      BY <1>3, <1>6, <1>7, <2>1, <2>2, <2>3, Finite
    <2> QED BY <1>2, <1>3, <1>8, <2>4 DEF Pulled
  <1> QED BY <1>9, <1>10

LEMMA NextPageStep ==
    ASSUME IInv, NextPage
    PROVE  IInv'
  <1>1. page \in Nat \ {0} /\ skipped \in Nat /\ TypeOK
    BY PastType DEF IInv
  <1>2. Matches' = Matches
    BY DEF NextPage, table, Matches
  <1>3. /\ page' \in Nat \ {0} /\ skipped' \in 0 .. MaxSkips
        /\ page' - skipped' \in {1} \cup 1 .. (MaxRows + PageSize - 1) \div PageSize
    <2> DEFINE most == (MaxRows + PageSize - 1) \div PageSize
    <2>1. page - skipped \in {1} \cup 1 .. most /\ page' = page + 1 /\ most \in Nat
      <3>1. most \in Nat
        BY Finite, Pages
      <3> QED BY <1>1, <3>1 DEF TypeOK, NextPage
    <2>2. CASE step = "shown"
      <3>1. page' \in 1 .. most /\ skipped' = skipped
        BY <2>2, NextExists DEF IInv, NextPage
      <3> HIDE DEF most
      <3>2. page' - skipped' \in 1 .. most
        BY <1>1, <2>1, <3>1
      <3> QED BY <1>1, <2>1, <3>1, <3>2 DEF TypeOK, most
    <2>3. CASE step # "shown"
      <3>1. skipped' = skipped + 1 /\ skipped' \in 0 .. MaxSkips
        BY <1>1, <2>3, Finite DEF NextPage
      <3> HIDE DEF most
      <3>2. page' - skipped' = page - skipped
        BY <1>1, <2>1, <3>1
      <3> QED BY <1>1, <2>1, <3>1, <3>2 DEF most
    <2> QED BY <2>2, <2>3
  <1>4. TypeOK' /\ Unbegun' /\ Walked'
    <2>1. TypeOK'
      BY <1>3 DEF NextPage, table, walk, IInv, TypeOK
    <2> QED BY <1>2, <2>1 DEF NextPage, table, walk, IInv, Unbegun, Walked
  <1>5. Pushed' /\ Pulled'
    <2>1. CASE step = "shown"
      <3>1. Past' = Past
        <4>1. Past = PageSize * page
          BY <2>1 DEF Past
        <4>2. page' = page + 1 /\ step' = "count"
          BY DEF NextPage
        <4>3. page' - 1 = page
          BY <1>1, <4>2
        <4>4. Past' = PageSize * page
          BY <4>2, <4>3 DEF Past
        <4> QED BY <4>1, <4>4
      <3>2. Passed' = Passed
        BY <2>1 DEF NextPage, Passed
      <3> QED BY <1>2, <3>1, <3>2 DEF NextPage, walk, IInv, Pushed, Pulled
    <2>2. CASE step # "shown"
      BY <2>2, PassedOver
    <2> QED BY <2>1, <2>2
  <1>6. Counted' /\ Shown' /\ MissedOnlyByOverlap'
    BY DEF NextPage, Counted, Shown, MissedOnlyByOverlap
  <1> QED BY <1>4, <1>5, <1>6 DEF IInv

\* Of no rows there are none beyond a place or within it.
LEMMA NoneYet ==
    /\ \A S, j : Cardinality(Beyond({}, S, j)) = 0
    /\ \A S, j : Cardinality(Within({}, S, j)) = 0
    /\ Cardinality({}) = 0
  <1>1. \A S, j : Beyond({}, S, j) = {} /\ Within({}, S, j) = {}
    BY DEF Beyond, Within
  <1> QED BY <1>1, FS_EmptySet

LEMMA StartStep ==
    ASSUME IInv, NEW f \in {"any"} \cup Status, StartWalk(f)
    PROVE  IInv'
  <1>1. Matches' = Matching(row, f) /\ Matches' \subseteq Id
    BY MatchingIds DEF StartWalk, table, Matches
  <1>2. Past' = 0 /\ Passed' = 0
    BY Finite DEF StartWalk, Past, Passed
  <1>3. TypeOK'
    <2>1. 0 \in 0 .. MaxRows /\ 0 \in 0 .. MaxSkips /\ 1 - 0 = 1
      BY Finite
    <2> QED BY <1>1, <2>1 DEF StartWalk, table, IInv, TypeOK, Matches
  <1>4. Unbegun'
    BY DEF StartWalk, table, IInv, Unbegun
  <1>5. steady' = Matches' /\ seen' = {} /\ entered' = {} /\ left' = {} /\ slipped' = {} /\ repeats' = 0
    BY <1>1 DEF StartWalk
  <1>6. Walked'
    BY <1>5 DEF Walked
  <1>7. Pushed'
    <2>1. seen' \cap Matches' = {}
      BY <1>5
    <2>2. Cardinality(Beyond({}, Matches', 0)) = 0 /\ Cardinality({}) = 0
      BY NoneYet
    <2> QED BY <1>2, <1>5, <2>1, <2>2 DEF Pushed
  <1>8. Pulled'
    <2>1. steady' \ seen' = Matches'
      BY <1>5
    <2>2. Cardinality(Within(Matches', Matches', 0)) = 0 /\ Cardinality({}) = 0
      <3>1. /\ IsFiniteSet(Matches') /\ Matches' \subseteq Nat
        BY <1>1, Finite
      <3>2. \A n \in Matches' : Place(Matches', n) \in Nat /\ 1 <= Place(Matches', n)
        BY <3>1, PlaceType
      <3>3. \A n \in Matches' : ~(Place(Matches', n) <= 0)
        BY <3>2
      <3>4. Within(Matches', Matches', 0) = {}
        BY <3>3 DEF Within
      <3> QED BY <3>4, FS_EmptySet
    <2> QED BY <1>2, <1>5, <2>1, <2>2 DEF Pulled
  <1>9. Counted' /\ Shown' /\ MissedOnlyByOverlap'
    BY DEF StartWalk, Counted, Shown, MissedOnlyByOverlap
  <1> QED BY <1>3, <1>4, <1>6, <1>7, <1>8, <1>9 DEF IInv

\* What is read again was beyond the pages read before, and is no longer.
LEMMA FetchPushed ==
    ASSUME TypeOK, Pushed, FetchPage
    PROVE  Pushed'
  <1> DEFINE a == PageSize * (page - 1)
             b == PageSize * page
             Pg == PageOf(page)
             B == Beyond(seen \cap Matches, Matches, a)
             C == Beyond(seen \cap Matches, Matches, b)
  <1>1. /\ a \in Nat /\ b \in Nat /\ a <= b /\ Past = a /\ Past' = b
        /\ Pg = {n \in Matches : Place(Matches, n) > a /\ Place(Matches, n) <= b}
    <2>1. page \in Nat \ {0} /\ page' = page /\ step = "fetch" /\ step' = "shown"
      BY PastType DEF FetchPage
    <2>2. Past = a /\ Past' = b
      BY <2>1 DEF Past
    <2>3. a \in Nat /\ b = a + PageSize
      BY PagePlaces
    <2>4. Pg = {n \in Matches : Place(Matches, n) > a /\ Place(Matches, n) <= b}
      BY PagePlaces
    <2> HIDE DEF a, b, Pg
    <2> QED BY <2>2, <2>3, <2>4, Finite
  <1>2. Matches' = Matches /\ seen' = seen \cup Pg /\ entered' = entered
    BY DEF FetchPage, table, walk, Matches
  <1>3. repeats' = repeats + Cardinality(Pg \cap seen) /\ repeats \in Nat
    BY DEF FetchPage, TypeOK
  <1>4. \A n \in Matches : Place(Matches, n) \in Nat
    BY MatchingIds
  <1> HIDE DEF a, b, Pg
  <1>5. Beyond(seen' \cap Matches', Matches', Past') = C
    BY <1>1, <1>2, <1>4 DEF Beyond
  <1>6. B = C \cup (Pg \cap seen) /\ C \cap (Pg \cap seen) = {}
    BY <1>1, <1>4 DEF Beyond
  <1>7. B \in SUBSET Id /\ C \in SUBSET Id /\ Pg \cap seen \in SUBSET Id
    BY <1>1, MatchingIds DEF Beyond
  <1> HIDE DEF B, C
  <1>8. Cardinality(C) \in Nat /\ Cardinality(Pg \cap seen) \in Nat
    BY <1>7, Finite
  <1>9. Cardinality(B) = Cardinality(C) + Cardinality(Pg \cap seen)
    <2>1. IsFiniteSet(C) /\ IsFiniteSet(Pg \cap seen)
      BY <1>7, Finite
    <2>2. /\ Cardinality(C \cup (Pg \cap seen))
               = Cardinality(C) + Cardinality(Pg \cap seen) - Cardinality(C \cap (Pg \cap seen))
      BY <2>1, FS_Union
    <2>3. Cardinality(C \cap (Pg \cap seen)) = 0
      BY <1>6, FS_EmptySet
    <2> QED BY <1>6, <1>8, <2>2, <2>3
  <1>10. repeats + Cardinality(B) <= Cardinality(entered)
    BY <1>1 DEF Pushed, B
  <1>11. repeats' + Cardinality(C) <= Cardinality(entered')
    BY <1>2, <1>3, <1>8, <1>9, <1>10
  <1> QED BY <1>5, <1>11 DEF Pushed

\* The page read, what is still unread within the pages was so before.
LEMMA FetchPulled ==
    ASSUME TypeOK, Walked, Pulled, FetchPage
    PROVE  Pulled'
  <1> DEFINE a == PageSize * (page - 1)
             b == PageSize * page
             Pg == PageOf(page)
             B == Within(steady \ seen, Matches, a)
             C == Within(steady \ seen', Matches, b)
  <1>1. /\ a \in Nat /\ b \in Nat /\ Past = a /\ Past' = b
        /\ Pg = {n \in Matches : Place(Matches, n) > a /\ Place(Matches, n) <= b}
    <2>1. page \in Nat \ {0} /\ page' = page /\ step = "fetch" /\ step' = "shown"
      BY PastType DEF FetchPage
    <2>2. Past = a /\ Past' = b
      BY <2>1 DEF Past
    <2>3. a \in Nat /\ b = a + PageSize
      BY PagePlaces
    <2>4. Pg = {n \in Matches : Place(Matches, n) > a /\ Place(Matches, n) <= b}
      BY PagePlaces
    <2> HIDE DEF a, b, Pg
    <2> QED BY <2>2, <2>3, <2>4, Finite
  <1>2. /\ Matches' = Matches /\ seen' = seen \cup Pg /\ left' = left /\ steady' = steady
        /\ Passed \in Nat /\ Passed' = Passed
    BY PastType DEF FetchPage, table, walk, Matches, Passed
  <1>3. \A n \in Matches : Place(Matches, n) \in Nat
    BY MatchingIds
  <1> HIDE DEF a, b, Pg
  <1>4. C \in SUBSET B
    BY <1>1, <1>2, <1>3 DEF Within, Walked
  <1>5. B \in SUBSET Id /\ left \in SUBSET Id
    BY DEF Within, TypeOK
  <1>6. Within(steady' \ seen', Matches', Past') = C
    BY <1>1, <1>2
  <1> HIDE DEF B, C
  <1>7. IsFiniteSet(B) /\ Cardinality(B) \in Nat /\ Cardinality(left) \in Nat
    BY <1>5, Finite
  <1>8. Cardinality(C) \in Nat /\ Cardinality(C) <= Cardinality(B)
    BY <1>4, <1>7, FS_Subset, FS_CardinalityType
  <1>9. Cardinality(B) <= Cardinality(left) + Passed
    BY <1>1 DEF Pulled, B
  <1> QED BY <1>2, <1>6, <1>7, <1>8, <1>9 DEF Pulled

\* On the last page, what lies beyond the pages read is what COUNT missed.
LEMMA FetchMissed ==
    ASSUME TypeOK, Walked, Counted, Pulled', FetchPage
    PROVE  MissedOnlyByOverlap'
  <1> DEFINE b == PageSize * page
             D == Beyond(Matches, Matches, b)
             W == Within(steady \ seen', Matches, b)
             pages == (total + PageSize - 1) \div PageSize
  <1>1. /\ page \in Nat \ {0} /\ total \in Nat /\ step = "fetch"
        /\ Past' = b /\ b \in Nat
        /\ HasNext' = (page < pages)
    <2>1. page \in Nat \ {0} /\ page' = page /\ step = "fetch" /\ step' = "shown"
      BY PastType DEF FetchPage
    <2>2. Past' = b /\ HasNext' = (page < pages)
      BY <2>1 DEF Past, FetchPage, HasNext
    <2>3. b \in Nat
      BY <2>1, Finite
    <2>4. total \in Nat
      BY Finite DEF TypeOK
    <2> QED BY <2>1, <2>2, <2>3, <2>4
  <1>2. /\ UNCHANGED <<left, slipped, steady, total, page, skipped>> /\ Matches' = Matches
        /\ Passed \in Nat /\ Passed' = Passed
    BY PastType DEF FetchPage, table, walk, Matches, Passed
  <1>3. SUFFICES ASSUME ~(page < pages)
                 PROVE  Cardinality(steady \ seen')
                            <= Cardinality(left) + Cardinality(slipped) + Passed
    BY <1>1, <1>2 DEF MissedOnlyByOverlap, Passed
  <1>4. total <= b
    <2>1. pages \in Nat /\ total <= PageSize * pages
      BY <1>1, Pages
    <2>2. pages <= page
      <3>1. ~(page < pages)
        BY <1>3
      <3> HIDE DEF pages
      <3> QED BY <1>1, <2>1, <3>1
    <2>3. PageSize * pages <= PageSize * page /\ PageSize * pages \in Int
      <3> HIDE DEF pages
      <3> QED BY <1>1, <2>1, <2>2, Finite, ProductMonotone
    <2> HIDE DEF pages
    <2> QED BY <1>1, <2>1, <2>3
  <1> HIDE DEF b
  <1>5. steady \ seen' \subseteq W \cup D /\ W \in SUBSET Id /\ D \in SUBSET Id
    <2>1. \A n \in Matches : Place(Matches, n) \in Nat
      BY MatchingIds
    <2>2. Matches \subseteq Id
      BY MatchingIds
    <2> QED BY <1>1, <2>1, <2>2 DEF Within, Beyond, Walked, TypeOK
  <1>6. Cardinality(W) <= Cardinality(left) + Passed
    BY <1>1, <1>2 DEF Pulled
  <1>7. Cardinality(D) <= Cardinality(slipped)
    <2>1. /\ Cardinality(Matches) \in Nat /\ Cardinality(slipped) \in Nat
      BY MatchingIds, Finite DEF TypeOK
    <2>2. Cardinality(Matches) <= total + Cardinality(slipped)
      BY <1>1 DEF Counted
    <2>3. Cardinality(D) <= IF b > Cardinality(Matches) THEN 0 ELSE Cardinality(Matches) - b
      BY <1>1, MatchingIds, Overflow
    <2>4. Cardinality(D) \in Nat
      BY <1>5, Finite
    <2> HIDE DEF D
    <2> QED BY <1>1, <1>4, <2>1, <2>2, <2>3, <2>4
  <1> HIDE DEF W, D
  <1>8. /\ IsFiniteSet(W \cup D)
        /\ Cardinality(W \cup D) \in Nat /\ Cardinality(W \cup D) <= Cardinality(W) + Cardinality(D)
    <2>1. /\ IsFiniteSet(W) /\ IsFiniteSet(D) /\ Cardinality(W) \in Nat /\ Cardinality(D) \in Nat
          /\ W \cup D \in SUBSET Id /\ W \cap D \in SUBSET Id
      BY <1>5, Finite
    <2>2. /\ Cardinality(W \cup D) = Cardinality(W) + Cardinality(D) - Cardinality(W \cap D)
      BY <2>1, FS_Union
    <2>3. /\ IsFiniteSet(W \cup D) /\ Cardinality(W \cup D) \in Nat /\ Cardinality(W \cap D) \in Nat
      BY <2>1, Finite
    <2> QED BY <2>1, <2>2, <2>3
  <1>9. Cardinality(steady \ seen') \in Nat /\ Cardinality(steady \ seen') <= Cardinality(W \cup D)
    BY <1>5, <1>8, FS_Subset, FS_CardinalityType
  <1>10. /\ Cardinality(left) \in Nat /\ Cardinality(slipped) \in Nat
         /\ Cardinality(W) \in Nat /\ Cardinality(D) \in Nat
    BY <1>5, Finite DEF TypeOK
  <1> QED BY <1>2, <1>6, <1>7, <1>8, <1>9, <1>10

LEMMA FetchStep ==
    ASSUME IInv, FetchPage
    PROVE  IInv'
  <1> DEFINE Pg == PageOf(page)
  <1>1. Matches' = Matches /\ Pg \subseteq Matches /\ Matches \subseteq Id
    BY MatchingIds DEF FetchPage, table, Matches, PageOf
  <1>2. TypeOK'
    <2>1. Pg \cap seen \in SUBSET Id
      BY DEF IInv, TypeOK
    <2>2. Cardinality(Pg \cap seen) \in Nat
      BY <2>1, Finite
    <2>3. repeats' \in Nat /\ seen' \subseteq Id
      BY <1>1, <2>2 DEF FetchPage, IInv, TypeOK
    <2>4. onscreen' \in [page : Nat, total : 0 .. MaxRows]
      BY DEF FetchPage, IInv, TypeOK
    <2> QED BY <2>3, <2>4 DEF FetchPage, table, walk, IInv, TypeOK
  <1>3. Unbegun' /\ Walked'
    BY <1>1 DEF FetchPage, table, walk, IInv, Unbegun, Walked
  <1>4. Pushed' /\ Pulled'
    BY FetchPushed, FetchPulled DEF IInv
  <1>5. Counted' /\ Shown'
    BY DEF FetchPage, Counted, Shown
  <1>6. MissedOnlyByOverlap'
    BY <1>4, FetchMissed DEF IInv
  <1> QED BY <1>2, <1>3, <1>4, <1>5, <1>6 DEF IInv

LEMMA Starts == Init => IInv
  <1> SUFFICES ASSUME Init PROVE IInv
    OBVIOUS
  <1>1. Matches = {}
    BY DEF Init, Matches, Matching, Status
  <1>2. TypeOK /\ Unbegun
    <2>1. 0 \in 0 .. MaxRows /\ 0 \in 0 .. MaxSkips /\ 1 - 0 = 1
      BY Finite
    <2> QED BY <2>1 DEF Init, TypeOK, Unbegun
  <1>3. Walked
    BY <1>1 DEF Init, Walked
  <1>4. Pushed /\ Pulled
    <2>1. seen \cap Matches = {} /\ steady \ seen = {} /\ repeats = 0 /\ entered = {} /\ left = {}
      BY DEF Init
    <2>5. Passed = 0
      BY Finite DEF Init, Passed
    <2>2. Cardinality(Beyond({}, Matches, Past)) = 0 /\ Cardinality({}) = 0
      BY NoneYet
    <2>3. Cardinality(Within({}, Matches, Past)) = 0
      BY NoneYet
    <2>4. /\ Cardinality(Beyond(seen \cap Matches, Matches, Past)) = 0
          /\ Cardinality(Within(steady \ seen, Matches, Past)) = 0
          /\ Cardinality(entered) = 0 /\ Cardinality(left) = 0
      BY <2>1, <2>2, <2>3
    <2> QED BY <2>1, <2>4, <2>5 DEF Pushed, Pulled
  <1>5. Counted /\ Shown /\ MissedOnlyByOverlap
    BY DEF Init, Counted, Shown, MissedOnlyByOverlap
  <1> QED BY <1>2, <1>3, <1>4, <1>5 DEF IInv

LEMMA Steps == IInv /\ [Next]_vars => IInv'
  <1> SUFFICES ASSUME IInv, [Next]_vars PROVE IInv'
    OBVIOUS
  <1>1. CASE Begin
    BY <1>1, BeginStep
  <1>2. CASE \E n \in Id : Commit(n) \/ RollBack(n) \/ Settle(n)
    BY <1>2, RowAction
  <1>3. CASE \E f \in {"any"} \cup Status : StartWalk(f)
    BY <1>3, StartStep
  <1>4. CASE CountRows
    BY <1>4, CountStep
  <1>5. CASE FetchPage
    BY <1>5, FetchStep
  <1>6. CASE NextPage
    BY <1>6, NextPageStep
  <1>7. CASE UNCHANGED vars
    <2>1. UNCHANGED <<row, begun, filter, page, total, step, onscreen, seen, repeats,
                      skipped, steady, entered, left, slipped>>
      BY <1>7 DEF vars, table, reader, walk
    <2>2. Matches' = Matches /\ Past' = Past /\ Passed' = Passed
      BY <2>1 DEF Matches, Past, Passed
    <2>3. /\ TypeOK' /\ Unbegun' /\ Walked' /\ Counted' /\ Shown'
      BY <2>1, <2>2 DEF IInv, TypeOK, Unbegun, Walked, Counted, Shown
    <2>4. Pushed' /\ Pulled'
      BY <2>1, <2>2 DEF IInv, Pushed, Pulled
    <2>5. MissedOnlyByOverlap'
      BY <2>1 DEF IInv, MissedOnlyByOverlap, HasNext
    <2> QED BY <2>3, <2>4, <2>5 DEF IInv
  <1> QED BY <1>1, <1>2, <1>3, <1>4, <1>5, <1>6, <1>7 DEF Next

-----------------------------------------------------------------------------
(* Results.                                                                *)

LEMMA Inductive == Spec => []IInv
  BY Starts, Steps, PTL DEF Spec

\* Types; and following has_next leads to a page the table could not have only
\* by clicks on a page that is still to be replaced, one page too far for each,
\* though each page's total is of another moment.
THEOREM TypesHold == Spec => []TypeOK
  <1>1. IInv => TypeOK
    BY DEF IInv
  <1> QED BY <1>1, Inductive, PTL

\* Followed to the last page, the history leaves out at most one of the rows
\* that matched throughout for each row that left the filter meanwhile, one for
\* each that came between the last COUNT and its SELECT, and a page for each
\* page clicked past before it was shown: so none when nothing settles, nothing
\* is paid and the reader waits for every page.
THEOREM MissesBounded == Spec => []MissedOnlyByOverlap
  <1>1. IInv => MissedOnlyByOverlap
    BY DEF IInv
  <1> QED BY <1>1, Inductive, PTL

\* The history shows a row again at most once for each row that came to match
\* during the walk.
THEOREM RepeatsBounded == Spec => []RepeatedOnlyByInsert
  <1>1. IInv => RepeatedOnlyByInsert
    <2> SUFFICES ASSUME IInv PROVE RepeatedOnlyByInsert
      OBVIOUS
    <2> DEFINE B == Beyond(seen \cap Matches, Matches, Past)
    <2>1. B \in SUBSET Id
      BY MatchingIds DEF Beyond
    <2>2. repeats + Cardinality(B) <= Cardinality(entered)
      BY DEF IInv, Pushed
    <2> HIDE DEF B
    <2>3. entered \in SUBSET Id /\ repeats \in Nat
      BY DEF IInv, TypeOK
    <2>4. Cardinality(B) \in Nat /\ Cardinality(entered) \in Nat
      BY <2>1, <2>3, Finite
    <2> QED BY <2>2, <2>3, <2>4 DEF RepeatedOnlyByInsert
  <1> QED BY <1>1, Inductive, PTL

=============================================================================
