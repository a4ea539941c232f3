--------------------------- MODULE RankingProofs ---------------------------
(***************************************************************************)
(* What Ranking returns for a finite set and a total order on it: every    *)
(* element once, each after those that come before it.                     *)
(***************************************************************************)
EXTENDS Ranking, Functions, FiniteSetTheorems, TLAPS

IsTotalOrder(S, R) ==
    /\ \A a \in S : <<a, a>> \in R
    /\ \A a, b \in S : <<a, b>> \in R \/ <<b, a>> \in R
    /\ \A a, b \in S : <<a, b>> \in R /\ <<b, a>> \in R => a = b
    /\ \A a, b, c \in S : <<a, b>> \in R /\ <<b, c>> \in R => <<a, c>> \in R

\* An element that comes later has a place further back.
LEMMA PlaceIncreases ==
    ASSUME NEW S, IsFiniteSet(S), NEW R, IsTotalOrder(S, R), NEW a \in S, NEW b \in S,
           a # b, <<a, b>> \in R
    PROVE  Place(S, R, a) < Place(S, R, b)
<1> DEFINE upTo(e) == {d \in S : <<d, e>> \in R}
<1>1. upTo(a) \subseteq upTo(b) /\ b \in upTo(b) /\ b \notin upTo(a)
  BY DEF IsTotalOrder
<1>2. IsFiniteSet(upTo(b)) /\ upTo(a) \in SUBSET upTo(b) /\ upTo(a) # upTo(b)
  BY <1>1, FS_Subset
<1>3. IsFiniteSet(upTo(a))
  BY FS_Subset
<1> HIDE DEF upTo
<1>4. /\ Cardinality(upTo(a)) <= Cardinality(upTo(b))
      /\ Cardinality(upTo(a)) # Cardinality(upTo(b))
  BY <1>2, FS_Subset
<1>5. Cardinality(upTo(a)) \in Nat /\ Cardinality(upTo(b)) \in Nat
  BY <1>2, <1>3, FS_CardinalityType
<1>6. Cardinality(upTo(a)) < Cardinality(upTo(b))
  BY <1>4, <1>5
<1>7. QED
  BY <1>6 DEF Place, upTo

\* A place is a number from 1 to the number of elements.
LEMMA PlaceType ==
    ASSUME NEW S, IsFiniteSet(S), NEW R, IsTotalOrder(S, R), NEW e \in S
    PROVE  Place(S, R, e) \in 1..Cardinality(S)
<1> DEFINE upTo == {d \in S : <<d, e>> \in R}
<1>1. upTo \in SUBSET S /\ e \in upTo
  BY DEF IsTotalOrder
<1>2. IsFiniteSet(upTo) /\ Cardinality(upTo) <= Cardinality(S)
  BY <1>1, FS_Subset
<1>3. Cardinality(upTo) \in Nat /\ Cardinality(S) \in Nat /\ Cardinality(upTo) # 0
  BY <1>1, <1>2, FS_CardinalityType, FS_EmptySet
<1>4. Cardinality(upTo) \in 1..Cardinality(S)
  BY <1>2, <1>3
<1>5. QED
  BY <1>4 DEF Place

\* Every place is taken by exactly one element.
LEMMA PlaceBijective ==
    ASSUME NEW S, IsFiniteSet(S), NEW R, IsTotalOrder(S, R)
    PROVE  [e \in S |-> Place(S, R, e)] \in Bijection(S, 1..Cardinality(S))
<1> DEFINE place == [e \in S |-> Place(S, R, e)]
           N == 1..Cardinality(S)
<1>1. place \in [S -> N]
  BY PlaceType
<1>2. ASSUME NEW a \in S, NEW b \in S, a # b
      PROVE  place[a] # place[b]
  <2>1. <<a, b>> \in R \/ <<b, a>> \in R
    BY DEF IsTotalOrder
  <2>2. Place(S, R, a) < Place(S, R, b) \/ Place(S, R, b) < Place(S, R, a)
    BY <1>2, <2>1, PlaceIncreases
  <2>3. Place(S, R, a) \in Int /\ Place(S, R, b) \in Int
    BY PlaceType
  <2>4. QED
    BY <2>2, <2>3
<1>3. place \in Injection(S, N)
  BY <1>1, <1>2 DEF Injection, IsInjective
<1>4. IsFiniteSet(N) /\ Cardinality(N) = Cardinality(S)
  <2>1. Cardinality(S) \in Nat
    BY FS_CardinalityType
  <2>2. IsFiniteSet(N) /\ Cardinality(N) = IF 1 > Cardinality(S) THEN 0
                                           ELSE Cardinality(S) - 1 + 1
    BY <2>1, FS_Interval
  <2>3. QED
    BY <2>1, <2>2
<1>5. place \in Surjection(S, N)
  BY <1>3, <1>4, FS_Injection
<1>6. QED
  BY <1>3, <1>5 DEF Bijection

\* InOrder lists every element at its place.
LEMMA InOrderLists ==
    ASSUME NEW S, IsFiniteSet(S), NEW R, IsTotalOrder(S, R)
    PROVE  /\ Cardinality(S) \in Nat
           /\ InOrder(S, R) \in [1..Cardinality(S) -> S]
           /\ \A n \in 1..Cardinality(S) : Place(S, R, InOrder(S, R)[n]) = n
           /\ \A e \in S : InOrder(S, R)[Place(S, R, e)] = e
<1> DEFINE place == [e \in S |-> Place(S, R, e)]
           N == 1..Cardinality(S)
<1>1. place \in Injection(S, N) /\ place \in Surjection(S, N)
  BY PlaceBijective DEF Bijection
<1>2. ASSUME NEW n \in N
      PROVE  InOrder(S, R)[n] \in S /\ Place(S, R, InOrder(S, R)[n]) = n
  <2>1. \E e \in S : place[e] = n
    BY <1>1 DEF Surjection
  <2>2. \E e \in S : Place(S, R, e) = n
    BY <2>1
  <2>3. InOrder(S, R)[n] = CHOOSE e \in S : Place(S, R, e) = n
    BY DEF InOrder
  <2>4. QED
    BY <2>2, <2>3
<1>3. ASSUME NEW e \in S
      PROVE  InOrder(S, R)[Place(S, R, e)] = e
  <2>1. Place(S, R, e) \in N
    BY PlaceType
  <2>2. LET d == InOrder(S, R)[Place(S, R, e)]
        IN  d \in S /\ place[d] = place[e]
    BY <1>2, <2>1
  <2>3. QED
    BY <1>1, <2>2 DEF Injection, IsInjective
<1>4. Cardinality(S) \in Nat
  BY FS_CardinalityType
<1>5. InOrder(S, R) \in [N -> S]
  BY <1>2 DEF InOrder
<1>6. QED
  BY <1>2, <1>3, <1>4, <1>5

\* What comes earlier in the list comes before in the order.
LEMMA InOrderMonotone ==
    ASSUME NEW S, IsFiniteSet(S), NEW R, IsTotalOrder(S, R),
           NEW m \in 1..Cardinality(S), NEW n \in 1..Cardinality(S), m <= n
    PROVE  <<InOrder(S, R)[m], InOrder(S, R)[n]>> \in R
<1> DEFINE a == InOrder(S, R)[m]  b == InOrder(S, R)[n]
<1>1. a \in S /\ b \in S /\ Place(S, R, a) = m /\ Place(S, R, b) = n
  BY InOrderLists
<1>2. CASE a = b
  BY <1>1, <1>2 DEF IsTotalOrder
<1>3. CASE a # b /\ <<b, a>> \in R
  <2>1. n < m
    BY <1>1, <1>3, PlaceIncreases
  <2>2. m \in Int /\ n \in Int
    OBVIOUS
  <2>3. QED
    BY <2>1, <2>2
<1>4. QED
  BY <1>1, <1>2, <1>3 DEF IsTotalOrder

\* A list of numbers is ordered by place.
LEMMA ByPlaceTotal ==
    ASSUME NEW S \in SUBSET Int
    PROVE  IsTotalOrder(S, ByPlace(S))
<1>1. \A a, b \in S : <<a, b>> \in ByPlace(S) <=> a <= b
  BY DEF ByPlace
<1>2. \A a, b, c \in S : a <= a /\ (a <= b \/ b <= a) /\ (a <= b /\ b <= a => a = b)
                         /\ (a <= b /\ b <= c => a <= c)
  OBVIOUS
<1>3. QED
  BY <1>1, <1>2 DEF IsTotalOrder
=============================================================================
