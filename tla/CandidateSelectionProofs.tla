------------------------ MODULE CandidateSelectionProofs ------------------------
(***************************************************************************)
(* Proofs about CandidateSelection: a stop spends its budget on locals of   *)
(* its function, and analyses the locals it retained values of, whatever    *)
(* the functions, the budget, the watched locals and the filters are.       *)
(***************************************************************************)
EXTENDS CandidateSelection, FiniteSetTheorems, WellFoundedInduction, TLAPS

-----------------------------------------------------------------------------
(* Numbers and sets *)

(* A set of naturals with an element has a least one. *)
LEMMA MinIsLeast ==
  ASSUME NEW T \in SUBSET Nat, T # {}
  PROVE  Min(T) \in T /\ \A y \in T : Min(T) <= y
  <1> DEFINE R == {p \in Nat \X Nat : p[1] < p[2]}
  <1>1. IsWellFoundedOn(R, Nat)
    BY NatLessThanWellFounded, Zenon DEF OpToRel
  <1> HIDE DEF R
  <1>2. PICK x \in T : \A y \in T : ~(<<y, x>> \in R)
    BY <1>1, WFMin
  <1>3. ASSUME NEW y \in T PROVE x <= y
    <2>1. x \in Nat /\ y \in Nat
      OBVIOUS
    <2>2. y < x => <<y, x>> \in R
      BY <2>1 DEF R
    <2>3. QED
      BY <1>2, <2>1, <2>2
  <1>4. QED
    BY <1>3 DEF Min

(* The smaller of two naturals. *)
LEMMA MinOfTwo ==
  ASSUME NEW a \in Nat, NEW b \in Nat
  PROVE  Min({a, b}) = IF a <= b THEN a ELSE b
  <1>1. Min({a, b}) \in {a, b} /\ \A y \in {a, b} : Min({a, b}) <= y
    BY MinIsLeast
  <1>2. QED
    BY <1>1

(* Less than once around. *)
LEMMA ModOnce ==
  ASSUME NEW n \in Nat, n > 0, NEW x \in Nat
  PROVE  /\ x % n \in 0..(n - 1)
         /\ x < n => x % n = x
         /\ (n <= x /\ x < 2 * n) => x % n = x - n
  <1>1. x % n \in 0..(n - 1) /\ x = n * (x \div n) + (x % n) /\ x \div n \in Nat
    BY SMTT(30)
  <1> DEFINE q == x \div n
             r == x % n
  <1>2. r \in 0..(n - 1) /\ x = n * q + r /\ q \in Nat
    BY <1>1
  <1> HIDE DEF q, r
  <1>3. ASSUME q >= 1 PROVE n * q >= n
    BY <1>2, <1>3, SMTT(30)
  <1>4. ASSUME q >= 2 PROVE n * q >= 2 * n
    BY <1>2, <1>4, SMTT(30)
  <1>5. q = 0 => n * q = 0
    BY <1>2
  <1>6. q = 1 => n * q = n
    BY <1>2
  <1>7. x < n => q = 0
    BY <1>2, <1>3
  <1>8. (n <= x /\ x < 2 * n) => q = 1
    BY <1>2, <1>4, <1>5
  <1>9. QED
    BY <1>2, <1>5, <1>6, <1>7, <1>8 DEF r

(* Sorted lists a finite set of naturals: each entry is in the set, and each *)
(* element is an entry.                                                      *)
LEMMA SortedLists ==
  ASSUME NEW S \in SUBSET Nat, IsFiniteSet(S)
  PROVE  /\ Sorted(S) \in [1..Cardinality(S) -> S]
         /\ Len(Sorted(S)) = Cardinality(S) /\ Cardinality(S) \in Nat
         /\ \A i \in S : \E k \in 1..Cardinality(S) : Sorted(S)[k] = i
  <1> DEFINE n == Cardinality(S)
             Below(i) == {j \in S : j < i}
             rank == [i \in S |-> Cardinality(Below(i)) + 1]
  <1>1. n \in Nat
    BY FS_CardinalityType
  <1>2. ASSUME NEW i \in S
        PROVE  /\ IsFiniteSet(Below(i)) /\ Cardinality(Below(i)) \in Nat
               /\ Cardinality(Below(i)) < n
    <2>1. Below(i) \in SUBSET S /\ i \notin Below(i)
      OBVIOUS
    <2> HIDE DEF Below
    <2>2. QED
      BY <1>1, <2>1, FS_Subset, FS_CardinalityType
  <1>3. ASSUME NEW i \in S, NEW j \in S, i < j
        PROVE  Cardinality(Below(i)) < Cardinality(Below(j))
    <2>1. Below(i) \in SUBSET Below(j) /\ i \in Below(j) /\ i \notin Below(i)
      <3>1. i \in Nat /\ j \in Nat /\ \A x \in S : x \in Nat
        OBVIOUS
      <3>2. \A x \in S : x < i => x < j
        BY <1>3, <3>1
      <3>3. ~(i < i)
        BY <3>1
      <3>4. QED
        BY <1>3, <3>2, <3>3
    <2>2. IsFiniteSet(Below(j)) /\ Cardinality(Below(i)) \in Nat /\ Cardinality(Below(j)) \in Nat
      BY <1>2
    <2> HIDE DEF Below
    <2>3. Cardinality(Below(i)) <= Cardinality(Below(j)) /\ Cardinality(Below(i)) # Cardinality(Below(j))
      <3>1. /\ Cardinality(Below(i)) <= Cardinality(Below(j))
            /\ Cardinality(Below(j)) = Cardinality(Below(i)) => Below(j) = Below(i)
        BY <2>1, <2>2, FS_Subset, Zenon
      <3>2. QED
        BY <2>1, <3>1
    <2>4. QED
      BY <2>2, <2>3
  <1> HIDE DEF Below
  <1>4. rank \in Injection(S, 1..n)
    <2>1. rank \in [S -> 1..n]
      BY <1>1, <1>2
    <2>2. ASSUME NEW i \in S, NEW j \in S, rank[i] = rank[j]
          PROVE  i = j
      <3>1. Cardinality(Below(i)) = Cardinality(Below(j))
        BY <1>2, <2>2
      <3>2. ~(i < j) /\ ~(j < i)
        BY <1>2, <1>3, <3>1
      <3>3. QED
        BY <3>2
    <2>3. QED
      BY <2>1, <2>2 DEF Injection, IsInjective
  <1>5. rank \in Surjection(S, 1..n)
    <2>1. IsFiniteSet(1..n) /\ Cardinality(1..n) = n
      BY <1>1, FS_Interval
    <2>2. QED
      BY <1>4, <2>1, FS_Injection
  <1>6. \A k \in 1..n : \E i \in S : rank[i] = k
    BY <1>5 DEF Surjection
  <1>7. \A k \in 1..n : \E i \in S : Cardinality(Below(i)) = k - 1
    BY <1>1, <1>2, <1>6
  <1>8. Sorted(S) = [k \in 1..n |-> CHOOSE i \in S : Cardinality(Below(i)) = k - 1]
    BY DEF Sorted, Below
  <1> HIDE DEF n, rank
  <1>9. \A k \in 1..n : Sorted(S)[k] \in S /\ Cardinality(Below(Sorted(S)[k])) = k - 1
    BY <1>7, <1>8
  <1>10. Sorted(S) \in [1..n -> S]
    BY <1>8, <1>9
  <1>11. Len(Sorted(S)) = n
    BY <1>1, <1>10
  <1>12. ASSUME NEW i \in S
         PROVE  \E k \in 1..n : Sorted(S)[k] = i
    <2> DEFINE k == Cardinality(Below(i)) + 1
    <2>1. k \in 1..n /\ k - 1 = Cardinality(Below(i))
      BY <1>1, <1>2
    <2> HIDE DEF k
    <2>2. PICK x \in S : x = Sorted(S)[k] /\ Cardinality(Below(x)) = Cardinality(Below(i))
      BY <1>9, <2>1
    <2>3. ASSUME NEW a \in S, NEW b \in S, Cardinality(Below(a)) = Cardinality(Below(b))
          PROVE  ~(a < b)
      <3>1. Cardinality(Below(a)) \in Nat /\ ~(Cardinality(Below(a)) < Cardinality(Below(b)))
        BY <1>2, <2>3
      <3>2. QED
        BY <1>3, <3>1, Zenon
    <2>4. ~(x < i) /\ ~(i < x)
      BY <2>2, <2>3, Zenon
    <2>5. x = i
      BY <2>4
    <2>6. QED
      BY <2>1, <2>2, <2>5
  <1>13. QED
    BY <1>1, <1>10, <1>11, <1>12 DEF n

-----------------------------------------------------------------------------
(* Adding a list to the selection *)

(* The first k entries of a list make a finite selection; the next entry     *)
(* adds at most one.                                                         *)
LEMMA FirstAreFinite ==
  ASSUME NEW selected, IsFiniteSet(selected), NEW list, NEW k \in Nat
  PROVE  IsFiniteSet(WithFirst(selected, list, k))
         /\ Cardinality(WithFirst(selected, list, k)) \in Nat
  <1> DEFINE T == {list[j] : j \in 1..k}
             g == [j \in 1..k |-> list[j]]
  <1>1. IsFiniteSet(1..k)
    BY FS_Interval
  <1>2. g \in Surjection(1..k, T)
    BY DEF Surjection
  <1>3. IsFiniteSet(T)
    <2> HIDE DEF g, T
    <2>1. QED
      BY <1>1, <1>2, FS_Surjection
  <1>4. WithFirst(selected, list, k) = selected \cup T
    BY DEF WithFirst
  <1> HIDE DEF T
  <1>5. IsFiniteSet(selected \cup T)
    BY <1>3, FS_Union
  <1>6. QED
    BY <1>4, <1>5, FS_CardinalityType

LEMMA NextAddsOne ==
  ASSUME NEW selected, IsFiniteSet(selected), NEW list, NEW k \in Nat, k > 0
  PROVE  Cardinality(WithFirst(selected, list, k))
           <= Cardinality(WithFirst(selected, list, k - 1)) + 1
  <1> DEFINE U == WithFirst(selected, list, k - 1)
  <1>1. WithFirst(selected, list, k) = U \cup {list[k]}
    <2>1. 1..k = (1..(k - 1)) \cup {k}
      OBVIOUS
    <2>2. QED
      BY <2>1 DEF WithFirst
  <1>2. IsFiniteSet(U) /\ Cardinality(U) \in Nat
    BY FirstAreFinite
  <1> HIDE DEF U
  <1>3. Cardinality(U \cup {list[k]}) \in {Cardinality(U), Cardinality(U) + 1}
    BY <1>2, FS_AddElement
  <1>4. QED
    BY <1>1, <1>2, <1>3 DEF U

(* More entries, more locals. *)
LEMMA FirstGrow ==
  ASSUME NEW selected, IsFiniteSet(selected), NEW list, NEW k \in Nat, NEW m \in Nat, k <= m
  PROVE  /\ WithFirst(selected, list, k) \subseteq WithFirst(selected, list, m)
         /\ Cardinality(WithFirst(selected, list, k)) <= Cardinality(WithFirst(selected, list, m))
  <1> DEFINE U == WithFirst(selected, list, k)
             V == WithFirst(selected, list, m)
  <1>1. U \in SUBSET V
    <2>1. 1..k \subseteq 1..m
      OBVIOUS
    <2>2. QED
      BY <2>1 DEF WithFirst
  <1>2. IsFiniteSet(V)
    BY FirstAreFinite
  <1> HIDE DEF U, V
  <1>3. Cardinality(U) <= Cardinality(V)
    BY <1>1, <1>2, FS_Subset
  <1>4. QED
    BY <1>1, <1>3 DEF U, V

(* Adding a list fills the selection up to the budget, or up to the end of   *)
(* the list: the entries added are the first ones, up to the one that spends *)
(* the budget.                                                               *)
LEMMA AddAllFills ==
  ASSUME NEW selected, IsFiniteSet(selected), Cardinality(selected) <= Budget,
         NEW list, Len(list) \in Nat
  PROVE  /\ selected \subseteq AddAll(selected, list)
         /\ AddAll(selected, list) \subseteq WithFirst(selected, list, Len(list))
         /\ IsFiniteSet(AddAll(selected, list))
         /\ Cardinality(AddAll(selected, list)) =
              Min({Budget, Cardinality(WithFirst(selected, list, Len(list)))})
  <1> DEFINE L == Len(list)
             U(k) == WithFirst(selected, list, k)
             K == {k \in 1..L : Cardinality(U(k - 1)) < Budget}
             E == {k \in 1..(L + 1) : k = L + 1 \/ Cardinality(U(k - 1)) >= Budget}
  <1>1. Budget \in Nat /\ L \in Nat /\ Cardinality(selected) \in Nat
    BY SelectionAssumption, FS_CardinalityType
  <1>2. AddAll(selected, list) = selected \cup {list[k] : k \in K}
    BY DEF AddAll
  <1>3. U(0) = selected
    BY DEF WithFirst
  <1>4. ASSUME NEW k \in Nat
        PROVE  Cardinality(U(k)) \in Nat /\ IsFiniteSet(U(k))
    BY FirstAreFinite
  <1>5. ASSUME NEW k \in Nat, NEW m \in Nat, k <= m
        PROVE  U(k) \subseteq U(m) /\ Cardinality(U(k)) <= Cardinality(U(m))
    BY <1>5, FirstGrow
  <1>6. ASSUME NEW k \in Nat, k > 0
        PROVE  Cardinality(U(k)) <= Cardinality(U(k - 1)) + 1
    BY <1>6, NextAddsOne
  <1> DEFINE e == Min(E)
  <1>8. e \in E /\ \A k \in E : e <= k
    <2>1. L + 1 \in E /\ E \in SUBSET Nat
      BY <1>1
    <2> HIDE DEF E
    <2>2. QED
      BY <2>1, MinIsLeast
  <1> HIDE DEF e
  <1>9. e \in 1..(L + 1) /\ e - 1 \in Nat /\ e - 1 <= L
    BY <1>1, <1>8
  <1>10. K = 1..(e - 1)
    <2>1. ASSUME NEW k \in 1..L
          PROVE  Cardinality(U(k - 1)) < Budget <=> k < e
      <3> HIDE DEF U
      <3>1. k \in Nat /\ k - 1 \in Nat /\ Cardinality(U(k - 1)) \in Nat
        <4>1. k \in Nat /\ k - 1 \in Nat
          BY <1>1
        <4>2. QED
          BY <1>4, <4>1, Zenon
      <3>2. ASSUME k < e PROVE Cardinality(U(k - 1)) < Budget
        BY <1>1, <1>8, <1>9, <3>1, <3>2
      <3>3. ASSUME e <= k PROVE Cardinality(U(k - 1)) >= Budget
        <4>1. Cardinality(U(e - 1)) >= Budget
          BY <1>1, <1>8, <1>9, <3>3
        <4>2. Cardinality(U(e - 1)) <= Cardinality(U(k - 1)) /\ Cardinality(U(e - 1)) \in Nat
          <5>1. e - 1 <= k - 1
            BY <1>9, <3>1, <3>3
          <5>2. QED
            BY <1>4, <1>5, <1>9, <3>1, <5>1, Zenon
        <4>3. QED
          BY <1>1, <3>1, <4>1, <4>2
      <3>4. QED
        BY <1>1, <1>9, <3>1, <3>2, <3>3
    <2> HIDE DEF U
    <2>2. QED
      BY <1>1, <1>9, <2>1
  <1>11. AddAll(selected, list) = U(e - 1)
    BY <1>2, <1>10 DEF WithFirst
  <1> HIDE DEF U, K
  <1>12. U(0) \subseteq U(e - 1) /\ U(e - 1) \subseteq U(L)
         /\ Cardinality(U(e - 1)) <= Cardinality(U(L))
         /\ Cardinality(U(e - 1)) \in Nat /\ Cardinality(U(L)) \in Nat /\ IsFiniteSet(U(e - 1))
    <2>1. 0 \in Nat /\ 0 <= e - 1
      BY <1>9
    <2>2. QED
      BY <1>1, <1>4, <1>5, <1>9, <2>1, Zenon
  <1>13. Cardinality(U(e - 1)) <= Budget
    <2>1. CASE e = 1
      BY <1>3, <2>1
    <2>2. CASE e # 1
      <3>1. e - 1 \in Nat /\ e - 1 > 0 /\ e - 1 - 1 \in Nat /\ e - 1 \in 1..(L + 1) /\ e - 1 # L + 1
        BY <1>1, <1>9, <2>2
      <3>2. Cardinality(U(e - 1)) <= Cardinality(U(e - 1 - 1)) + 1
            /\ Cardinality(U(e - 1 - 1)) \in Nat
        BY <1>4, <1>6, <3>1
      <3>3. ~(e - 1 \in E)
        BY <1>8, <1>9
      <3>4. ~(Cardinality(U(e - 1 - 1)) >= Budget)
        BY <3>1, <3>3
      <3>5. QED
        BY <1>1, <1>12, <3>2, <3>4
    <2>3. QED
      BY <2>1, <2>2
  <1>14. Cardinality(U(e - 1)) = Min({Budget, Cardinality(U(L))})
    <2>1. Min({Budget, Cardinality(U(L))})
            = IF Budget <= Cardinality(U(L)) THEN Budget ELSE Cardinality(U(L))
      BY <1>1, <1>12, MinOfTwo
    <2>2. CASE e = L + 1
      <3>1. e - 1 = L
        BY <1>1, <2>2
      <3>2. QED
        BY <1>1, <1>12, <1>13, <2>1, <3>1
    <2>3. CASE e # L + 1
      <3>1. Cardinality(U(e - 1)) >= Budget
        BY <1>8, <2>3
      <3>2. QED
        BY <1>1, <1>12, <1>13, <2>1, <3>1
    <2>4. QED
      BY <2>2, <2>3
  <1>15. QED
    BY <1>3, <1>11, <1>12, <1>14 DEF U

-----------------------------------------------------------------------------
(* Walking a list around *)

(* Once around a list meets its entries, all of them and no other. *)
LEMMA RingMeetsAll ==
  ASSUME NEW selected, NEW list, NEW L \in Nat, L > 0, Len(list) = L, NEW start \in 0..(L - 1)
  PROVE  /\ Len(Ring(list, start)) = L
         /\ WithFirst(selected, Ring(list, start), L) = WithFirst(selected, list, L)
  <1> DEFINE at == [k \in 1..L |-> ((start + k - 1) % L) + 1]
  <1>1. ASSUME NEW k \in 1..L
        PROVE  at[k] \in 1..L
    <2>1. start + k - 1 \in Nat
      OBVIOUS
    <2>2. (start + k - 1) % L \in 0..(L - 1)
      BY <2>1, ModOnce
    <2>3. QED
      BY <2>2
  <1>2. ASSUME NEW j \in 1..L
        PROVE  \E k \in 1..L : at[k] = j
    <2>1. CASE start < j
      <3>1. j - start \in 1..L /\ start + (j - start) - 1 = j - 1 /\ j - 1 \in Nat /\ j - 1 < L
        BY <2>1
      <3>2. (j - 1) % L = j - 1
        BY <3>1, ModOnce
      <3>3. at[j - start] = j
        BY <3>1, <3>2
      <3>4. QED
        BY <3>1, <3>3
    <2>2. CASE j <= start
      <3> DEFINE k == j - start + L
      <3>1. k \in 1..L /\ start + k - 1 = L + j - 1
        BY <2>2
      <3>2. L + j - 1 \in Nat /\ L <= L + j - 1 /\ L + j - 1 < 2 * L
        OBVIOUS
      <3>3. (L + j - 1) % L = L + j - 1 - L
        BY <3>2, ModOnce
      <3>4. at[k] = ((L + j - 1) % L) + 1
        BY <3>1
      <3>5. at[k] = j
        BY <3>3, <3>4
      <3>6. QED
        BY <3>1, <3>5
    <2>3. QED
      BY <2>1, <2>2
  <1>3. Ring(list, start) = [k \in 1..L |-> list[at[k]]]
    BY DEF Ring
  <1> HIDE DEF at
  <1>4. Len(Ring(list, start)) = L
    BY <1>3
  <1>5. {Ring(list, start)[k] : k \in 1..L} = {list[at[k]] : k \in 1..L}
    BY <1>3
  <1>6. {list[at[k]] : k \in 1..L} = {list[k] : k \in 1..L}
    BY <1>1, <1>2
  <1>7. QED
    BY <1>4, <1>5, <1>6 DEF WithFirst

(* Adding a sorted set fills the selection from that set. *)
LEMMA SortedAdded ==
  ASSUME NEW selected, IsFiniteSet(selected), Cardinality(selected) <= Budget,
         NEW S \in SUBSET Nat, IsFiniteSet(S)
  PROVE  /\ selected \subseteq AddAll(selected, Sorted(S))
         /\ AddAll(selected, Sorted(S)) \subseteq selected \cup S
         /\ IsFiniteSet(AddAll(selected, Sorted(S)))
         /\ Cardinality(AddAll(selected, Sorted(S))) = Min({Budget, Cardinality(selected \cup S)})
  <1> DEFINE list == Sorted(S)
  <1>1. /\ Len(list) \in Nat
        /\ list \in [1..Len(list) -> S] /\ \A i \in S : \E k \in 1..Len(list) : list[k] = i
    BY SortedLists
  <1> HIDE DEF list
  <1>2. WithFirst(selected, list, Len(list)) = selected \cup S
    BY <1>1 DEF WithFirst
  <1>3. QED
    BY <1>1, <1>2, AddAllFills DEF list

(* So does a walk around it, from any cursor; the next cursor is a natural. *)
LEMMA RotatingAdded ==
  ASSUME NEW selected, IsFiniteSet(selected), Cardinality(selected) <= Budget,
         NEW S \in SUBSET Nat, IsFiniteSet(S), NEW at \in Nat
  PROVE  LET got == add_rotating(selected, Sorted(S), at)
         IN  /\ selected \subseteq got.selected /\ got.selected \subseteq selected \cup S
             /\ IsFiniteSet(got.selected)
             /\ Cardinality(got.selected) = Min({Budget, Cardinality(selected \cup S)})
             /\ got.cursor \in Nat
  <1> DEFINE list == Sorted(S)
             L == Len(list)
             got == add_rotating(selected, list, at)
  <1>1. /\ L \in Nat /\ L = Cardinality(S)
        /\ list \in [1..L -> S] /\ \A i \in S : \E k \in 1..L : list[k] = i
    BY SortedLists
  <1>2. /\ Budget \in Nat /\ Cardinality(selected) \in Nat
        /\ IsFiniteSet(selected \cup S) /\ Cardinality(selected \cup S) \in Nat
        /\ Cardinality(selected) <= Cardinality(selected \cup S)
    <2>1. IsFiniteSet(selected \cup S) /\ selected \in SUBSET (selected \cup S)
      BY FS_Union
    <2>2. QED
      BY <2>1, SelectionAssumption, FS_CardinalityType, FS_Subset
  <1>3. Min({Budget, Cardinality(selected \cup S)})
          = IF Budget <= Cardinality(selected \cup S) THEN Budget ELSE Cardinality(selected \cup S)
    BY <1>2, MinOfTwo
  <1>4. SUFFICES /\ selected \subseteq got.selected /\ got.selected \subseteq selected \cup S
                 /\ IsFiniteSet(got.selected)
                 /\ Cardinality(got.selected) = Min({Budget, Cardinality(selected \cup S)})
                 /\ got.cursor \in Nat
    OBVIOUS
  <1> HIDE DEF list
  <1>5. CASE list = <<>> \/ Cardinality(selected) >= Budget
    <2>1. got.selected = selected /\ got.cursor = at
      BY <1>5 DEF add_rotating
    <2>2. ASSUME list = <<>> PROVE selected \cup S = selected
      <3>1. L = 0
        BY <2>2
      <3>2. S = {}
        BY <1>1, <3>1
      <3>3. QED
        BY <3>2
    <2> HIDE DEF got
    <2>3. Cardinality(selected) = Min({Budget, Cardinality(selected \cup S)})
      <3>1. CASE list = <<>>
        <4>1. Cardinality(selected \cup S) = Cardinality(selected)
          BY <2>2, <3>1, Zenon
        <4>2. QED
          BY <1>2, <1>3, <4>1
      <3>2. CASE Cardinality(selected) >= Budget
        BY <1>2, <1>3, <3>2
      <3>3. QED
        BY <1>5, <3>1, <3>2
    <2>4. QED
      BY <2>1, <2>3
  <1>6. CASE ~(list = <<>> \/ Cardinality(selected) >= Budget)
    <2> DEFINE start == at % L
               ring == Ring(list, start)
               Full(k) == Cardinality(WithFirst(selected, ring, k)) >= Budget
               added == Min({k \in 1..L : Full(k)} \cup {L})
    <2>1. got.selected = AddAll(selected, ring) /\ got.cursor = (start + added) % L
      BY <1>6 DEF add_rotating
    <2> HIDE DEF got
    <2>2. L > 0
      BY <1>1, <1>6
    <2>3. start \in 0..(L - 1)
      BY <1>1, <2>2, ModOnce
    <2> HIDE DEF start
    <2>4. Len(ring) = L /\ WithFirst(selected, ring, L) = WithFirst(selected, list, L)
      <3>1. Len(list) = L
        OBVIOUS
      <3>2. L \in Nat
        BY <1>1
      <3> HIDE DEF L, ring
      <3>3. /\ Len(Ring(list, start)) = L
            /\ WithFirst(selected, Ring(list, start), L) = WithFirst(selected, list, L)
        BY <2>2, <2>3, <3>1, <3>2, RingMeetsAll
      <3>4. QED
        BY <3>3, Zenon DEF ring
    <2>5. added \in Nat
      <3> DEFINE C == {k \in 1..L : Full(k)} \cup {L}
      <3>1. C \in SUBSET Nat /\ C # {}
        BY <1>1
      <3> HIDE DEF C
      <3>2. Min(C) \in Nat
        BY <3>1, MinIsLeast
      <3>3. QED
        BY <3>2 DEF C
    <2> HIDE DEF added, ring, L
    <2>6. WithFirst(selected, ring, Len(ring)) = selected \cup S
      <3>1. {list[k] : k \in 1..L} = S
        BY <1>1
      <3>2. QED
        BY <2>4, <3>1 DEF WithFirst
    <2>7. got.cursor \in Nat
      <3>1. start + added \in Nat
        BY <2>3, <2>5
      <3>2. (start + added) % L \in 0..(L - 1)
        BY <1>1, <2>2, <3>1, ModOnce
      <3>3. QED
        BY <1>1, <2>1, <3>2
    <2>8. Len(ring) \in Nat
      BY <1>1, <2>4
    <2>9. /\ selected \subseteq AddAll(selected, ring)
          /\ AddAll(selected, ring) \subseteq WithFirst(selected, ring, Len(ring))
          /\ IsFiniteSet(AddAll(selected, ring))
          /\ Cardinality(AddAll(selected, ring))
               = Min({Budget, Cardinality(WithFirst(selected, ring, Len(ring)))})
      BY <2>8, AddAllFills, Zenon
    <2>10. QED
      BY <2>1, <2>6, <2>7, <2>9, Zenon
  <1>7. QED
    BY <1>5, <1>6

-----------------------------------------------------------------------------
(* The selection *)

(* The preferred locals are locals of the function and leave the budget      *)
(* whole; if all of them fit, none is left out.                              *)
LEMMA PrioritisedFits ==
  ASSUME NEW f \in Funcs
  PROVE  /\ Prioritised(f) \subseteq LocalsOf[f]
         /\ IsFiniteSet(Prioritised(f)) /\ Cardinality(Prioritised(f)) <= Budget
         /\ Cardinality((Watched \cup Known(f)) \cap LocalsOf[f]) <= Budget
              => Known(f) \subseteq Prioritised(f)
  <1> DEFINE W == Watched \cap LocalsOf[f]
             A == AddAll({}, Sorted(W))
             V == Known(f)
             P == AddAll(A, Sorted(V))
  <1>1. LocalsOf[f] \in SUBSET Nat /\ IsFiniteSet(LocalsOf[f]) /\ Budget \in Nat
    BY SelectionAssumption
  <1>2. /\ W \in SUBSET LocalsOf[f] /\ V \in SUBSET LocalsOf[f]
        /\ (Watched \cup V) \cap LocalsOf[f] = W \cup V
        /\ Prioritised(f) = P
    BY DEF Known, Prioritised
  <1> HIDE DEF W, V
  <1>3. /\ W \in SUBSET Nat /\ V \in SUBSET Nat /\ W \cup V \in SUBSET LocalsOf[f]
        /\ W \in SUBSET (W \cup V)
    BY <1>1, <1>2
  <1>4. /\ IsFiniteSet(W) /\ IsFiniteSet(V) /\ IsFiniteSet(W \cup V)
        /\ Cardinality(W) \in Nat /\ Cardinality(W \cup V) \in Nat
        /\ Cardinality(W) <= Cardinality(W \cup V)
    <2>1. IsFiniteSet(W) /\ IsFiniteSet(V) /\ IsFiniteSet(W \cup V)
      BY <1>1, <1>2, <1>3, FS_Subset
    <2>2. QED
      BY <1>3, <2>1, FS_CardinalityType, FS_Subset
  <1>5. /\ A \subseteq W /\ IsFiniteSet(A)
        /\ Cardinality(A) = Min({Budget, Cardinality(W)})
    <2>1. IsFiniteSet({}) /\ Cardinality({}) <= Budget /\ {} \cup W = W
      BY <1>1, FS_EmptySet
    <2>2. /\ A \subseteq {} \cup W /\ IsFiniteSet(A)
          /\ Cardinality(A) = Min({Budget, Cardinality({} \cup W)})
      BY <1>3, <1>4, <2>1, SortedAdded
    <2> HIDE DEF A
    <2>3. QED
      BY <2>1, <2>2
  <1> HIDE DEF A
  <1>6. Cardinality(A) <= Budget
        /\ (Cardinality(W) <= Budget => Cardinality(A) = Cardinality(W))
    BY <1>1, <1>4, <1>5, MinOfTwo
  <1>7. /\ P \subseteq A \cup V /\ IsFiniteSet(P)
        /\ Cardinality(P) = Min({Budget, Cardinality(A \cup V)})
    BY <1>3, <1>4, <1>5, <1>6, SortedAdded
  <1> HIDE DEF P
  <1>8. IsFiniteSet(A \cup V) /\ Cardinality(A \cup V) \in Nat
    BY <1>4, <1>5, FS_Union, FS_CardinalityType
  <1>9. Cardinality(P) <= Budget
        /\ (Cardinality(A \cup V) <= Budget => Cardinality(P) = Cardinality(A \cup V))
    <2>1. Min({Budget, Cardinality(A \cup V)})
            = IF Budget <= Cardinality(A \cup V) THEN Budget ELSE Cardinality(A \cup V)
      BY <1>1, <1>8, MinOfTwo
    <2>2. QED
      BY <1>1, <1>7, <1>8, <2>1
  <1>10. ASSUME Cardinality(W \cup V) <= Budget PROVE V \subseteq P
    <2>1. Cardinality(W) <= Budget
      BY <1>1, <1>4, <1>10
    <2>2. A \in SUBSET W /\ Cardinality(W) = Cardinality(A)
      BY <1>5, <1>6, <2>1
    <2>3. A = W
      BY <1>4, <2>2, FS_Subset
    <2>4. P \in SUBSET (A \cup V) /\ Cardinality(A \cup V) = Cardinality(P)
      BY <1>7, <1>9, <1>10, <2>3
    <2>5. P = A \cup V
      BY <1>8, <2>4, FS_Subset
    <2>6. QED
      BY <2>5
  <1>11. P \subseteq LocalsOf[f]
    BY <1>2, <1>5, <1>7
  <1>12. QED
    BY <1>2, <1>7, <1>9, <1>10, <1>11 DEF V

(* The locals picked: the preferred ones, and as many of the others as the   *)
(* budget has places for.                                                    *)
LEMMA SelectionSpends ==
  ASSUME NEW f \in Funcs, CursorOf(f) \in Nat
  PROVE  LET picked == select_recovery_candidate_indexes(f)
         IN  /\ Spends(f, picked.selected)
             /\ Prioritised(f) \subseteq picked.selected
             /\ picked.cursor \in Nat
  <1> DEFINE visible == {i \in LocalsOf[f] : row_matches_filter(f, i)}
             shown == add_rotating(Prioritised(f), Sorted(visible), CursorOf(f))
             remaining == LocalsOf[f] \ shown.selected
             picked == add_rotating(shown.selected, Sorted(remaining), shown.cursor)
  <1>1. select_recovery_candidate_indexes(f) = picked
    BY DEF select_recovery_candidate_indexes
  <1>2. LocalsOf[f] \in SUBSET Nat /\ IsFiniteSet(LocalsOf[f]) /\ Budget \in Nat
    BY SelectionAssumption
  <1>3. visible \in SUBSET LocalsOf[f]
    OBVIOUS
  <1> HIDE DEF visible
  <1>4. visible \in SUBSET Nat /\ IsFiniteSet(visible)
    BY <1>2, <1>3, FS_Subset
  <1>5. /\ Prioritised(f) \subseteq LocalsOf[f]
        /\ IsFiniteSet(Prioritised(f)) /\ Cardinality(Prioritised(f)) <= Budget
    BY PrioritisedFits
  <1>6. /\ Prioritised(f) \subseteq shown.selected
        /\ shown.selected \subseteq Prioritised(f) \cup visible
        /\ IsFiniteSet(shown.selected)
        /\ Cardinality(shown.selected) = Min({Budget, Cardinality(Prioritised(f) \cup visible)})
        /\ shown.cursor \in Nat
    BY <1>4, <1>5, RotatingAdded
  <1> HIDE DEF shown
  <1>7. Cardinality(shown.selected) <= Budget
    <2>1. Cardinality(Prioritised(f) \cup visible) \in Nat
      BY <1>4, <1>5, FS_Union, FS_CardinalityType
    <2> DEFINE c == Cardinality(Prioritised(f) \cup visible)
    <2> HIDE DEF c
    <2>2. c \in Nat /\ Cardinality(shown.selected) = Min({Budget, c})
      BY <1>6, <2>1 DEF c
    <2>3. Min({Budget, c}) = IF Budget <= c THEN Budget ELSE c
      BY <1>2, <2>2, MinOfTwo
    <2>4. QED
      BY <1>2, <2>2, <2>3
  <1>8. shown.selected \subseteq LocalsOf[f]
    BY <1>3, <1>5, <1>6
  <1>9. remaining \in SUBSET LocalsOf[f] /\ shown.selected \cup remaining = LocalsOf[f]
    BY <1>8
  <1> HIDE DEF remaining
  <1>10. remaining \in SUBSET Nat /\ IsFiniteSet(remaining)
    BY <1>2, <1>9, FS_Subset
  <1>11. /\ shown.selected \subseteq picked.selected
         /\ picked.selected \subseteq shown.selected \cup remaining
         /\ Cardinality(picked.selected) = Min({Budget, Cardinality(shown.selected \cup remaining)})
         /\ picked.cursor \in Nat
    BY <1>6, <1>7, <1>10, RotatingAdded
  <1> HIDE DEF picked
  <1>12. Spends(f, picked.selected) /\ Prioritised(f) \subseteq picked.selected
    BY <1>6, <1>9, <1>11 DEF Spends
  <1>13. QED
    BY <1>1, <1>11, <1>12

-----------------------------------------------------------------------------
(* The invariant *)

(* The decision of a stop spends the budget in the stop's function, computed *)
(* anew or taken from the cache.                                             *)
LEMMA SelectKeepsInv ==
  ASSUME SelectionInv, NEW f \in Funcs, NEW again \in BOOLEAN, select(f, again)
  PROVE  /\ Spends(f, chosen') /\ indexes' = chosen'
         /\ key' = <<f, filter>>
         /\ DOMAIN cursor' \subseteq Funcs /\ \A g \in DOMAIN cursor' : cursor'[g] \in Nat
         /\ ~again => Prioritised(f) \subseteq chosen'
  <1> DEFINE picked == select_recovery_candidate_indexes(f)
  <1>1. /\ DOMAIN cursor \subseteq Funcs /\ \A g \in DOMAIN cursor : cursor[g] \in Nat
        /\ CursorOf(f) \in Nat
    BY DEF SelectionInv, TypeOK, CursorOf
  <1>2. /\ Spends(f, picked.selected) /\ Prioritised(f) \subseteq picked.selected
        /\ picked.cursor \in Nat
    BY <1>1, SelectionSpends
  <1> HIDE DEF picked
  <1>3. CASE CacheHit(f, again)
    <2>1. key = <<f, filter>> /\ again
      BY <1>3 DEF CacheHit
    <2>2. key # NoKey /\ key[1] = f
      BY <2>1 DEF NoKey
    <2>3. Spends(f, indexes)
      BY <2>2 DEF SelectionInv, CacheInv
    <2>4. QED
      BY <1>1, <1>3, <2>1, <2>3 DEF select
  <1>4. CASE ~CacheHit(f, again)
    <2>1. /\ chosen' = picked.selected
          /\ cursor' = [g \in DOMAIN cursor \cup {f} |->
                          IF g = f THEN picked.cursor ELSE cursor[g]]
      BY <1>4 DEF select, picked
    <2>2. QED
      BY <1>1, <1>2, <2>1 DEF select
  <1>5. QED
    BY <1>3, <1>4

LEMMA SelectionInit == Init => SelectionInv
  <1> SUFFICES ASSUME Init PROVE SelectionInv
    OBVIOUS
  <1>1. TypeOK
    BY SelectionAssumption DEF Init, TypeOK
  <1>2. BudgetIsSpent /\ CacheInv
    BY DEF Init, BudgetIsSpent, CacheInv
  <1>3. QED
    BY <1>1, <1>2 DEF SelectionInv

LEMMA StopKeepsInv ==
  ASSUME SelectionInv, NEW f \in Funcs, NEW again \in BOOLEAN,
         Stop(f, again) \/ StopUnanalysed(f, again)
  PROVE  SelectionInv'
  <1>1. select(f, again) /\ active' = f /\ filter' = filter
    BY DEF Stop, StopUnanalysed
  <1>2. /\ Spends(f, chosen') /\ indexes' = chosen'
        /\ key' = <<f, filter>>
        /\ DOMAIN cursor' \subseteq Funcs /\ \A g \in DOMAIN cursor' : cursor'[g] \in Nat
    BY <1>1, SelectKeepsInv
  <1>3. /\ DOMAIN rows' = LocalsOf[f]
        /\ \A i \in LocalsOf[f] : rows'[i] \in Statuses
        /\ history' \subseteq history \cup ({f} \X Recoverable[f])
    <2>1. CASE Stop(f, again)
      <3>1. PICK got \in SUBSET Recoverable[f], lost \in SUBSET Recoverable[f] :
              Recovered(f, got, lost)
        BY <2>1 DEF Stop
      <3>2. QED
        BY <3>1 DEF Recovered, Retained, Statuses
    <2>2. CASE StopUnanalysed(f, again)
      BY <2>2 DEF StopUnanalysed, Statuses
    <2>3. QED
      BY <2>1, <2>2
  <1>4. TypeOK'
    <2>1. filter' \in Filters /\ active' \in Funcs \cup {None} /\ key' \in Funcs \X Filters
      BY <1>1, <1>2 DEF SelectionInv, TypeOK
    <2>2. LocalsOf[f] \subseteq UNION {LocalsOf[g] : g \in Funcs}
          /\ {f} \X Recoverable[f] \subseteq UNION {{g} \X Recoverable[g] : g \in Funcs}
      OBVIOUS
    <2>3. indexes' \subseteq UNION {LocalsOf[g] : g \in Funcs}
      BY <1>2, <2>2 DEF Spends
    <2>4. history' \subseteq UNION {{g} \X Recoverable[g] : g \in Funcs}
      BY <1>3, <2>2 DEF SelectionInv, TypeOK
    <2>5. QED
      BY <1>2, <1>3, <2>1, <2>2, <2>3, <2>4 DEF TypeOK
  <1>5. BudgetIsSpent'
    BY <1>1, <1>2 DEF BudgetIsSpent, Spends
  <1>6. CacheInv'
    <2>1. key'[1] = f /\ Spends(f, indexes')
      BY <1>2
    <2>2. QED
      BY <2>1 DEF CacheInv, Spends
  <1>7. QED
    BY <1>4, <1>5, <1>6 DEF SelectionInv

LEMMA SelectionStep == SelectionInv /\ [Next]_vars => SelectionInv'
  <1> SUFFICES ASSUME SelectionInv, [Next]_vars PROVE SelectionInv'
    OBVIOUS
  <1>1. ASSUME NEW f \in Funcs, NEW again \in BOOLEAN,
               Stop(f, again) \/ StopUnanalysed(f, again)
        PROVE  SelectionInv'
    BY <1>1, StopKeepsInv
  <1>2. ASSUME /\ key' = NoKey /\ indexes' = {}
               /\ active' = active /\ chosen' = chosen /\ history' = history
               /\ filter' \in Filters /\ rows' \in {rows, <<>>}
               /\ cursor' \in {cursor, <<>>}
        PROVE  SelectionInv'
    <2>1. TypeOK'
      BY <1>2 DEF SelectionInv, TypeOK
    <2>2. BudgetIsSpent' /\ CacheInv'
      BY <1>2 DEF SelectionInv, BudgetIsSpent, CacheInv, Spends, NoKey
    <2>3. QED
      BY <2>1, <2>2 DEF SelectionInv
  <1>3. CASE MappingFailed \/ EnumerationFailed
    BY <1>2, <1>3 DEF MappingFailed, EnumerationFailed, SelectionInv, TypeOK
  <1>4. CASE disconnect
    BY <1>2, <1>4 DEF disconnect, SelectionInv, TypeOK
  <1>5. ASSUME NEW name \in Filters, set_filter(name) PROVE SelectionInv'
    BY <1>2, <1>5 DEF set_filter, SelectionInv, TypeOK
  <1>6. CASE UNCHANGED vars
    BY <1>6 DEF vars, SelectionInv, TypeOK, BudgetIsSpent, CacheInv, Spends
  <1>7. QED
    BY <1>1, <1>3, <1>4, <1>5, <1>6 DEF Next

LEMMA SelectionInvariant == Spec => []SelectionInv
  <1>1. QED
    BY SelectionInit, SelectionStep, PTL DEF Spec

-----------------------------------------------------------------------------
(* Types are kept for all functions, budgets, watched locals and filters:    *)
(* the rows, the cached decision and the retained values of                  *)
(* AnalysisSelectionCache and VVariableRecovery name locals that exist, even *)
(* when a watched index is no local, and only functions have cursors.        *)
THEOREM SelectionTypes == Spec => []TypeOK
  <1>1. SelectionInv => TypeOK
    BY DEF SelectionInv
  <1>2. QED
    BY <1>1, SelectionInvariant, PTL

(* Every stop analyses exactly as many locals as the budget allows, all of   *)
(* its own function (select_recovery_candidate_indexes and the cache).       *)
THEOREM EveryStopSpendsItsBudget == Spec => []BudgetIsSpent
  <1>1. SelectionInv => BudgetIsSpent
    BY DEF SelectionInv
  <1>2. QED
    BY <1>1, SelectionInvariant, PTL

(* A new stop in a function whose retained values the table shows, and fit   *)
(* the budget, analyses every local that ever had a value there: the rows    *)
(* with a value come before the rotation.                                    *)
THEOREM StaleLocalsAreAnalysed == Spec => RetainedAreAnalysed
  <1> DEFINE Had(f) == {i \in LocalsOf[f] : <<f, i>> \in history}
  <1>1. ASSUME SelectionInv, NEW f \in Funcs, Stop(f, FALSE),
               \A i \in Had(f) : StatusOf(i) \in {"fresh", "stale"},
               Cardinality((Watched \cup Known(f)) \cap LocalsOf[f]) <= Budget
        PROVE  Had(f) \subseteq chosen'
    <2>1. select(f, FALSE)
      BY <1>1 DEF Stop
    <2>2. Prioritised(f) \subseteq chosen'
      BY <1>1, <2>1, SelectKeepsInv
    <2>3. Had(f) \subseteq Known(f)
      BY <1>1 DEF Known
    <2>4. Known(f) \subseteq Prioritised(f)
      BY <1>1, PrioritisedFits
    <2>5. QED
      BY <2>2, <2>3, <2>4
  <1>2. SelectionInv =>
          \A f \in Funcs :
            LET had == {i \in LocalsOf[f] : <<f, i>> \in history} IN
            /\ Stop(f, FALSE) /\ active = f
            /\ \A i \in had : StatusOf(i) \in {"fresh", "stale"}
            /\ Cardinality((Watched \cup Known(f)) \cap LocalsOf[f]) <= Budget
            => had \subseteq chosen'
    BY <1>1
  <1>3. QED
    BY <1>2, SelectionInvariant, PTL DEF RetainedAreAnalysed
=============================================================================
