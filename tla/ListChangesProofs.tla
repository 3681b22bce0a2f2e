------------------------- MODULE ListChangesProofs -------------------------
(***************************************************************************)
(* What the operations on index sets do, that the change gathered from the *)
(* instructions of one transaction is exact, and that it stays so when the *)
(* changes of several transactions are merged, finalized, or told by       *)
(* KVOAdapter: for any list, any number of instructions and transactions.  *)
(***************************************************************************)
EXTENDS ListChanges, FiniteSetTheorems, SequenceTheorems, WellFoundedInduction, TLAPS

----------------------------------------------------------------------------
(* Counting                                                                *)

\* a set of indexes
IsIndexSet(s) == s \subseteq Nat /\ IsFiniteSet(s)

\* the number of indexes of s below k
Below(s, k) == CountIn(s, 0, k)

\* A set of naturals has a least element.
LEMMA LeastNatural ==
  ASSUME NEW S \in SUBSET Nat, NEW n \in S
  PROVE  \E m \in S : \A k \in S : m <= k
<1>1. IsWellFoundedOn(OpToRel(<, Nat), Nat)
  BY NatLessThanWellFounded
<1>2. PICK m \in S : \A k \in S : ~(<<k, m>> \in OpToRel(<, Nat))
  BY <1>1, WFMin, Zenon
<1>3. \A k \in S : ~(k < m)
  BY <1>2 DEF OpToRel
<1> QED BY <1>3

\* Counting goes on by one at each index of the set.
LEMMA BelowNext ==
  ASSUME NEW s, IsIndexSet(s), NEW k \in Nat
  PROVE  /\ Below(s, k) \in Nat
         /\ Below(s, 0) = 0
         /\ Below(s, k + 1) = IF k \in s THEN Below(s, k) + 1 ELSE Below(s, k)
<1> DEFINE L(j) == {i \in s : 0 <= i /\ i < j}
<1>1. IsFiniteSet(L(k))
  BY FS_Subset DEF IsIndexSet
<1>2. Cardinality(L(k)) \in Nat
  BY <1>1, FS_CardinalityType
<1> USE DEF IsIndexSet
<1>0. \A i \in s : i \in Nat
  OBVIOUS
<1>3. L(0) = {}
  <2>1. \A i \in s : ~(i < 0)
    BY <1>0
  <2> QED BY <2>1
<1>4. L(k + 1) = IF k \in s THEN L(k) \cup {k} ELSE L(k)
  <2>1. \A i \in s : i < k + 1 <=> i < k \/ i = k
    BY <1>0
  <2>2. k \in s => k < k + 1 /\ 0 <= k
    OBVIOUS
  <2> QED BY <2>1, <2>2
<1>5. k \notin L(k)
  OBVIOUS
<1>6. Cardinality(L(k) \cup {k}) = Cardinality(L(k)) + 1
  BY <1>1, <1>5, FS_AddElement
<1> HIDE DEF L
<1> QED BY <1>2, <1>3, <1>4, <1>6, FS_EmptySet DEF Below, CountIn, L

\* n positions from a on in s and from b on in t are alike
Alike(s, a, t, b, n) == \A k \in Nat : k < n => (a + k \in s <=> b + k \in t)

\* Over stretches that are alike it goes on equally.
LEMMA BelowAlike ==
  ASSUME NEW s, IsIndexSet(s), NEW t, IsIndexSet(t),
         NEW a \in Nat, NEW b \in Nat, NEW n \in Nat,
         Alike(s, a, t, b, n)
  PROVE  Below(s, a + n) - Below(s, a) = Below(t, b + n) - Below(t, b)
<1> DEFINE Off == {k \in 0 .. n : Below(s, a + k) - Below(s, a) # Below(t, b + k) - Below(t, b)}
<1>1. ASSUME n \in Off PROVE FALSE
  <2>0. Off \in SUBSET Nat
    OBVIOUS
  <2>1. PICK m \in Off : \A k \in Off : m <= k
    BY <1>1, <2>0, LeastNatural, Zenon
  <2>2. m \in Nat /\ m <= n
    OBVIOUS
  <2>3. CASE m = 0
    BY <2>1, <2>3, BelowNext
  <2>4. CASE m > 0
    <3>1. m - 1 \in Nat /\ m - 1 < n /\ m - 1 \notin Off
      BY <2>1, <2>2, <2>4
    <3>2. Below(s, a + (m - 1)) - Below(s, a) = Below(t, b + (m - 1)) - Below(t, b)
      BY <3>1
    <3>3. a + (m - 1) \in Nat /\ b + (m - 1) \in Nat /\ (a + (m - 1)) + 1 = a + m
          /\ (b + (m - 1)) + 1 = b + m
      BY <3>1
    <3>4. a + (m - 1) \in s <=> b + (m - 1) \in t
      BY <3>1 DEF Alike
    <3>5. Below(s, a + m) = IF a + (m - 1) \in s THEN Below(s, a + (m - 1)) + 1
                            ELSE Below(s, a + (m - 1))
      BY <3>3, BelowNext
    <3>6. Below(t, b + m) = IF b + (m - 1) \in t THEN Below(t, b + (m - 1)) + 1
                            ELSE Below(t, b + (m - 1))
      BY <3>3, BelowNext
    <3>7. /\ Below(s, a + (m - 1)) \in Nat /\ Below(t, b + (m - 1)) \in Nat
          /\ Below(s, a) \in Nat /\ Below(t, b) \in Nat
      BY <3>3, BelowNext
    <3>8. Below(s, a + m) - Below(s, a) = Below(t, b + m) - Below(t, b)
      BY <3>2, <3>4, <3>5, <3>6, <3>7
    <3> QED BY <2>1, <3>8
  <2> QED BY <2>2, <2>3, <2>4
<1> QED BY <1>1

\* A stretch of n positions holds at most n indexes.
LEMMA BelowBetween ==
  ASSUME NEW s, IsIndexSet(s), NEW a \in Nat, NEW n \in Nat
  PROVE  Below(s, a) <= Below(s, a + n) /\ Below(s, a + n) <= Below(s, a) + n
<1> DEFINE Off == {k \in 0 .. n : ~(/\ Below(s, a) <= Below(s, a + k)
                                   /\ Below(s, a + k) <= Below(s, a) + k)}
<1>1. ASSUME n \in Off PROVE FALSE
  <2>0. Off \in SUBSET Nat
    OBVIOUS
  <2>1. PICK m \in Off : \A k \in Off : m <= k
    BY <1>1, <2>0, LeastNatural, Zenon
  <2>2. m \in Nat /\ m <= n
    OBVIOUS
  <2>3. CASE m = 0
    BY <2>1, <2>3, BelowNext
  <2>4. CASE m > 0
    <3>1. m - 1 \in Nat /\ m - 1 \notin Off /\ m - 1 \in 0 .. n
      BY <2>1, <2>2, <2>4
    <3>2. Below(s, a) <= Below(s, a + (m - 1)) /\ Below(s, a + (m - 1)) <= Below(s, a) + (m - 1)
      BY <3>1
    <3>3. a + (m - 1) \in Nat /\ (a + (m - 1)) + 1 = a + m
      BY <3>1
    <3>4. Below(s, a + m) \in {Below(s, a + (m - 1)), Below(s, a + (m - 1)) + 1}
      BY <3>3, BelowNext
    <3>5. Below(s, a + (m - 1)) \in Nat /\ Below(s, a) \in Nat
      BY <3>3, BelowNext
    <3> HIDE DEF Off
    <3>6. Below(s, a) <= Below(s, a + m) /\ Below(s, a + m) <= Below(s, a) + m
      BY <2>2, <3>2, <3>4, <3>5
    <3> QED BY <2>1, <3>6 DEF Off
  <2> QED BY <2>2, <2>3, <2>4
<1> QED BY <1>1

\* A bounded set is counted up to its bound.
LEMMA BelowAll ==
  ASSUME NEW s, NEW n \in Nat, s \subseteq 0 .. n - 1
  PROVE  /\ IsIndexSet(s)
         /\ Cardinality(s) \in Nat
         /\ Below(s, n) = Cardinality(s)
<1>1. IsFiniteSet(0 .. n - 1)
  BY FS_Interval
<1>2. IsFiniteSet(s)
  BY <1>1, FS_Subset
<1>3. {i \in s : 0 <= i /\ i < n} = s
  <2>1. \A i \in s : i \in Nat /\ 0 <= i /\ i < n
    OBVIOUS
  <2> QED BY <2>1
<1>4. s \subseteq Nat
  OBVIOUS
<1> QED BY <1>2, <1>3, <1>4, FS_CardinalityType DEF IsIndexSet, Below, CountIn

\* Unshift numbers the positions outside the set, in order.
LEMMA UnshiftNumbers ==
  ASSUME NEW s, IsIndexSet(s), NEW i \in Nat
  PROVE  /\ Unshift(s, i) \in Nat /\ Unshift(s, i) <= i
         /\ \A j \in Nat : i <= j => Unshift(s, i) <= Unshift(s, j)
         /\ i \notin s => \A j \in Nat : i < j => Unshift(s, i) < Unshift(s, j)
<1>1. /\ Below(s, 0) = 0 /\ Below(s, i) \in Nat
      /\ Below(s, i + 1) = IF i \in s THEN Below(s, i) + 1 ELSE Below(s, i)
  BY BelowNext
<1>2. Below(s, 0 + i) <= Below(s, 0) + i
  BY BelowBetween
<1>3. \A j \in Nat : Unshift(s, j) = j - Below(s, j)
  BY DEF Unshift, Below
<1>4. ASSUME NEW j \in Nat, i <= j PROVE Unshift(s, i) <= Unshift(s, j)
  <2>1. j - i \in Nat /\ i + (j - i) = j
    BY <1>4
  <2>2. Below(s, j) <= Below(s, i) + (j - i)
    BY <2>1, BelowBetween
  <2>3. Below(s, j) \in Nat
    BY BelowNext
  <2> QED BY <1>1, <1>3, <2>2, <2>3
<1>5. ASSUME i \notin s, NEW j \in Nat, i < j PROVE Unshift(s, i) < Unshift(s, j)
  <2>1. j - (i + 1) \in Nat /\ (i + 1) + (j - (i + 1)) = j /\ i + 1 \in Nat
    BY <1>5
  <2>2. Below(s, j) <= Below(s, i + 1) + (j - (i + 1))
    BY <2>1, BelowBetween
  <2>3. Below(s, j) \in Nat
    BY BelowNext
  <2> QED BY <1>1, <1>3, <1>5, <2>2, <2>3
<1> QED BY <1>1, <1>2, <1>3, <1>4, <1>5

\* Shift finds the position with a given number: the inverse of Unshift.
LEMMA ShiftInverts ==
  ASSUME NEW s, IsIndexSet(s), NEW i \in Nat
  PROVE  Shift(s, i) \in Nat /\ Shift(s, i) \notin s /\ Unshift(s, Shift(s, i)) = i
<1> DEFINE c == Cardinality(s)
           Past == {k \in Nat : Unshift(s, k + 1) > i}
<1>1. c \in Nat
  BY FS_CardinalityType DEF IsIndexSet
<1>2. \A k \in Nat : Below(s, k) <= c
  <2>1. ASSUME NEW k \in Nat PROVE Below(s, k) <= c
    <3>1. {j \in s : 0 <= j /\ j < k} \subseteq s
      OBVIOUS
    <3> QED BY <3>1, FS_Subset DEF IsIndexSet, Below, CountIn
  <2> QED BY <2>1
<1>3. \A k \in Nat : Unshift(s, k) = k - Below(s, k) /\ Below(s, k) \in Nat
  BY BelowNext DEF Unshift, Below
<1> HIDE DEF c
<1>4. i + c \in Past
  <2>1. Below(s, i + c + 1) <= c /\ Below(s, i + c + 1) \in Nat /\ i + c + 1 \in Nat
    BY <1>1, <1>2, BelowNext
  <2> QED BY <1>1, <1>3, <2>1
<1>5. PICK k \in Past : \A j \in Past : k <= j
  BY <1>4, LeastNatural, Zenon
<1>6. k \in Nat /\ k <= i + c /\ Unshift(s, k + 1) > i
  BY <1>4, <1>5
<1>7. Unshift(s, k) <= i
  <2>1. CASE k = 0
    BY <2>1, <1>3, BelowNext
  <2>2. CASE k > 0
    <3>1. k - 1 \in Nat /\ k - 1 \notin Past /\ (k - 1) + 1 = k
      BY <1>5, <1>6, <2>2
    <3> QED BY <1>3, <1>6, <3>1
  <2> QED BY <1>6, <2>1, <2>2
<1> HIDE DEF Past
<1>8. Below(s, k + 1) = IF k \in s THEN Below(s, k) + 1 ELSE Below(s, k)
  BY <1>6, BelowNext
<1>9. k + 1 \in Nat /\ Below(s, k) \in Nat /\ Below(s, k + 1) \in Nat
  BY <1>6, BelowNext
<1>10. k \notin s /\ Unshift(s, k) = i
  BY <1>3, <1>6, <1>7, <1>8, <1>9
<1>11. k \in i .. i + c
  BY <1>1, <1>3, <1>6, <1>9, <1>10
<1>12. \E x \in i .. i + Cardinality(s) : x \notin s /\ x - CountIn(s, 0, x) = i
  BY <1>10, <1>11 DEF c, Unshift
<1>13. LET x == Shift(s, i)
       IN x \in i .. i + Cardinality(s) /\ x \notin s /\ x - CountIn(s, 0, x) = i
  BY <1>12 DEF Shift
<1> QED BY <1>1, <1>13 DEF c, Unshift

\* The positions of a collection outside a set of them are numbered from 0 on.
LEMMA UnshiftWithin ==
  ASSUME NEW n \in Nat, NEW s, s \subseteq 0 .. n - 1, NEW i \in Nat, i \notin s
  PROVE  i < n <=> Unshift(s, i) < n - Cardinality(s)
<1>1. IsIndexSet(s) /\ Below(s, n) = Cardinality(s) /\ Cardinality(s) \in Nat
  BY BelowAll
<1>2. Unshift(s, n) = n - Cardinality(s)
  BY <1>1 DEF Unshift, Below
<1>3. i < n => Unshift(s, i) < Unshift(s, n)
  BY <1>1, UnshiftNumbers
<1>4. n <= i => Unshift(s, n) <= Unshift(s, i)
  BY <1>1, UnshiftNumbers
<1>5. Unshift(s, i) \in Nat /\ Unshift(s, n) \in Nat
  BY <1>1, UnshiftNumbers
<1> QED BY <1>2, <1>3, <1>4, <1>5

----------------------------------------------------------------------------
(* Making and closing room for one position                                *)

\* A set of small naturals is finite.
LEMMA SmallIsIndexSet ==
  ASSUME NEW s, NEW n \in Nat, \A i \in s : i \in Nat /\ i < n
  PROVE  s \subseteq 0 .. n - 1 /\ IsIndexSet(s)
<1>1. s \subseteq 0 .. n - 1
  OBVIOUS
<1> QED BY <1>1, BelowAll

\* Which positions InsertRangeAt and ShiftForInsertAt leave in the set.
LEMMA InsertAtHas ==
  ASSUME NEW s, s \subseteq Nat, NEW x \in Nat, NEW k \in Nat
  PROVE  /\ k \in InsertRangeAt(s, x, 1) <=>
              IF k < x THEN k \in s ELSE k = x \/ k - 1 \in s
         /\ k \in ShiftForInsertAt(s, x, 1) <=>
              IF k < x THEN k \in s ELSE k # x /\ k - 1 \in s
<1>1. \A i \in s : i \in Nat
  OBVIOUS
<1>2. k \in ShiftForInsertAt(s, x, 1) <=> \E i \in s : k = IF i < x THEN i ELSE i + 1
  BY DEF ShiftForInsertAt
<1>3. k \in ShiftForInsertAt(s, x, 1) <=> IF k < x THEN k \in s ELSE k # x /\ k - 1 \in s
  <2>1. ASSUME NEW i \in s, k = IF i < x THEN i ELSE i + 1
        PROVE  IF k < x THEN k \in s ELSE k # x /\ k - 1 \in s
    BY <1>1, <2>1
  <2>2. ASSUME k < x, k \in s PROVE \E i \in s : k = IF i < x THEN i ELSE i + 1
    BY <2>2
  <2>3. ASSUME ~(k < x), k # x, k - 1 \in s PROVE \E i \in s : k = IF i < x THEN i ELSE i + 1
    <3>1. ~(k - 1 < x) /\ k = (k - 1) + 1
      BY <2>3
    <3> QED BY <2>3, <3>1
  <2> QED BY <1>2, <2>1, <2>2, <2>3
<1>4. x .. x + 1 - 1 = {x}
  OBVIOUS
<1>5. k \in InsertRangeAt(s, x, 1) <=> k \in ShiftForInsertAt(s, x, 1) \/ k = x
  BY <1>4 DEF InsertRangeAt
<1> QED BY <1>3, <1>5

\* Unshift for one deleted position.
LEMMA UnshiftOne ==
  ASSUME NEW x \in Nat, NEW i \in Nat
  PROVE  Unshift({x}, i) = IF x < i THEN i - 1 ELSE i
<1>1. {j \in {x} : 0 <= j /\ j < i} = IF x < i THEN {x} ELSE {}
  OBVIOUS
<1>2. Cardinality({x}) = 1 /\ Cardinality({}) = 0
  BY FS_Singleton, FS_EmptySet
<1>3. Unshift({x}, i) = i - Cardinality({j \in {x} : 0 <= j /\ j < i})
  BY DEF Unshift, CountIn
<1>4. CASE x < i
  BY <1>1, <1>2, <1>3, <1>4
<1>5. CASE ~(x < i)
  BY <1>1, <1>2, <1>3, <1>5
<1> QED BY <1>4, <1>5

\* Which positions EraseAt leaves in the set.
LEMMA EraseAtHas ==
  ASSUME NEW s, s \subseteq Nat, NEW x \in Nat, NEW k \in Nat
  PROVE  k \in EraseAt(s, x) <=> IF k < x THEN k \in s ELSE k + 1 \in s
<1>1. \A i \in s : i \in Nat
  OBVIOUS
<1>2. k \in EraseAt(s, x) <=> \E i \in s \ {x} : k = Unshift({x}, i)
  BY DEF EraseAt, EraseAtAll
<1>3. k \in EraseAt(s, x) <=> \E i \in s \ {x} : k = IF x < i THEN i - 1 ELSE i
  BY <1>1, <1>2, UnshiftOne
<1>4. ASSUME NEW i \in s \ {x}, k = IF x < i THEN i - 1 ELSE i
      PROVE  IF k < x THEN k \in s ELSE k + 1 \in s
  BY <1>1, <1>4
<1>5. ASSUME k < x, k \in s PROVE \E i \in s \ {x} : k = IF x < i THEN i - 1 ELSE i
  BY <1>5
<1>6. ASSUME ~(k < x), k + 1 \in s PROVE \E i \in s \ {x} : k = IF x < i THEN i - 1 ELSE i
  <2>1. x < k + 1 /\ k = (k + 1) - 1 /\ k + 1 # x
    BY <1>6
  <2> QED BY <1>6, <2>1
<1> QED BY <1>3, <1>4, <1>5, <1>6

\* They are natural numbers.
LEMMA ShiftedAreNat ==
  ASSUME NEW s, s \subseteq Nat, NEW x \in Nat
  PROVE  InsertRangeAt(s, x, 1) \subseteq Nat /\ ShiftForInsertAt(s, x, 1) \subseteq Nat
         /\ EraseAt(s, x) \subseteq Nat
<1>1. \A i \in s : i \in Nat
  OBVIOUS
<1>2. ShiftForInsertAt(s, x, 1) \subseteq Nat
  BY <1>1 DEF ShiftForInsertAt
<1>3. x .. x + 1 - 1 \subseteq Nat
  OBVIOUS
<1>4. InsertRangeAt(s, x, 1) \subseteq Nat
  BY <1>2, <1>3 DEF InsertRangeAt
<1>5. ASSUME NEW k \in EraseAt(s, x) PROVE k \in Nat
  <2>1. PICK i \in s \ {x} : k = Unshift({x}, i)
    BY <1>5 DEF EraseAt, EraseAtAll
  <2>2. i \in Nat /\ i # x /\ k = IF x < i THEN i - 1 ELSE i
    BY <1>1, <2>1, UnshiftOne
  <2> QED BY <2>2
<1> QED BY <1>2, <1>4, <1>5

\* Inserting a position makes t of s: the numbers of the others stay.
Insertion(n, s, x, t) ==
  /\ t \subseteq 0 .. n
  /\ Cardinality(t) = Cardinality(s) + 1
  /\ \A k \in Nat : k \in t <=> IF k < x THEN k \in s ELSE k = x \/ k - 1 \in s
  /\ \A k \in Nat : k < x => Unshift(t, k) = Unshift(s, k)
  /\ \A k \in Nat : k > x => Unshift(t, k) = Unshift(s, k - 1)

\* insert_at numbers the positions that way.
LEMMA InsertAtNumbers ==
  ASSUME NEW n \in Nat, NEW s, s \subseteq 0 .. n - 1, NEW x \in Nat, x <= n,
         NEW t, t = InsertRangeAt(s, x, 1)
  PROVE  Insertion(n, s, x, t)
<1>1. IsIndexSet(s) /\ Below(s, n) = Cardinality(s) /\ Cardinality(s) \in Nat /\ s \subseteq Nat
  BY BelowAll DEF IsIndexSet
<1>2. x \in Nat /\ n + 1 \in Nat /\ (n + 1) - 1 = n
  OBVIOUS
<1>3. t \subseteq Nat
  BY <1>1, <1>2, ShiftedAreNat
<1>4. \A k \in Nat : k \in t <=> IF k < x THEN k \in s ELSE k = x \/ k - 1 \in s
  BY <1>1, <1>2, InsertAtHas
<1>5. ASSUME NEW k \in t PROVE k \in Nat /\ k < n + 1
  <2>1. k \in Nat
    BY <1>3
  <2> QED BY <1>4, <2>1
<1>6. t \subseteq 0 .. n /\ IsIndexSet(t)
  BY <1>2, <1>5, SmallIsIndexSet
<1>7. ASSUME NEW k \in Nat, k <= x PROVE Below(t, k) = Below(s, k)
  <2>1. Alike(s, 0, t, 0, k)
    BY <1>2, <1>4, <1>7 DEF Alike
  <2>2. Below(s, 0 + k) - Below(s, 0) = Below(t, 0 + k) - Below(t, 0)
    BY <1>1, <1>6, <2>1, BelowAlike
  <2>3. Below(s, 0) = 0 /\ Below(t, 0) = 0 /\ Below(s, k) \in Nat /\ Below(t, k) \in Nat
    BY <1>1, <1>6, BelowNext
  <2> QED BY <2>2, <2>3
<1>8. ASSUME NEW k \in Nat, k > x PROVE Below(t, k) = Below(s, k - 1) + 1
  <2>1. k - (x + 1) \in Nat /\ x + (k - (x + 1)) = k - 1 /\ (x + 1) + (k - (x + 1)) = k
        /\ x + 1 \in Nat /\ k - 1 \in Nat
    BY <1>2, <1>8
  <2>2. Alike(s, x, t, x + 1, k - (x + 1))
    BY <1>2, <1>4 DEF Alike
  <2>3. Below(s, k - 1) - Below(s, x) = Below(t, k) - Below(t, x + 1)
    BY <1>1, <1>2, <1>6, <2>1, <2>2, BelowAlike
  <2>4. Below(t, x + 1) = Below(t, x) + 1
    BY <1>2, <1>4, <1>6, BelowNext
  <2>5. Below(t, x) = Below(s, x)
    BY <1>2, <1>7
  <2>6. Below(s, k - 1) \in Nat /\ Below(s, x) \in Nat /\ Below(t, k) \in Nat
    BY <1>1, <1>2, <1>6, <2>1, BelowNext
  <2> QED BY <2>3, <2>4, <2>5, <2>6
<1>9. Cardinality(t) = Cardinality(s) + 1
  <2>1. Below(t, n + 1) = Cardinality(t)
    BY <1>2, <1>6, BelowAll
  <2>2. Below(t, n + 1) = Below(s, n) + 1
    BY <1>2, <1>8
  <2> QED BY <1>1, <2>1, <2>2
<1>10. \A k \in Nat : k < x => Unshift(t, k) = Unshift(s, k)
  BY <1>2, <1>7 DEF Unshift, Below
<1>11. ASSUME NEW k \in Nat, k > x PROVE Unshift(t, k) = Unshift(s, k - 1)
  <2>1. Unshift(t, k) = k - Below(t, k) /\ Unshift(s, k - 1) = (k - 1) - Below(s, k - 1)
    BY DEF Unshift, Below
  <2>2. k - 1 \in Nat
    BY <1>2, <1>11
  <2>3. Below(s, k - 1) \in Nat
    BY <1>1, <2>2, BelowNext
  <2> QED BY <1>8, <1>11, <2>1, <2>3
<1> QED BY <1>4, <1>6, <1>9, <1>10, <1>11 DEF Insertion

\* Erasing one: those of the later positions decrease, if it was not in the set.
Erasure(n, s, x, t) ==
  /\ t \subseteq 0 .. n - 2
  /\ x \in s => Cardinality(t) = Cardinality(s) - 1
  /\ x \notin s => Cardinality(t) = Cardinality(s)
  /\ \A k \in Nat : k \in t <=> IF k < x THEN k \in s ELSE k + 1 \in s
  /\ \A k \in Nat : k < x => Unshift(t, k) = Unshift(s, k)
  /\ x \in s => \A k \in Nat : k >= x => Unshift(t, k) = Unshift(s, k + 1)
  /\ x \notin s => \A k \in Nat : k >= x => Unshift(t, k) = Unshift(s, k + 1) - 1

\* erase_at numbers them that way.
LEMMA EraseAtNumbers ==
  ASSUME NEW n \in Nat, NEW s, s \subseteq 0 .. n - 1, NEW x \in Nat, x < n,
         NEW t, t = EraseAt(s, x)
  PROVE  Erasure(n, s, x, t)
<1>1. IsIndexSet(s) /\ Below(s, n) = Cardinality(s) /\ Cardinality(s) \in Nat /\ s \subseteq Nat
  BY BelowAll DEF IsIndexSet
<1>2. x \in Nat /\ n - 1 \in Nat /\ (n - 1) - 1 = n - 2 /\ x <= n - 1
  OBVIOUS
<1>3. t \subseteq Nat
  BY <1>1, <1>2, ShiftedAreNat
<1>4. \A k \in Nat : k \in t <=> IF k < x THEN k \in s ELSE k + 1 \in s
  BY <1>1, <1>2, EraseAtHas
<1>4a. \A k \in s : k \in Nat /\ k < n
  OBVIOUS
<1>5. ASSUME NEW k \in t PROVE k \in Nat /\ k < n - 1
  <2>1. k \in Nat
    BY <1>3
  <2> QED BY <1>2, <1>4, <1>4a, <2>1
<1>6. t \subseteq 0 .. n - 2 /\ IsIndexSet(t)
  BY <1>2, <1>5, SmallIsIndexSet
<1>7. ASSUME NEW k \in Nat, k <= x PROVE Below(t, k) = Below(s, k)
  <2>1. Alike(s, 0, t, 0, k)
    BY <1>2, <1>4, <1>7 DEF Alike
  <2>2. Below(s, 0 + k) - Below(s, 0) = Below(t, 0 + k) - Below(t, 0)
    BY <1>1, <1>6, <2>1, BelowAlike
  <2>3. Below(s, 0) = 0 /\ Below(t, 0) = 0 /\ Below(s, k) \in Nat /\ Below(t, k) \in Nat
    BY <1>1, <1>6, BelowNext
  <2> QED BY <2>2, <2>3
<1>8. ASSUME NEW k \in Nat, k >= x
      PROVE  Below(t, k) = IF x \in s THEN Below(s, k + 1) - 1 ELSE Below(s, k + 1)
  <2>1. k - x \in Nat /\ x + (k - x) = k /\ (x + 1) + (k - x) = k + 1
        /\ x + 1 \in Nat /\ k + 1 \in Nat
    BY <1>2, <1>8
  <2>2. Alike(s, x + 1, t, x, k - x)
    BY <1>2, <1>4 DEF Alike
  <2>3. Below(s, k + 1) - Below(s, x + 1) = Below(t, k) - Below(t, x)
    BY <1>1, <1>2, <1>6, <2>1, <2>2, BelowAlike
  <2>4. Below(s, x + 1) = IF x \in s THEN Below(s, x) + 1 ELSE Below(s, x)
    BY <1>1, <1>2, BelowNext
  <2>5. Below(t, x) = Below(s, x)
    BY <1>2, <1>7
  <2>6. Below(s, k + 1) \in Nat /\ Below(s, x) \in Nat /\ Below(t, k) \in Nat
    BY <1>1, <1>2, <1>6, <2>1, BelowNext
  <2> QED BY <2>3, <2>4, <2>5, <2>6
<1>9. Cardinality(t) = IF x \in s THEN Cardinality(s) - 1 ELSE Cardinality(s)
  <2>1. Below(t, n - 1) = Cardinality(t)
    BY <1>2, <1>6, BelowAll
  <2>2. Below(t, n - 1) = IF x \in s THEN Below(s, (n - 1) + 1) - 1 ELSE Below(s, (n - 1) + 1)
    BY <1>2, <1>8
  <2>3. (n - 1) + 1 = n
    OBVIOUS
  <2> QED BY <1>1, <2>1, <2>2, <2>3
<1>10. \A k \in Nat : k < x => Unshift(t, k) = Unshift(s, k)
  BY <1>2, <1>7 DEF Unshift, Below
<1>11. ASSUME NEW k \in Nat, k >= x
       PROVE  Unshift(t, k) = IF x \in s THEN Unshift(s, k + 1) ELSE Unshift(s, k + 1) - 1
  <2>1. Unshift(t, k) = k - Below(t, k) /\ Unshift(s, k + 1) = (k + 1) - Below(s, k + 1)
    BY DEF Unshift, Below
  <2>2. Below(s, k + 1) \in Nat
    BY <1>1, BelowNext
  <2> QED BY <1>8, <1>11, <2>1, <2>2
<1> QED BY <1>4, <1>6, <1>9, <1>10, <1>11 DEF Erasure

\* Adding an index: the numbers of the later positions decrease.
LEMMA AddNumbers ==
  ASSUME NEW s, IsIndexSet(s), NEW o \in Nat, o \notin s
  PROVE  /\ IsIndexSet(s \cup {o})
         /\ Cardinality(s \cup {o}) = Cardinality(s) + 1
         /\ \A k \in Nat : Unshift(s \cup {o}, k) =
                             IF o < k THEN Unshift(s, k) - 1 ELSE Unshift(s, k)
<1>1. IsFiniteSet(s) /\ s \subseteq Nat
  BY DEF IsIndexSet
<1>2. IsIndexSet(s \cup {o}) /\ Cardinality(s \cup {o}) = Cardinality(s) + 1
  BY <1>1, FS_AddElement DEF IsIndexSet
<1>3. ASSUME NEW k \in Nat
      PROVE  Unshift(s \cup {o}, k) = IF o < k THEN Unshift(s, k) - 1 ELSE Unshift(s, k)
  <2> DEFINE L == {i \in s : 0 <= i /\ i < k}
             M == {i \in s \cup {o} : 0 <= i /\ i < k}
  <2>1. M = IF o < k THEN L \cup {o} ELSE L
    OBVIOUS
  <2>2. IsFiniteSet(L) /\ o \notin L
    BY <1>1, FS_Subset
  <2>3. Cardinality(L) \in Nat /\ Cardinality(L \cup {o}) = Cardinality(L) + 1
    BY <2>2, FS_CardinalityType, FS_AddElement
  <2>4. Unshift(s \cup {o}, k) = k - Cardinality(M) /\ Unshift(s, k) = k - Cardinality(L)
    BY DEF Unshift, CountIn
  <2> HIDE DEF L, M
  <2> QED BY <2>1, <2>3, <2>4
<1> QED BY <1>2, <1>3

----------------------------------------------------------------------------
(* Lists                                                                   *)

\* A list with an entry more.
EntryMore(list, x, e, new) ==
  /\ new \in Seq(Nat) /\ Len(new) = Len(list) + 1
  /\ \A k \in 0 .. Len(list) :
       Entry(new, k) = IF k < x THEN Entry(list, k) ELSE IF k = x THEN e ELSE Entry(list, k - 1)

\* With puts the entry in.
LEMMA WithEntries ==
  ASSUME NEW list \in Seq(Nat), NEW x \in Nat, x <= Len(list), NEW e \in Nat
  PROVE  EntryMore(list, x, e, With(list, x, e))
<1> DEFINE a == SubSeq(list, 1, x)
           b == SubSeq(list, x + 1, Len(list))
<1>1. Len(list) \in Nat /\ x \in Nat /\ x <= Len(list)
  OBVIOUS
<1>2. a \in Seq(Nat) /\ Len(a) = x /\ \A k \in 1 .. x : a[k] = list[k]
  BY <1>1
<1>3. b \in Seq(Nat) /\ Len(b) = Len(list) - x /\ \A k \in 1 .. Len(list) - x : b[k] = list[x + k]
  BY <1>1
<1> HIDE DEF a, b
<1>4. /\ a \o <<e>> \in Seq(Nat) /\ Len(a \o <<e>>) = x + 1
      /\ \A k \in 1 .. x : (a \o <<e>>)[k] = a[k]
      /\ (a \o <<e>>)[x + 1] = e
  BY <1>1, <1>2
<1> DEFINE c == a \o <<e>>
<1> HIDE DEF c
<1>5. /\ c \o b \in Seq(Nat) /\ Len(c \o b) = Len(list) + 1
      /\ \A k \in 1 .. x + 1 : (c \o b)[k] = c[k]
      /\ \A k \in x + 2 .. Len(list) + 1 : (c \o b)[k] = b[k - (x + 1)]
  <2>1. c \in Seq(Nat) /\ Len(c) = x + 1
    BY <1>4 DEF c
  <2>2. /\ c \o b \in Seq(Nat) /\ Len(c \o b) = Len(c) + Len(b)
        /\ \A i \in 1 .. Len(c) + Len(b) : (c \o b)[i] =
              IF i <= Len(c) THEN c[i] ELSE b[i - Len(c)]
    BY <1>3, <2>1, ConcatProperties
  <2>3. Len(c) + Len(b) = Len(list) + 1
    BY <1>1, <1>3, <2>1
  <2>4. ASSUME NEW k \in 1 .. x + 1 PROVE (c \o b)[k] = c[k]
    <3>1. k \in 1 .. Len(c) + Len(b) /\ k <= Len(c)
      BY <1>1, <2>1, <2>3
    <3> QED BY <2>2, <3>1
  <2>5. ASSUME NEW k \in x + 2 .. Len(list) + 1 PROVE (c \o b)[k] = b[k - (x + 1)]
    <3>1. k \in 1 .. Len(c) + Len(b) /\ ~(k <= Len(c))
      BY <1>1, <2>1, <2>3
    <3>2. (c \o b)[k] = b[k - Len(c)]
      BY <2>2, <3>1
    <3> QED BY <2>1, <3>2
  <2> QED BY <2>2, <2>3, <2>4, <2>5
<1>6. With(list, x, e) = c \o b
  BY DEF With, a, b, c
<1>7. ASSUME NEW k \in 0 .. Len(list)
      PROVE  (c \o b)[k + 1] = IF k < x THEN list[k + 1] ELSE IF k = x THEN e ELSE list[(k - 1) + 1]
  <2>1. CASE k < x
    <3>1. k + 1 \in 1 .. x /\ k + 1 \in 1 .. x + 1
      BY <1>1, <2>1
    <3> QED BY <1>2, <1>4, <1>5, <2>1, <3>1 DEF c
  <2>2. CASE k = x
    <3>1. k + 1 \in 1 .. x + 1
      BY <1>1, <2>2
    <3> QED BY <1>4, <1>5, <2>2, <3>1 DEF c
  <2>3. CASE k > x
    <3>1. k + 1 \in x + 2 .. Len(list) + 1 /\ (k + 1) - (x + 1) \in 1 .. Len(list) - x
          /\ x + ((k + 1) - (x + 1)) = (k - 1) + 1
      BY <1>1, <2>3
    <3>2. (c \o b)[k + 1] = b[(k + 1) - (x + 1)]
      BY <1>5, <3>1
    <3>3. b[(k + 1) - (x + 1)] = list[x + ((k + 1) - (x + 1))]
      BY <1>3, <3>1
    <3>4. (c \o b)[k + 1] = list[(k - 1) + 1]
      BY <3>1, <3>2, <3>3, Zenon
    <3> QED BY <1>1, <2>3, <3>4
  <2>4. k < x \/ k = x \/ k > x
    BY <1>1
  <2> QED BY <2>1, <2>2, <2>3, <2>4, Zenon
<1>8. ASSUME NEW k \in 0 .. Len(list)
      PROVE  Entry(With(list, x, e), k) =
                IF k < x THEN Entry(list, k) ELSE IF k = x THEN e ELSE Entry(list, k - 1)
  <2>1. Entry(With(list, x, e), k) = (c \o b)[k + 1]
    BY <1>6 DEF Entry
  <2>2. (c \o b)[k + 1] = IF k < x THEN list[k + 1] ELSE IF k = x THEN e ELSE list[(k - 1) + 1]
    BY <1>7
  <2>3. Entry(list, k) = list[k + 1] /\ Entry(list, k - 1) = list[(k - 1) + 1]
    BY DEF Entry
  <2> QED BY <2>1, <2>2, <2>3, Zenon
<1> QED BY <1>5, <1>6, <1>8 DEF EntryMore

\* A list without one of its entries.
EntryLess(list, x, new) ==
  /\ new \in Seq(Nat) /\ Len(new) = Len(list) - 1
  /\ \A k \in 0 .. Len(list) - 2 :
       Entry(new, k) = IF k < x THEN Entry(list, k) ELSE Entry(list, k + 1)

\* Without takes it out.
LEMMA WithoutEntries ==
  ASSUME NEW list \in Seq(Nat), NEW x \in Nat, x < Len(list)
  PROVE  EntryLess(list, x, Without(list, x))
<1> DEFINE a == SubSeq(list, 1, x)
           b == SubSeq(list, x + 2, Len(list))
<1>1. Len(list) \in Nat /\ x \in Nat /\ x < Len(list)
  OBVIOUS
<1>2. a \in Seq(Nat) /\ Len(a) = x /\ \A k \in 1 .. x : a[k] = list[k]
  BY <1>1
<1>3. b \in Seq(Nat) /\ Len(b) = Len(list) - x - 1
      /\ \A k \in 1 .. Len(list) - x - 1 : b[k] = list[x + 1 + k]
  BY <1>1
<1> HIDE DEF a, b
<1>4. /\ a \o b \in Seq(Nat) /\ Len(a \o b) = Len(list) - 1
      /\ \A k \in 1 .. x : (a \o b)[k] = a[k]
      /\ \A k \in x + 1 .. Len(list) - 1 : (a \o b)[k] = b[k - x]
  <2>2. /\ a \o b \in Seq(Nat) /\ Len(a \o b) = Len(a) + Len(b)
        /\ \A i \in 1 .. Len(a) + Len(b) : (a \o b)[i] =
              IF i <= Len(a) THEN a[i] ELSE b[i - Len(a)]
    BY <1>2, <1>3, ConcatProperties
  <2>3. Len(a) + Len(b) = Len(list) - 1
    BY <1>1, <1>2, <1>3
  <2>4. ASSUME NEW k \in 1 .. x PROVE (a \o b)[k] = a[k]
    <3>1. k \in 1 .. Len(a) + Len(b) /\ k <= Len(a)
      BY <1>1, <1>2, <2>3
    <3> QED BY <2>2, <3>1
  <2>5. ASSUME NEW k \in x + 1 .. Len(list) - 1 PROVE (a \o b)[k] = b[k - x]
    <3>1. k \in 1 .. Len(a) + Len(b) /\ ~(k <= Len(a))
      BY <1>1, <1>2, <2>3
    <3>2. (a \o b)[k] = b[k - Len(a)]
      BY <2>2, <3>1
    <3> QED BY <1>2, <3>2
  <2> QED BY <2>2, <2>3, <2>4, <2>5
<1>5. Without(list, x) = a \o b
  BY DEF Without, a, b
<1>6. ASSUME NEW k \in 0 .. Len(list) - 2
      PROVE  (a \o b)[k + 1] = IF k < x THEN list[k + 1] ELSE list[(k + 1) + 1]
  <2>1. CASE k < x
    <3>1. k + 1 \in 1 .. x
      BY <1>1, <2>1
    <3> QED BY <1>2, <1>4, <2>1, <3>1
  <2>2. CASE k >= x
    <3>1. k + 1 \in x + 1 .. Len(list) - 1 /\ (k + 1) - x \in 1 .. Len(list) - x - 1
          /\ x + 1 + ((k + 1) - x) = (k + 1) + 1
      BY <1>1, <2>2
    <3>2. (a \o b)[k + 1] = b[(k + 1) - x]
      BY <1>4, <3>1
    <3>3. b[(k + 1) - x] = list[x + 1 + ((k + 1) - x)]
      BY <1>3, <3>1
    <3>4. (a \o b)[k + 1] = list[(k + 1) + 1]
      BY <3>1, <3>2, <3>3, Zenon
    <3> QED BY <1>1, <2>2, <3>4
  <2>3. k < x \/ k >= x
    BY <1>1
  <2> QED BY <2>1, <2>2, <2>3, Zenon
<1>7. ASSUME NEW k \in 0 .. Len(list) - 2
      PROVE  Entry(Without(list, x), k) = IF k < x THEN Entry(list, k) ELSE Entry(list, k + 1)
  <2>1. Entry(Without(list, x), k) = (a \o b)[k + 1]
    BY <1>5 DEF Entry
  <2>2. (a \o b)[k + 1] = IF k < x THEN list[k + 1] ELSE list[(k + 1) + 1]
    BY <1>6
  <2>3. Entry(list, k) = list[k + 1] /\ Entry(list, k + 1) = list[(k + 1) + 1]
    BY DEF Entry
  <2> QED BY <2>1, <2>2, <2>3, Zenon
<1> QED BY <1>4, <1>5, <1>7 DEF EntryLess

----------------------------------------------------------------------------
(* Deletions and insertions that take one list to another                  *)

\* Takes, of the two sets alone
Leads(D, I, old, new) ==
  /\ old \in Seq(Nat) /\ new \in Seq(Nat)
  /\ Takes([deletions |-> D, insertions |-> I], old, new)

\* entries with the same number are the same
Correspond(D, I, old, new) ==
  \A i, j \in Nat : /\ i < Len(old) /\ i \notin D /\ j < Len(new) /\ j \notin I
                    /\ Unshift(D, i) = Unshift(I, j)
                    => Entry(old, i) = Entry(new, j)

\* The parts of Leads.
LEMMA LeadsIs ==
  ASSUME NEW D, NEW I, NEW old, NEW new
  PROVE  Leads(D, I, old, new) <=>
           /\ old \in Seq(Nat) /\ new \in Seq(Nat)
           /\ D \subseteq 0 .. Len(old) - 1 /\ I \subseteq 0 .. Len(new) - 1
           /\ Len(old) - Cardinality(D) = Len(new) - Cardinality(I)
           /\ Correspond(D, I, old, new)
<1>1. CASE old \in Seq(Nat) /\ new \in Seq(Nat)
  <2>1. Len(old) \in Nat /\ Len(new) \in Nat
    BY <1>1
  <2>2. Correspond(D, I, old, new) <=>
          \A i \in (0 .. Len(old) - 1) \ D, j \in (0 .. Len(new) - 1) \ I :
            Unshift(D, i) = Unshift(I, j) => Entry(old, i) = Entry(new, j)
    <3>1. \A i : i \in (0 .. Len(old) - 1) \ D <=> i \in Nat /\ i < Len(old) /\ i \notin D
      BY <2>1
    <3>2. \A i : i \in (0 .. Len(new) - 1) \ I <=> i \in Nat /\ i < Len(new) /\ i \notin I
      BY <2>1
    <3> QED BY <3>1, <3>2, Zenon DEF Correspond
  <2> QED BY <1>1, <2>2, Zenon DEF Leads, Takes, Positions
<1>2. CASE ~(old \in Seq(Nat) /\ new \in Seq(Nat))
  BY <1>2 DEF Leads
<1> QED BY <1>1, <1>2

\* Takes says nothing of the rest of a change.
LEMMA TakesLeads ==
  ASSUME NEW b, NEW old \in Seq(Nat), NEW new \in Seq(Nat)
  PROVE  Takes(b, old, new) <=> Leads(b.deletions, b.insertions, old, new)
BY DEF Leads, Takes

\* What is known of the sets.
Known(D, I, old, new) ==
  /\ Len(old) \in Nat /\ Len(new) \in Nat
  /\ Cardinality(D) \in Nat /\ Cardinality(I) \in Nat
  /\ Len(old) - Cardinality(D) = Len(new) - Cardinality(I)
  /\ IsIndexSet(D) /\ IsIndexSet(I) /\ D \subseteq Nat /\ I \subseteq Nat

\* They are sets of indexes.
LEMMA LeadsKnown ==
  ASSUME NEW D, NEW I, NEW old, NEW new, Leads(D, I, old, new)
  PROVE  Known(D, I, old, new)
<1>1. old \in Seq(Nat) /\ new \in Seq(Nat)
  BY LeadsIs
<1>2. Len(old) \in Nat /\ Len(new) \in Nat
  BY <1>1
<1>3. D \subseteq 0 .. Len(old) - 1 /\ I \subseteq 0 .. Len(new) - 1
      /\ Len(old) - Cardinality(D) = Len(new) - Cardinality(I)
  BY LeadsIs, Zenon
<1>4. IsIndexSet(D) /\ IsIndexSet(I) /\ Cardinality(D) \in Nat /\ Cardinality(I) \in Nat
  BY <1>2, <1>3, BelowAll
<1> QED BY <1>2, <1>3, <1>4 DEF Known, IsIndexSet

\* How Leads is shown of a changed list.
LEMMA LeadsOn ==
  ASSUME NEW D, NEW I, NEW old, NEW new, NEW n \in Nat, NEW c \in Nat, NEW d \in Nat,
         old \in Seq(Nat), new \in Seq(Nat), Len(new) = n,
         D \subseteq 0 .. Len(old) - 1, I \subseteq 0 .. n - 1,
         Cardinality(D) = d, Cardinality(I) = c, Len(old) - d = n - c,
         Correspond(D, I, old, new)
  PROVE  Leads(D, I, old, new)
<1>1. I \subseteq 0 .. Len(new) - 1 /\ Len(old) - Cardinality(D) = Len(new) - Cardinality(I)
  OBVIOUS
<1> QED BY <1>1, LeadsIs, Zenon

\* An entry more in the new list.
LEMMA InsertLeads ==
  ASSUME NEW D, NEW I, NEW old, NEW new, Leads(D, I, old, new),
         NEW x \in Nat, x <= Len(new), NEW e \in Nat
  PROVE  Leads(D, InsertRangeAt(I, x, 1), old, With(new, x, e))
<1> DEFINE t == InsertRangeAt(I, x, 1)
           list == With(new, x, e)
           n == Len(new)
<1>1. Known(D, I, old, new)
  BY LeadsKnown
<1>2. /\ old \in Seq(Nat) /\ new \in Seq(Nat)
      /\ D \subseteq 0 .. Len(old) - 1 /\ I \subseteq 0 .. n - 1
  BY LeadsIs, Zenon
<1>3. Correspond(D, I, old, new)
  BY LeadsIs, Zenon
<1>4. n \in Nat /\ Len(old) \in Nat /\ Cardinality(I) \in Nat /\ Cardinality(D) \in Nat
      /\ Len(old) - Cardinality(D) = n - Cardinality(I)
  BY <1>1 DEF Known
<1>5. Insertion(n, I, x, t)
  BY <1>2, <1>4, InsertAtNumbers
<1>6. EntryMore(new, x, e, list)
  BY <1>2, WithEntries
<1> HIDE DEF t, list
<1>7. Correspond(D, t, old, list)
  <2> SUFFICES ASSUME NEW i \in Nat, NEW j \in Nat, i < Len(old), i \notin D,
                      j < Len(list), j \notin t, Unshift(D, i) = Unshift(t, j)
               PROVE  Entry(old, i) = Entry(list, j)
    BY DEF Correspond
  <2>1. j <= n /\ j # x /\ j \in 0 .. n /\ (j < x => j \notin I) /\ (j > x => j - 1 \notin I)
    BY <1>4, <1>5, <1>6 DEF Insertion, EntryMore
  <2>2. CASE j < x
    <3>1. j < n /\ j \notin I /\ Unshift(t, j) = Unshift(I, j)
      BY <1>4, <1>5, <2>1, <2>2 DEF Insertion
    <3>2. Entry(list, j) = Entry(new, j)
      BY <1>6, <2>1, <2>2 DEF EntryMore
    <3> QED BY <1>3, <3>1, <3>2 DEF Correspond
  <2>3. CASE j > x
    <3>1. j - 1 \in Nat /\ j - 1 < n /\ j - 1 \notin I
      BY <1>4, <2>1, <2>3
    <3>2. Unshift(t, j) = Unshift(I, j - 1)
      BY <1>5, <2>3 DEF Insertion
    <3>3. Entry(list, j) = Entry(new, j - 1)
      BY <1>6, <2>1, <2>3 DEF EntryMore
    <3>4. Entry(old, i) = Entry(new, j - 1)
      BY <1>3, <3>1, <3>2 DEF Correspond
    <3> QED BY <3>3, <3>4
  <2> QED BY <2>1, <2>2, <2>3
<1>8. list \in Seq(Nat) /\ Len(list) = n + 1 /\ n + 1 \in Nat /\ (n + 1) - 1 = n
  BY <1>4, <1>6 DEF EntryMore
<1>9. t \subseteq 0 .. (n + 1) - 1 /\ Cardinality(t) = Cardinality(I) + 1
  BY <1>5, <1>8 DEF Insertion
<1>10. Cardinality(I) + 1 \in Nat /\ Len(old) - Cardinality(D) = (n + 1) - (Cardinality(I) + 1)
  BY <1>4
<1>11. Leads(D, t, old, list)
  BY <1>2, <1>4, <1>7, <1>8, <1>9, <1>10, LeadsOn
<1> QED BY <1>11 DEF t, list

\* An entry less that was inserted before.
LEMMA EraseInsertedLeads ==
  ASSUME NEW D, NEW I, NEW old, NEW new, Leads(D, I, old, new), NEW x \in I
  PROVE  Leads(D, EraseAt(I, x), old, Without(new, x))
<1> DEFINE t == EraseAt(I, x)
           list == Without(new, x)
           n == Len(new)
<1>1. Known(D, I, old, new)
  BY LeadsKnown
<1>2. /\ old \in Seq(Nat) /\ new \in Seq(Nat)
      /\ D \subseteq 0 .. Len(old) - 1 /\ I \subseteq 0 .. n - 1
  BY LeadsIs, Zenon
<1>3. Correspond(D, I, old, new)
  BY LeadsIs, Zenon
<1>4. n \in Nat /\ Len(old) \in Nat /\ Cardinality(I) \in Nat /\ Cardinality(D) \in Nat
      /\ Len(old) - Cardinality(D) = n - Cardinality(I)
  BY <1>1 DEF Known
<1>4a. x \in Nat /\ x < n
  BY <1>2, <1>4
<1>5. Erasure(n, I, x, t)
  BY <1>2, <1>4, <1>4a, EraseAtNumbers
<1>6. EntryLess(new, x, list)
  BY <1>2, <1>4a, WithoutEntries
<1> HIDE DEF t, list
<1>7. Correspond(D, t, old, list)
  <2> SUFFICES ASSUME NEW i \in Nat, NEW j \in Nat, i < Len(old), i \notin D,
                      j < Len(list), j \notin t, Unshift(D, i) = Unshift(t, j)
               PROVE  Entry(old, i) = Entry(list, j)
    BY DEF Correspond
  <2>1. j < n - 1 /\ j \in 0 .. n - 2 /\ (j < x => j \notin I) /\ (j >= x => j + 1 \notin I)
    <3>1. j \in t <=> IF j < x THEN j \in I ELSE j + 1 \in I
      BY <1>5 DEF Erasure
    <3>2. Len(list) = n - 1
      BY <1>6 DEF EntryLess
    <3>3. j < n - 1 /\ j \in 0 .. n - 2
      BY <1>4, <3>2
    <3>4. (j < x => j \notin I) /\ (j >= x => j + 1 \notin I)
      BY <1>4a, <3>1
    <3> QED BY <3>3, <3>4
  <2>2. CASE j < x
    <3>1. j < n /\ j \notin I /\ Unshift(t, j) = Unshift(I, j)
      BY <1>4, <1>5, <2>1, <2>2 DEF Erasure
    <3>2. Entry(list, j) = Entry(new, j)
      BY <1>6, <2>1, <2>2 DEF EntryLess
    <3> QED BY <1>3, <3>1, <3>2 DEF Correspond
  <2>3. CASE j >= x
    <3>1. j + 1 \in Nat /\ j + 1 < n /\ j + 1 \notin I
      BY <1>4, <2>1, <2>3
    <3>2. Unshift(t, j) = Unshift(I, j + 1)
      BY <1>5, <2>3 DEF Erasure
    <3>3. Entry(list, j) = Entry(new, j + 1)
      BY <1>4a, <1>6, <2>1, <2>3 DEF EntryLess
    <3>4. Entry(old, i) = Entry(new, j + 1)
      BY <1>3, <3>1, <3>2 DEF Correspond
    <3> QED BY <3>3, <3>4
  <2> QED BY <1>4a, <2>1, <2>2, <2>3
<1>8. list \in Seq(Nat) /\ Len(list) = n - 1 /\ n - 1 \in Nat /\ (n - 1) - 1 = n - 2
  BY <1>4, <1>4a, <1>6 DEF EntryLess
<1>9. t \subseteq 0 .. (n - 1) - 1 /\ Cardinality(t) = Cardinality(I) - 1
  BY <1>5, <1>8 DEF Erasure
<1>9a. Cardinality(t) \in Nat
  BY <1>8, <1>9, BelowAll
<1>10. Len(old) - Cardinality(D) = (n - 1) - Cardinality(t)
  BY <1>4, <1>9
<1>11. Leads(D, t, old, list)
  BY <1>2, <1>4, <1>7, <1>8, <1>9, <1>9a, <1>10, LeadsOn
<1> QED BY <1>11 DEF t, list

\* Two positions outside a set have different numbers.
LEMMA NumbersApart ==
  ASSUME NEW s, IsIndexSet(s), NEW i \in Nat, i \notin s, NEW j \in Nat, j \notin s
  PROVE  i < j <=> Unshift(s, i) < Unshift(s, j)
<1>1. i < j => Unshift(s, i) < Unshift(s, j)
  BY UnshiftNumbers
<1>2. j <= i => Unshift(s, j) <= Unshift(s, i)
  BY UnshiftNumbers
<1>3. Unshift(s, i) \in Nat /\ Unshift(s, j) \in Nat
  BY UnshiftNumbers
<1> QED BY <1>1, <1>2, <1>3

\* o is where the entry at x of the new list was in the old one
Origin(D, I, old, new, x, o) ==
  /\ o \in Nat /\ o < Len(old) /\ o \notin D
  /\ Unshift(D, o) = Unshift(I, x) /\ Entry(old, o) = Entry(new, x)

\* Shift finds it.
LEMMA OriginRight ==
  ASSUME NEW D, NEW I, NEW old, NEW new, Leads(D, I, old, new),
         NEW x \in Nat, x < Len(new), x \notin I
  PROVE  Origin(D, I, old, new, x, Shift(D, Unshift(I, x)))
<1> DEFINE o == Shift(D, Unshift(I, x))
<1>1. Known(D, I, old, new)
  BY LeadsKnown
<1>2. D \subseteq 0 .. Len(old) - 1 /\ I \subseteq 0 .. Len(new) - 1
  BY LeadsIs, Zenon
<1>2a. Correspond(D, I, old, new)
  BY LeadsIs, Zenon
<1>3. IsIndexSet(D) /\ IsIndexSet(I) /\ Len(old) \in Nat /\ Len(new) \in Nat
  BY <1>1 DEF Known
<1>3a. Cardinality(D) \in Nat /\ Cardinality(I) \in Nat
       /\ Len(old) - Cardinality(D) = Len(new) - Cardinality(I)
  BY <1>1 DEF Known
<1>4. Unshift(I, x) \in Nat
  BY <1>3, UnshiftNumbers
<1>5. o \in Nat /\ o \notin D /\ Unshift(D, o) = Unshift(I, x)
  BY <1>3, <1>4, ShiftInverts
<1> HIDE DEF o
<1>6. Unshift(I, x) < Len(new) - Cardinality(I)
  BY <1>2, <1>3, UnshiftWithin
<1>7. o < Len(old) <=> Unshift(D, o) < Len(old) - Cardinality(D)
  BY <1>2, <1>3, <1>5, UnshiftWithin
<1>8. o < Len(old)
  BY <1>3a, <1>5, <1>6, <1>7
<1>9. Entry(old, o) = Entry(new, x)
  BY <1>2a, <1>5, <1>8 DEF Correspond
<1> QED BY <1>5, <1>8, <1>9 DEF o, Origin

\* Numbers that are equal after one number is left out were equal before.
LEMMA NumbersWithout ==
  ASSUME NEW u \in Nat, NEW v \in Nat, NEW w \in Nat, u # w, v # w,
         (IF w < u THEN u - 1 ELSE u) = (IF w < v THEN v - 1 ELSE v)
  PROVE  u = v
OBVIOUS

\* An entry less that was there before: it is deleted where it was.
LEMMA EraseOtherLeads ==
  ASSUME NEW D, NEW I, NEW old, NEW new, Leads(D, I, old, new),
         NEW x \in Nat, x < Len(new), x \notin I
  PROVE  Leads(D \cup {Shift(D, Unshift(I, x))}, EraseAt(I, x), old, Without(new, x))
<1> DEFINE o == Shift(D, Unshift(I, x))
           d == D \cup {o}
           t == EraseAt(I, x)
           list == Without(new, x)
           n == Len(new)
<1>1. Known(D, I, old, new)
  BY LeadsKnown
<1>2. /\ old \in Seq(Nat) /\ new \in Seq(Nat)
      /\ D \subseteq 0 .. Len(old) - 1 /\ I \subseteq 0 .. n - 1
  BY LeadsIs, Zenon
<1>3. Correspond(D, I, old, new)
  BY LeadsIs, Zenon
<1>4. n \in Nat /\ Len(old) \in Nat /\ Cardinality(I) \in Nat /\ Cardinality(D) \in Nat
      /\ Len(old) - Cardinality(D) = n - Cardinality(I)
  BY <1>1 DEF Known
<1>4a. IsIndexSet(D) /\ IsIndexSet(I)
  BY <1>1 DEF Known
<1>5. Erasure(n, I, x, t)
  BY <1>2, <1>4, EraseAtNumbers
<1>6. EntryLess(new, x, list)
  BY <1>2, WithoutEntries
<1>7. Origin(D, I, old, new, x, o)
  BY OriginRight
<1> HIDE DEF t, list, o
<1>7a. o \in Nat /\ o < Len(old) /\ o \notin D /\ Unshift(D, o) = Unshift(I, x)
  BY <1>7 DEF Origin
<1>8. Cardinality(d) = Cardinality(D) + 1
  BY <1>4a, <1>7a, AddNumbers
<1>9. \A k \in Nat : Unshift(d, k) = IF o < k THEN Unshift(D, k) - 1 ELSE Unshift(D, k)
  BY <1>4a, <1>7a, AddNumbers
<1>10. \A k : k \in d <=> k \in D \/ k = o
  OBVIOUS
<1>11. d \subseteq 0 .. Len(old) - 1
  BY <1>2, <1>4, <1>7a
<1> HIDE DEF d
<1>12. ASSUME NEW i \in Nat, NEW k \in Nat, i < Len(old), i \notin D, i # o,
              k < n, k \notin I, k # x,
              Unshift(d, i) = IF x < k THEN Unshift(I, k) - 1 ELSE Unshift(I, k)
       PROVE  Entry(old, i) = Entry(new, k)
  <2> DEFINE u == Unshift(D, i)
             v == Unshift(I, k)
             w == Unshift(I, x)
  <2>1. (o < i <=> w < u) /\ (i < o <=> u < w)
    BY <1>4a, <1>7a, <1>12, NumbersApart
  <2>2. (x < k <=> w < v) /\ (k < x <=> v < w)
    BY <1>4a, <1>12, NumbersApart
  <2>3. u \in Nat /\ v \in Nat /\ w \in Nat
    BY <1>4a, UnshiftNumbers
  <2>4. Unshift(d, i) = IF o < i THEN u - 1 ELSE u
    BY <1>9
  <2> HIDE DEF u, v, w
  <2>5. (IF w < u THEN u - 1 ELSE u) = (IF w < v THEN v - 1 ELSE v)
    BY <1>12, <2>1, <2>2, <2>4 DEF v
  <2>6. u # w /\ v # w
    <3>1. (o < i \/ i < o) /\ (x < k \/ k < x)
      BY <1>7a, <1>12
    <3> QED BY <2>1, <2>2, <2>3, <3>1
  <2>7. u = v
    BY <2>3, <2>5, <2>6, NumbersWithout
  <2> QED BY <1>3, <1>12, <2>7 DEF Correspond, u, v
<1>13. Correspond(d, t, old, list)
  <2> SUFFICES ASSUME NEW i \in Nat, NEW j \in Nat, i < Len(old), i \notin d,
                      j < Len(list), j \notin t, Unshift(d, i) = Unshift(t, j)
               PROVE  Entry(old, i) = Entry(list, j)
    BY DEF Correspond
  <2>1. j < n - 1 /\ j \in 0 .. n - 2 /\ (j < x => j \notin I) /\ (j >= x => j + 1 \notin I)
    <3>1. j \in t <=> IF j < x THEN j \in I ELSE j + 1 \in I
      BY <1>5 DEF Erasure
    <3>2. Len(list) = n - 1
      BY <1>6 DEF EntryLess
    <3>3. j < n - 1 /\ j \in 0 .. n - 2
      BY <1>4, <3>2
    <3>4. (j < x => j \notin I) /\ (j >= x => j + 1 \notin I)
      BY <3>1
    <3> QED BY <3>3, <3>4
  <2>1a. i \notin D /\ i # o
    BY <1>10
  <2>2. CASE j < x
    <3>1. j < n /\ j \notin I /\ j # x /\ ~(x < j) /\ Unshift(t, j) = Unshift(I, j)
      BY <1>4, <1>5, <2>1, <2>2 DEF Erasure
    <3>2. Entry(list, j) = Entry(new, j)
      BY <1>6, <2>1, <2>2 DEF EntryLess
    <3> QED BY <1>12, <2>1a, <3>1, <3>2
  <2>3. CASE j >= x
    <3>1. j + 1 \in Nat /\ j + 1 < n /\ j + 1 \notin I /\ x < j + 1 /\ j + 1 # x
      BY <1>4, <2>1, <2>3
    <3>2. Unshift(t, j) = Unshift(I, j + 1) - 1
      BY <1>5, <2>3 DEF Erasure
    <3>3. Entry(list, j) = Entry(new, j + 1)
      BY <1>6, <2>1, <2>3 DEF EntryLess
    <3>4. Entry(old, i) = Entry(new, j + 1)
      BY <1>12, <2>1a, <3>1, <3>2
    <3> QED BY <3>3, <3>4
  <2> QED BY <2>1, <2>2, <2>3
<1>14. list \in Seq(Nat) /\ Len(list) = n - 1 /\ n - 1 \in Nat /\ (n - 1) - 1 = n - 2
  BY <1>4, <1>6 DEF EntryLess
<1>15. t \subseteq 0 .. (n - 1) - 1 /\ Cardinality(t) = Cardinality(I)
  BY <1>5, <1>14 DEF Erasure
<1>16. Cardinality(D) + 1 \in Nat /\ Len(old) - (Cardinality(D) + 1) = (n - 1) - Cardinality(I)
  BY <1>4
<1>17. Leads(d, t, old, list)
  BY <1>2, <1>4, <1>8, <1>11, <1>13, <1>14, <1>15, <1>16, LeadsOn
<1> QED BY <1>17 DEF d, o, t, list

----------------------------------------------------------------------------
(* Where single positions go                                               *)

\* where k is with one position more at x, or one less
Up(k, x) == IF k >= x THEN k + 1 ELSE k
Down(k, x) == IF k > x THEN k - 1 ELSE k

\* the positions of the entries of S
PlacesOf(list, S) == {i \in Positions(list) : Entry(list, i) \in S}

\* An entry more: the others go up, with their marks.
LEMMA PlacesUp ==
  ASSUME NEW new, new \in Seq(Nat), NEW x \in Nat, x <= Len(new), NEW e, NEW list,
         EntryMore(new, x, e, list), NEW k \in Nat, k < Len(new)
  PROVE  /\ Up(k, x) \in Nat /\ Up(k, x) < Len(list) /\ Up(k, x) # x
         /\ Entry(list, Up(k, x)) = Entry(new, k)
<1>1. Len(new) \in Nat /\ Len(list) = Len(new) + 1
  BY DEF EntryMore
<1>2. CASE k >= x
  <2>1. Up(k, x) = k + 1 /\ k + 1 \in 0 .. Len(new) /\ ~(k + 1 < x) /\ k + 1 # x
        /\ (k + 1) - 1 = k
    BY <1>1, <1>2 DEF Up
  <2>2. Entry(list, k + 1) = Entry(new, (k + 1) - 1)
    BY <2>1 DEF EntryMore
  <2>3. Entry(list, k + 1) = Entry(new, k)
    BY <2>1, <2>2
  <2> QED BY <1>1, <2>1, <2>3
<1>3. CASE k < x
  <2>1. Up(k, x) = k /\ k \in 0 .. Len(new) /\ k # x
    BY <1>1, <1>3 DEF Up
  <2>2. Entry(list, k) = Entry(new, k)
    BY <1>3, <2>1 DEF EntryMore
  <2> QED BY <1>1, <2>1, <2>2
<1> QED BY <1>2, <1>3

\* The entry itself.
LEMMA PlaceNew ==
  ASSUME NEW new, new \in Seq(Nat), NEW x \in Nat, x <= Len(new), NEW e, NEW list,
         EntryMore(new, x, e, list)
  PROVE  x < Len(list) /\ Entry(list, x) = e /\ Len(list) \in Nat
<1>1. Len(new) \in Nat /\ Len(list) = Len(new) + 1 /\ x \in 0 .. Len(new)
  BY DEF EntryMore
<1> QED BY <1>1 DEF EntryMore

\* Every position but x is one that another went up to.
LEMMA PlacesUpAll ==
  ASSUME NEW n \in Nat, NEW x \in Nat, NEW j \in Nat, j < n + 1, j # x, x <= n
  PROVE  \E k \in Nat : k < n /\ j = Up(k, x)
<1>1. CASE j < x
  BY <1>1 DEF Up
<1>2. CASE j > x
  <2>1. j - 1 \in Nat /\ j - 1 < n /\ j - 1 >= x /\ j = (j - 1) + 1
    BY <1>2
  <2>2. j = Up(j - 1, x)
    BY <2>1 DEF Up
  <2> QED BY <2>1, <2>2
<1> QED BY <1>1, <1>2

\* An entry less: the others go down.
LEMMA PlacesDown ==
  ASSUME NEW new, new \in Seq(Nat), NEW x \in Nat, x < Len(new), NEW list,
         EntryLess(new, x, list), NEW k \in Nat, k < Len(new), k # x
  PROVE  /\ Down(k, x) \in Nat /\ Down(k, x) < Len(list)
         /\ Entry(list, Down(k, x)) = Entry(new, k)
<1>1. Len(new) \in Nat /\ Len(list) = Len(new) - 1
  BY DEF EntryLess
<1>2. CASE k > x
  <2>1. Down(k, x) = k - 1 /\ k - 1 \in 0 .. Len(new) - 2 /\ ~(k - 1 < x)
        /\ (k - 1) + 1 = k
    BY <1>1, <1>2 DEF Down
  <2>2. Entry(list, k - 1) = Entry(new, (k - 1) + 1)
    BY <2>1 DEF EntryLess
  <2>3. Entry(list, k - 1) = Entry(new, k)
    BY <2>1, <2>2
  <2> QED BY <1>1, <2>1, <2>3
<1>3. CASE k < x
  <2>1. Down(k, x) = k /\ k \in 0 .. Len(new) - 2
    BY <1>1, <1>3 DEF Down
  <2>2. Entry(list, k) = Entry(new, k)
    BY <1>3, <2>1 DEF EntryLess
  <2> QED BY <1>1, <2>1, <2>2
<1> QED BY <1>2, <1>3

\* Every position is one that another went down to.
LEMMA PlacesDownAll ==
  ASSUME NEW n \in Nat, NEW x \in Nat, NEW j \in Nat, j < n - 1, x < n
  PROVE  \E k \in Nat : k < n /\ k # x /\ j = Down(k, x)
<1>1. CASE j < x
  <2>1. j = Down(j, x) /\ j < n /\ j # x
    BY <1>1 DEF Down
  <2> QED BY <2>1
<1>2. CASE j >= x
  <2>1. j + 1 \in Nat /\ j + 1 < n /\ j + 1 > x /\ j + 1 # x /\ j = (j + 1) - 1
    BY <1>2
  <2>2. j = Down(j + 1, x)
    BY <2>1 DEF Down
  <2> QED BY <2>1, <2>2
<1> QED BY <1>1, <1>2

\* A set follows its positions.
LEMMA MembersUp ==
  ASSUME NEW s, s \subseteq Nat, NEW x \in Nat, NEW k \in Nat
  PROVE  /\ Up(k, x) \in InsertRangeAt(s, x, 1) <=> k \in s
         /\ Up(k, x) \in ShiftForInsertAt(s, x, 1) <=> k \in s
         /\ x \in InsertRangeAt(s, x, 1) /\ x \notin ShiftForInsertAt(s, x, 1)
<1>0. x \in InsertRangeAt(s, x, 1) /\ x \notin ShiftForInsertAt(s, x, 1)
  <2>1. x \in InsertRangeAt(s, x, 1) <=> IF x < x THEN x \in s ELSE x = x \/ x - 1 \in s
    BY InsertAtHas, Zenon
  <2>2. x \in ShiftForInsertAt(s, x, 1) <=> IF x < x THEN x \in s ELSE x # x /\ x - 1 \in s
    BY InsertAtHas, Zenon
  <2>3. ~(x < x)
    OBVIOUS
  <2> QED BY <2>1, <2>2, <2>3
<1>1. CASE k >= x
  <2>1. Up(k, x) = k + 1 /\ k + 1 \in Nat /\ ~(k + 1 < x) /\ k + 1 # x /\ (k + 1) - 1 = k
    BY <1>1 DEF Up
  <2>2. k + 1 \in InsertRangeAt(s, x, 1) <=> (k + 1) - 1 \in s
    BY <2>1, InsertAtHas
  <2>3. k + 1 \in ShiftForInsertAt(s, x, 1) <=> (k + 1) - 1 \in s
    BY <2>1, InsertAtHas
  <2> QED BY <2>1, <2>2, <2>3, <1>0
<1>2. CASE k < x
  <2>1. Up(k, x) = k
    BY <1>2 DEF Up
  <2>2. k \in InsertRangeAt(s, x, 1) <=> IF k < x THEN k \in s ELSE k = x \/ k - 1 \in s
    BY InsertAtHas
  <2>3. k \in ShiftForInsertAt(s, x, 1) <=> IF k < x THEN k \in s ELSE k # x /\ k - 1 \in s
    BY InsertAtHas
  <2> QED BY <1>2, <2>1, <2>2, <2>3, <1>0
<1> QED BY <1>1, <1>2

\* Which positions erase_at keeps.
LEMMA MembersDown ==
  ASSUME NEW s, s \subseteq Nat, NEW x \in Nat, NEW k \in Nat, k # x
  PROVE  Down(k, x) \in EraseAt(s, x) <=> k \in s
<1>1. CASE k > x
  <2>1. Down(k, x) = k - 1 /\ k - 1 \in Nat /\ ~(k - 1 < x) /\ (k - 1) + 1 = k
    BY <1>1 DEF Down
  <2>2. k - 1 \in EraseAt(s, x) <=> (k - 1) + 1 \in s
    BY <2>1, EraseAtHas
  <2> QED BY <2>1, <2>2
<1>2. CASE k < x
  <2>1. Down(k, x) = k
    BY <1>2 DEF Down
  <2>2. k \in EraseAt(s, x) <=> IF k < x THEN k \in s ELSE k + 1 \in s
    BY EraseAtHas
  <2> QED BY <1>2, <2>1, <2>2
<1> QED BY <1>1, <1>2

\* What is in PlacesOf.
LEMMA PlacesOfHas ==
  ASSUME NEW list, Len(list) \in Nat, NEW S, NEW j
  PROVE  j \in PlacesOf(list, S) <=> j \in Nat /\ j < Len(list) /\ Entry(list, j) \in S
BY DEF PlacesOf, Positions

\* The entries of S in a list with one more.
LEMMA PlacesOfMore ==
  ASSUME NEW new, new \in Seq(Nat), NEW x \in Nat, x <= Len(new), NEW e, NEW list,
         EntryMore(new, x, e, list), NEW S
  PROVE  /\ e \in S => InsertRangeAt(PlacesOf(new, S), x, 1) = PlacesOf(list, S)
         /\ e \notin S => ShiftForInsertAt(PlacesOf(new, S), x, 1) = PlacesOf(list, S)
<1> DEFINE M == PlacesOf(new, S)
           N == PlacesOf(list, S)
<1>1. Len(new) \in Nat /\ Len(list) = Len(new) + 1 /\ Len(list) \in Nat
  BY DEF EntryMore
<1>2. \A k : k \in M <=> k \in Nat /\ k < Len(new) /\ Entry(new, k) \in S
  BY <1>1, PlacesOfHas
<1>3. \A k : k \in N <=> k \in Nat /\ k < Len(list) /\ Entry(list, k) \in S
  BY <1>1, PlacesOfHas
<1>4. M \subseteq Nat
  BY <1>2
<1> HIDE DEF M, N
<1>5. InsertRangeAt(M, x, 1) \subseteq Nat /\ ShiftForInsertAt(M, x, 1) \subseteq Nat
  BY <1>4, ShiftedAreNat
<1>6. ASSUME NEW k \in Nat
      PROVE  /\ Up(k, x) \in InsertRangeAt(M, x, 1) <=> k \in M
             /\ Up(k, x) \in ShiftForInsertAt(M, x, 1) <=> k \in M
             /\ x \in InsertRangeAt(M, x, 1) /\ x \notin ShiftForInsertAt(M, x, 1)
  BY <1>4, MembersUp
<1>7. ASSUME NEW k \in Nat, k < Len(new)
      PROVE  k \in M <=> Up(k, x) \in N
  BY <1>2, <1>3, <1>7, PlacesUp
<1>8. x \in N <=> e \in S
  BY <1>3, PlaceNew
<1>9. ASSUME NEW j \in Nat, j # x, j < Len(list)
      PROVE  (j \in InsertRangeAt(M, x, 1) <=> j \in N) /\ (j \in ShiftForInsertAt(M, x, 1) <=> j \in N)
  <2>1. PICK k \in Nat : k < Len(new) /\ j = Up(k, x)
    <3>1. j < Len(new) + 1
      BY <1>1, <1>9
    <3> QED BY <1>1, <1>9, <3>1, PlacesUpAll
  <2> QED BY <1>6, <1>7, <2>1
<1>10. ASSUME NEW j \in Nat, ~(j < Len(list))
       PROVE  j \notin InsertRangeAt(M, x, 1) /\ j \notin ShiftForInsertAt(M, x, 1) /\ j \notin N
  <2>1. j - 1 \in Nat /\ ~(j < x) /\ j # x /\ ~(j - 1 < Len(new))
    BY <1>1, <1>10
  <2>2. j - 1 \notin M
    BY <1>2, <2>1
  <2> QED BY <1>3, <1>4, <1>10, <2>1, <2>2, InsertAtHas
<1>11. x < Len(list)
  BY PlaceNew
<1>12. ASSUME e \in S PROVE InsertRangeAt(M, x, 1) = N
  <2>1. ASSUME NEW j PROVE j \in InsertRangeAt(M, x, 1) <=> j \in N
    <3>1. CASE j \notin Nat
      BY <1>3, <1>5, <3>1
    <3>2. CASE j = x
      BY <1>6, <1>8, <1>12, <3>2
    <3>3. CASE j \in Nat /\ j # x
      BY <1>9, <1>10, <3>3
    <3> QED BY <3>1, <3>2, <3>3
  <2> QED BY <2>1
<1>13. ASSUME e \notin S PROVE ShiftForInsertAt(M, x, 1) = N
  <2>1. ASSUME NEW j PROVE j \in ShiftForInsertAt(M, x, 1) <=> j \in N
    <3>1. CASE j \notin Nat
      BY <1>3, <1>5, <3>1
    <3>2. CASE j = x
      BY <1>6, <1>8, <1>13, <3>2
    <3>3. CASE j \in Nat /\ j # x
      BY <1>9, <1>10, <3>3
    <3> QED BY <3>1, <3>2, <3>3
  <2> QED BY <2>1
<1> QED BY <1>12, <1>13 DEF M, N

\* The entries of S in a list with one less.
LEMMA PlacesOfLess ==
  ASSUME NEW new, new \in Seq(Nat), NEW x \in Nat, x < Len(new), NEW list,
         EntryLess(new, x, list), NEW S
  PROVE  EraseAt(PlacesOf(new, S), x) = PlacesOf(list, S)
<1> DEFINE M == PlacesOf(new, S)
           N == PlacesOf(list, S)
<1>1. Len(new) \in Nat /\ Len(list) = Len(new) - 1 /\ Len(list) \in Nat
  BY DEF EntryLess
<1>2. \A k : k \in M <=> k \in Nat /\ k < Len(new) /\ Entry(new, k) \in S
  BY <1>1, PlacesOfHas
<1>3. \A k : k \in N <=> k \in Nat /\ k < Len(list) /\ Entry(list, k) \in S
  BY <1>1, PlacesOfHas
<1>4. M \subseteq Nat
  BY <1>2
<1> HIDE DEF M, N
<1>5. EraseAt(M, x) \subseteq Nat
  BY <1>4, ShiftedAreNat
<1>6. ASSUME NEW k \in Nat, k # x, k < Len(new)
      PROVE  (k \in M <=> Down(k, x) \in N) /\ (k \in M <=> Down(k, x) \in EraseAt(M, x))
  <2>1. /\ Down(k, x) \in Nat /\ Down(k, x) < Len(list)
        /\ Entry(list, Down(k, x)) = Entry(new, k)
    BY <1>6, PlacesDown
  <2>2. Down(k, x) \in EraseAt(M, x) <=> k \in M
    BY <1>4, <1>6, MembersDown, Zenon
  <2> QED BY <1>2, <1>3, <1>6, <2>1, <2>2, Zenon
<1>7. ASSUME NEW j \in Nat, j < Len(list)
      PROVE  j \in EraseAt(M, x) <=> j \in N
  <2>1. PICK k \in Nat : k < Len(new) /\ k # x /\ j = Down(k, x)
    <3>1. j < Len(new) - 1
      BY <1>1, <1>7
    <3>2. \E k \in Nat : k < Len(new) /\ k # x /\ j = Down(k, x)
      <4> DEFINE n == Len(new)
      <4>1. n \in Nat /\ j < n - 1 /\ x < n
        BY <1>1, <3>1
      <4> HIDE DEF n
      <4>2. \E k \in Nat : k < n /\ k # x /\ j = Down(k, x)
        BY <4>1, PlacesDownAll
      <4> QED BY <4>2 DEF n
    <3> QED BY <3>2, Zenon
  <2> QED BY <1>6, <2>1
<1>8. ASSUME NEW j \in Nat, ~(j < Len(list))
      PROVE  j \notin EraseAt(M, x) /\ j \notin N
  <2>1. j + 1 \in Nat /\ ~(j < x) /\ ~(j + 1 < Len(new))
    BY <1>1, <1>8
  <2>2. j + 1 \notin M
    BY <1>2, <2>1
  <2> QED BY <1>3, <1>4, <1>8, <2>1, <2>2, EraseAtHas
<1>9. ASSUME NEW j PROVE j \in EraseAt(M, x) <=> j \in N
  BY <1>3, <1>5, <1>7, <1>8
<1> QED BY <1>9 DEF M, N

----------------------------------------------------------------------------
(* Moves                                                                   *)

\* sequences of moves
Moves == Seq([from : Nat, to : Nat])

\* MovesRight, of the parts of a change
Named(ms, D, I, old, new) ==
  /\ \A k \in DOMAIN ms : /\ ms[k].from \in D /\ ms[k].to \in I
                          /\ Entry(old, ms[k].from) = Entry(new, ms[k].to)
  /\ \A j, k \in DOMAIN ms : ms[j].to = ms[k].to => j = k

\* A sequence of moves is a function to records.
LEMMA MovesAre ==
  ASSUME NEW ms \in Moves
  PROVE  /\ Len(ms) \in Nat /\ DOMAIN ms = 1 .. Len(ms)
         /\ \A k \in DOMAIN ms : ms[k].from \in Nat /\ ms[k].to \in Nat
<1>1. Len(ms) \in Nat /\ DOMAIN ms = 1 .. Len(ms)
  BY DEF Moves
<1>2. \A k \in DOMAIN ms : ms[k] \in [from : Nat, to : Nat]
  BY <1>1, ElementOfSeq DEF Moves
<1> QED BY <1>1, <1>2

\* A function on 1 .. n is a sequence.
LEMMA FunctionIsSeq ==
  ASSUME NEW R, NEW n \in Nat, NEW f \in [1 .. n -> R]
  PROVE  f \in Seq(R)
  OBVIOUS

\* And such a function is a sequence of moves.
LEMMA MovesOf ==
  ASSUME NEW n \in Nat, NEW f \in [1 .. n -> [from : Nat, to : Nat]]
  PROVE  f \in Moves /\ Len(f) = n
<1>1. f \in Moves
  BY FunctionIsSeq, Zenon DEF Moves
<1>2. DOMAIN f = 1 .. n /\ DOMAIN f = 1 .. Len(f) /\ Len(f) \in Nat
  BY <1>1, MovesAre
<1> QED BY <1>1, <1>2

\* Up and Down keep positions apart.
LEMMA UpDownApart ==
  ASSUME NEW x \in Nat, NEW j \in Nat, NEW k \in Nat
  PROVE  /\ Up(j, x) = Up(k, x) => j = k
         /\ j # x /\ k # x /\ Down(j, x) = Down(k, x) => j = k
BY DEF Up, Down

\* the m moves ms2 are the moves ms with their ends gone up from x on
Raised(ms, ms2, m, x) ==
  /\ DOMAIN ms = 1 .. m /\ DOMAIN ms2 = 1 .. m
  /\ \A k \in 1 .. m : ms[k].to \in Nat
  /\ \A k \in 1 .. m : ms2[k].from = ms[k].from /\ ms2[k].to = Up(ms[k].to, x)

\* An entry more: the moves' ends go up.
LEMMA NamedUp ==
  ASSUME NEW D, NEW I, NEW old, NEW new, NEW ms, Named(ms, D, I, old, new),
         new \in Seq(Nat), I \subseteq 0 .. Len(new) - 1,
         NEW x \in Nat, x <= Len(new), NEW e, NEW list, EntryMore(new, x, e, list),
         NEW m \in Nat, NEW ms2, Raised(ms, ms2, m, x)
  PROVE  Named(ms2, D, InsertRangeAt(I, x, 1), old, list)
<1> USE DEF Raised
<1>0. Len(new) \in Nat
  OBVIOUS
<1>1. I \subseteq Nat /\ Len(new) \in Nat /\ \A k \in I : k \in Nat /\ k < Len(new)
  <2>1. ASSUME NEW k \in I PROVE k \in Nat /\ k < Len(new)
    <3>1. k \in 0 .. Len(new) - 1
      OBVIOUS
    <3> QED BY <1>0, <3>1
  <2> QED BY <1>0, <2>1
<1>2. ASSUME NEW k \in 1 .. m
      PROVE  /\ ms2[k].from \in D /\ ms2[k].to \in InsertRangeAt(I, x, 1)
             /\ Entry(old, ms2[k].from) = Entry(list, ms2[k].to)
  <2>1. /\ ms[k].from \in D /\ ms[k].to \in I
        /\ Entry(old, ms[k].from) = Entry(new, ms[k].to)
    BY DEF Named
  <2>2. ms[k].to \in Nat /\ ms[k].to < Len(new)
    BY <1>1, <2>1
  <2>3. Up(ms[k].to, x) \in InsertRangeAt(I, x, 1)
    BY <1>1, <2>1, <2>2, MembersUp
  <2>4. Entry(list, Up(ms[k].to, x)) = Entry(new, ms[k].to)
    BY <2>2, PlacesUp
  <2> QED BY <2>1, <2>3, <2>4
<1>3. ASSUME NEW j \in 1 .. m, NEW k \in 1 .. m, ms2[j].to = ms2[k].to PROVE j = k
  <2>1. ms[j].to = ms[k].to
    BY <1>3, UpDownApart
  <2> QED BY <2>1 DEF Named
<1> QED BY <1>2, <1>3 DEF Named

\* ms2 are moves of ms, those at 1 to m of f, with their ends gone down
Leaves(ms, ms2, m, f, x) ==
  /\ f \in [1 .. m -> DOMAIN ms]
  /\ \A j, k \in 1 .. m : f[j] = f[k] => j = k
  /\ \A k \in 1 .. m : ms[f[k]].to # x
  /\ ms2 \in Moves /\ DOMAIN ms2 = 1 .. m
  /\ \A k \in 1 .. m : ms2[k].from = ms[f[k]].from /\ ms2[k].to = Down(ms[f[k]].to, x)

\* An entry less: those of the moves left go down.
LEMMA NamedDown ==
  ASSUME NEW D, NEW I, NEW old, NEW new, NEW ms, Named(ms, D, I, old, new),
         \A k \in DOMAIN ms : ms[k].to \in Nat,
         new \in Seq(Nat), I \subseteq 0 .. Len(new) - 1,
         NEW x \in Nat, x < Len(new), NEW list, EntryLess(new, x, list),
         NEW d, D \subseteq d, NEW m \in Nat, NEW f, NEW ms2, Leaves(ms, ms2, m, f, x)
  PROVE  Named(ms2, d, EraseAt(I, x), old, list)
<1>1. I \subseteq Nat /\ Len(new) \in Nat /\ \A k \in I : k \in Nat /\ k < Len(new)
  OBVIOUS
<1>2. ASSUME NEW k \in 1 .. m
      PROVE  /\ ms2[k].from \in d /\ ms2[k].to \in EraseAt(I, x)
             /\ Entry(old, ms2[k].from) = Entry(list, ms2[k].to)
  <2>0. f[k] \in DOMAIN ms /\ ms[f[k]].to # x
    BY DEF Leaves
  <2>1. /\ ms[f[k]].from \in D /\ ms[f[k]].to \in I
        /\ Entry(old, ms[f[k]].from) = Entry(new, ms[f[k]].to)
    BY <2>0 DEF Named
  <2>2. ms[f[k]].to \in Nat /\ ms[f[k]].to < Len(new) /\ ms[f[k]].to # x
    BY <1>1, <2>0, <2>1
  <2>3. Down(ms[f[k]].to, x) \in EraseAt(I, x)
    BY <1>1, <2>1, <2>2, MembersDown
  <2>4. Entry(list, Down(ms[f[k]].to, x)) = Entry(new, ms[f[k]].to)
    BY <2>2, PlacesDown
  <2>5. ms2[k].from = ms[f[k]].from /\ ms2[k].to = Down(ms[f[k]].to, x)
    BY DEF Leaves
  <2> QED BY <2>1, <2>3, <2>4, <2>5
<1>3. ASSUME NEW j \in 1 .. m, NEW k \in 1 .. m, ms2[j].to = ms2[k].to PROVE j = k
  <2>1. f[j] \in DOMAIN ms /\ f[k] \in DOMAIN ms
    BY DEF Leaves
  <2>2. ms[f[j]].to # x /\ ms[f[k]].to # x /\ ms[f[j]].to \in Nat /\ ms[f[k]].to \in Nat
    BY <2>1 DEF Leaves
  <2>3. Down(ms[f[j]].to, x) = Down(ms[f[k]].to, x)
    BY <1>3 DEF Leaves
  <2>4. ms[f[j]].to = ms[f[k]].to
    BY <2>2, <2>3, UpDownApart
  <2>5. f[j] = f[k]
    BY <2>1, <2>4 DEF Named
  <2> QED BY <2>5 DEF Leaves
<1>4. DOMAIN ms2 = 1 .. m
  BY DEF Leaves
<1> QED BY <1>2, <1>3, <1>4 DEF Named

\* left are the moves of ms but those at gone: its moves 1 to m are those at f
Picks(ms, gone, left, m, f) ==
  /\ left \in Moves /\ DOMAIN left = 1 .. m
  /\ f \in [1 .. m -> DOMAIN ms]
  /\ \A j, k \in 1 .. m : f[j] = f[k] => j = k
  /\ \A k \in 1 .. m : left[k] = ms[f[k]] /\ f[k] - 1 \notin gone
  /\ \A i \in DOMAIN ms : i - 1 \notin gone => \E k \in 1 .. m : f[k] = i

\* Which moves Leaving leaves.
LEMMA LeavingPicks ==
  ASSUME NEW ms \in Moves, NEW gone, gone \subseteq 0 .. Len(ms) - 1
  PROVE  \E m \in Nat : \E f : Picks(ms, gone, Leaving(ms, gone), m, f)
<1> DEFINE m == Len(ms) - Cardinality(gone)
           place(k) == Shift(gone, k - 1) + 1
           f == [k \in 1 .. m |-> place(k)]
           left == Leaving(ms, gone)
<1>1. /\ Len(ms) \in Nat /\ DOMAIN ms = 1 .. Len(ms)
      /\ \A k \in DOMAIN ms : ms[k] \in [from : Nat, to : Nat]
  BY MovesAre, ElementOfSeq DEF Moves
<1>4. left = [k \in 1 .. m |-> ms[place(k)]]
  BY DEF Leaving
<1>5. IsIndexSet(gone) /\ Cardinality(gone) \in Nat
  BY <1>1, BelowAll
<1>6. m \in Nat
  <2>1. Below(gone, 0 + Len(ms)) <= Below(gone, 0) + Len(ms)
    BY <1>1, <1>5, BelowBetween
  <2>2. Below(gone, 0) = 0
    BY <1>5, BelowNext
  <2>3. Below(gone, Len(ms)) = Cardinality(gone)
    BY <1>1, BelowAll
  <2> QED BY <1>1, <1>5, <2>1, <2>2, <2>3
<1> HIDE DEF m, left
<1>7. ASSUME NEW k \in 1 .. m
      PROVE  place(k) \in DOMAIN ms /\ place(k) - 1 \notin gone
             /\ Unshift(gone, place(k) - 1) = k - 1 /\ place(k) \in Nat
  <2> DEFINE i == Shift(gone, k - 1)
  <2>1. k - 1 \in Nat /\ k - 1 < m
    BY <1>6
  <2>2. i \in Nat /\ i \notin gone /\ Unshift(gone, i) = k - 1
    BY <1>5, <2>1, ShiftInverts
  <2> HIDE DEF i
  <2>3. i < Len(ms) <=> Unshift(gone, i) < Len(ms) - Cardinality(gone)
    BY <1>1, <2>2, UnshiftWithin
  <2>4. i < Len(ms)
    BY <2>1, <2>2, <2>3 DEF m
  <2>5. i + 1 \in DOMAIN ms /\ (i + 1) - 1 = i /\ i + 1 \in Nat
    BY <1>1, <2>2, <2>4
  <2>7. place(k) = i + 1
    BY DEF i
  <2> HIDE DEF place
  <2> QED BY <2>2, <2>5, <2>7
<1>8. ASSUME NEW i \in DOMAIN ms, i - 1 \notin gone PROVE \E k \in 1 .. m : place(k) = i
  <2> DEFINE k == Unshift(gone, i - 1) + 1
             j == Shift(gone, k - 1)
  <2>1. i - 1 \in Nat /\ i - 1 < Len(ms)
    BY <1>1
  <2>2. Unshift(gone, i - 1) \in Nat /\ Unshift(gone, i - 1) < m
    BY <1>1, <1>5, <1>8, <2>1, UnshiftNumbers, UnshiftWithin DEF m
  <2>3. k \in 1 .. m /\ k - 1 = Unshift(gone, i - 1) /\ k - 1 \in Nat
    BY <1>6, <2>2
  <2> HIDE DEF k
  <2>4. j \in Nat /\ j \notin gone /\ Unshift(gone, j) = k - 1
    BY <1>5, <2>3, ShiftInverts
  <2>5. place(k) = j + 1
    OBVIOUS
  <2> HIDE DEF j, place
  <2>6. /\ j < i - 1 <=> Unshift(gone, j) < Unshift(gone, i - 1)
        /\ i - 1 < j <=> Unshift(gone, i - 1) < Unshift(gone, j)
    BY <1>5, <1>8, <2>1, <2>4, NumbersApart
  <2>7. j = i - 1
    BY <2>1, <2>2, <2>3, <2>4, <2>6
  <2> QED BY <1>1, <2>1, <2>3, <2>5, <2>7
<1> HIDE DEF place
<1>9. f \in [1 .. m -> DOMAIN ms] /\ \A k \in 1 .. m : f[k] = place(k)
  BY <1>7
<1>10. ASSUME NEW j \in 1 .. m, NEW k \in 1 .. m, f[j] = f[k] PROVE j = k
  <2>1. place(j) = place(k)
    BY <1>9, <1>10
  <2>2. Unshift(gone, place(j) - 1) = j - 1 /\ Unshift(gone, place(k) - 1) = k - 1
    BY <1>7
  <2>3. j - 1 = k - 1
    BY <2>1, <2>2, Zenon
  <2> QED BY <1>6, <2>3
<1>11. left \in [1 .. m -> [from : Nat, to : Nat]] /\ \A k \in 1 .. m : left[k] = ms[place(k)]
  BY <1>1, <1>4, <1>7
<1>12. left \in Moves /\ DOMAIN left = 1 .. m
  <2>1. left \in Moves
    BY <1>6, <1>11, MovesOf, Zenon
  <2> QED BY <1>11, <2>1
<1> HIDE DEF f
<1>13. Picks(ms, gone, left, m, f)
  BY <1>7, <1>8, <1>9, <1>10, <1>11, <1>12 DEF Picks
<1> QED BY <1>6, <1>13 DEF left

\* Which moves MovesWithout leaves.
LEMMA MovesLeft ==
  ASSUME NEW b, NEW ms \in Moves, b.moves = ms, NEW x \in Nat
  PROVE  \E m \in Nat : \E f : Leaves(ms, MovesWithout(b, x), m, f, x)
<1> DEFINE gone == {k - 1 : k \in {j \in DOMAIN ms : ms[j].to = x}}
           left == Leaving(ms, gone)
           To(k) == Down(left[k].to, x)
           ms2 == [k \in DOMAIN left |-> [from |-> left[k].from, to |-> To(k)]]
<1>1. /\ Len(ms) \in Nat /\ DOMAIN ms = 1 .. Len(ms)
      /\ \A k \in DOMAIN ms : ms[k].from \in Nat /\ ms[k].to \in Nat
  BY MovesAre
<1>2. gone \subseteq 0 .. Len(ms) - 1
  BY <1>1
<1>3. \A k \in DOMAIN ms : ms[k].to = x => k - 1 \in gone
  OBVIOUS
<1>4. MovesWithout(b, x) = ms2
  BY DEF MovesWithout, Down
<1> HIDE DEF gone, left
<1>5. PICK m \in Nat : \E f : Picks(ms, gone, left, m, f)
  BY <1>2, LeavingPicks DEF left
<1>6. PICK f : Picks(ms, gone, left, m, f)
  BY <1>5
<1>7. /\ left \in Moves /\ DOMAIN left = 1 .. m
      /\ f \in [1 .. m -> DOMAIN ms]
      /\ \A j, k \in 1 .. m : f[j] = f[k] => j = k
      /\ \A k \in 1 .. m : left[k] = ms[f[k]] /\ f[k] - 1 \notin gone
  BY <1>6 DEF Picks
<1>8. \A k \in 1 .. m : left[k].from \in Nat /\ To(k) \in Nat
  <2>1. \A k \in DOMAIN left : left[k].from \in Nat /\ left[k].to \in Nat
    BY <1>7, MovesAre
  <2> QED BY <1>7, <2>1 DEF Down
<1>9. ms2 \in [1 .. m -> [from : Nat, to : Nat]]
  BY <1>7, <1>8
<1>10. /\ DOMAIN ms2 = 1 .. m
       /\ \A k \in 1 .. m : ms2[k].from = left[k].from /\ ms2[k].to = To(k)
  BY <1>7
<1> HIDE DEF ms2
<1>11. ms2 \in Moves
  BY <1>9, MovesOf, Zenon
<1>12. \A k \in 1 .. m : ms2[k].from = ms[f[k]].from /\ ms2[k].to = Down(ms[f[k]].to, x)
  BY <1>7, <1>10
<1>13. \A k \in 1 .. m : ms[f[k]].to # x
  BY <1>3, <1>7
<1>14. Leaves(ms, ms2, m, f, x)
  BY <1>7, <1>10, <1>11, <1>12, <1>13 DEF Leaves
<1> QED BY <1>4, <1>14

----------------------------------------------------------------------------
(* One instruction                                                         *)

\* CollectionChangeBuilder
ChangeRecords == [deletions : SUBSET Nat, insertions : SUBSET Nat,
                  modifications : SUBSET Nat, moves : Moves]

\* the change b describes how old became new, while the entries of S were set
IsExact(b, old, new, S) ==
  /\ b \in ChangeRecords
  /\ Leads(b.deletions, b.insertions, old, new)
  /\ Named(b.moves, b.deletions, b.insertions, old, new)
  /\ b.modifications = PlacesOf(new, S)

\* The parts of an exact change.
LEMMA ExactParts ==
  ASSUME NEW b, NEW old, NEW new, NEW S, IsExact(b, old, new, S)
  PROVE  /\ b.deletions \subseteq Nat /\ b.insertions \subseteq Nat
         /\ b.modifications \subseteq Nat /\ b.moves \in Moves
         /\ old \in Seq(Nat) /\ new \in Seq(Nat) /\ Len(new) \in Nat /\ Len(old) \in Nat
         /\ b.deletions \subseteq 0 .. Len(old) - 1
         /\ b.insertions \subseteq 0 .. Len(new) - 1
<1>1. b \in ChangeRecords /\ Leads(b.deletions, b.insertions, old, new)
  BY DEF IsExact
<1>2. /\ b.deletions \subseteq Nat /\ b.insertions \subseteq Nat
      /\ b.modifications \subseteq Nat /\ b.moves \in Moves
  BY <1>1 DEF ChangeRecords
<1>3. /\ old \in Seq(Nat) /\ new \in Seq(Nat)
      /\ b.deletions \subseteq 0 .. Len(old) - 1
      /\ b.insertions \subseteq 0 .. Len(new) - 1
  BY <1>1, LeadsIs, Zenon
<1>4. Len(new) \in Nat /\ Len(old) \in Nat
  BY <1>3
<1> QED BY <1>2, <1>3, <1>4

\* How a change is put together.
LEMMA ExactOf ==
  ASSUME NEW D, NEW I, NEW M, NEW ms, NEW old, NEW new, NEW S, NEW c,
         c = [deletions |-> D, insertions |-> I, modifications |-> M, moves |-> ms],
         D \subseteq Nat, I \subseteq Nat, M \subseteq Nat, ms \in Moves,
         Leads(D, I, old, new), Named(ms, D, I, old, new), M = PlacesOf(new, S)
  PROVE  IsExact(c, old, new, S)
<1>1. c.deletions = D /\ c.insertions = I /\ c.modifications = M /\ c.moves = ms
  OBVIOUS
<1>2. c \in ChangeRecords
  BY DEF ChangeRecords
<1> QED BY <1>1, <1>2 DEF IsExact

\* Inserting an entry that was not set.
LEMMA InsertedExact ==
  ASSUME NEW b, NEW old, NEW new, NEW S, IsExact(b, old, new, S),
         NEW x \in Nat, x <= Len(new), NEW e \in Nat, e \notin S
  PROVE  IsExact(Inserted(b, x, 1), old, With(new, x, e), S)
<1> DEFINE D == b.deletions
           I == b.insertions
           M == b.modifications
           ms == b.moves
           c == Inserted(b, x, 1)
           list == With(new, x, e)
           ms2 == c.moves
<1>1. /\ D \subseteq Nat /\ I \subseteq Nat /\ M \subseteq Nat /\ ms \in Moves
      /\ old \in Seq(Nat) /\ new \in Seq(Nat) /\ Len(new) \in Nat
      /\ I \subseteq 0 .. Len(new) - 1
  BY ExactParts
<1>2. Leads(D, I, old, new) /\ Named(ms, D, I, old, new) /\ M = PlacesOf(new, S)
  BY DEF IsExact
<1>3. EntryMore(new, x, e, list)
  BY <1>1, WithEntries
<1>4. /\ Len(ms) \in Nat /\ DOMAIN ms = 1 .. Len(ms)
      /\ \A k \in DOMAIN ms : ms[k].from \in Nat /\ ms[k].to \in Nat
  BY <1>1, MovesAre
<1>5. c = [deletions |-> D, insertions |-> InsertRangeAt(I, x, 1),
           modifications |-> ShiftForInsertAt(M, x, 1), moves |-> ms2]
  BY DEF Inserted
<1>6. ms2 = [k \in DOMAIN ms |-> [from |-> ms[k].from, to |-> Up(ms[k].to, x)]]
  BY DEF Inserted, Up
<1> HIDE DEF c, D, I, M, ms, list, ms2
<1>7. ms2 \in Moves
  <2>1. \A k \in DOMAIN ms : ms[k].from \in Nat /\ Up(ms[k].to, x) \in Nat
    BY <1>4 DEF Up
  <2>2. ms2 \in [1 .. Len(ms) -> [from : Nat, to : Nat]]
    BY <1>4, <1>6, <2>1
  <2> QED BY <1>4, <2>2, MovesOf, Zenon
<1>8. DOMAIN ms2 = 1 .. Len(ms)
      /\ \A k \in 1 .. Len(ms) : ms2[k].from = ms[k].from /\ ms2[k].to = Up(ms[k].to, x)
  BY <1>4, <1>6
<1>9. Named(ms2, D, InsertRangeAt(I, x, 1), old, list)
  <2>1. \A k \in 1 .. Len(ms) : ms[k].to \in Nat
    BY <1>4
  <2>2. \A k \in 1 .. Len(ms) : ms2[k].from = ms[k].from /\ ms2[k].to = Up(ms[k].to, x)
    BY <1>8, Zenon
  <2>3. Named(ms, D, I, old, new) /\ new \in Seq(Nat) /\ I \subseteq 0 .. Len(new) - 1
    BY <1>1, <1>2, Zenon
  <2> DEFINE m == Len(ms)
  <2>4. m \in Nat /\ Raised(ms, ms2, m, x)
    BY <1>4, <1>8, <2>1, <2>2, Zenon DEF Raised
  <2> HIDE DEF m
  <2> QED BY <1>3, <2>3, <2>4, NamedUp
<1>10. Leads(D, InsertRangeAt(I, x, 1), old, list)
  BY <1>2, InsertLeads DEF list
<1>11. ShiftForInsertAt(M, x, 1) = PlacesOf(list, S)
  BY <1>1, <1>2, <1>3, PlacesOfMore
<1>12. InsertRangeAt(I, x, 1) \subseteq Nat /\ ShiftForInsertAt(M, x, 1) \subseteq Nat
  BY <1>1, ShiftedAreNat
<1>13. IsExact(c, old, list, S)
  BY <1>1, <1>5, <1>7, <1>9, <1>10, <1>11, <1>12, ExactOf
<1> QED BY <1>13 DEF c, list

\* Erasing an entry.
LEMMA ErasedExact ==
  ASSUME NEW b, NEW old, NEW new, NEW S, IsExact(b, old, new, S),
         NEW x \in Nat, x < Len(new)
  PROVE  IsExact(Erased(b, x), old, Without(new, x), S)
<1> DEFINE D == b.deletions
           I == b.insertions
           M == b.modifications
           ms == b.moves
           c == Erased(b, x)
           d == c.deletions
           list == Without(new, x)
           ms2 == MovesWithout(b, x)
<1>1. /\ D \subseteq Nat /\ I \subseteq Nat /\ M \subseteq Nat /\ ms \in Moves
      /\ old \in Seq(Nat) /\ new \in Seq(Nat) /\ Len(new) \in Nat
      /\ I \subseteq 0 .. Len(new) - 1
  BY ExactParts
<1>2. Leads(D, I, old, new) /\ Named(ms, D, I, old, new) /\ M = PlacesOf(new, S)
  BY DEF IsExact
<1>3. EntryLess(new, x, list)
  BY <1>1, WithoutEntries
<1>4. /\ Len(ms) \in Nat /\ DOMAIN ms = 1 .. Len(ms)
      /\ \A k \in DOMAIN ms : ms[k].from \in Nat /\ ms[k].to \in Nat
  BY <1>1, MovesAre
<1>5. c = [deletions |-> d, insertions |-> EraseAt(I, x),
           modifications |-> EraseAt(M, x), moves |-> ms2]
  BY DEF Erased
<1>6. d = IF x \in I THEN D ELSE D \cup {Shift(D, Unshift(I, x))}
  BY DEF Erased, AddShifted
<1>0. PICK m \in Nat : \E f : Leaves(ms, ms2, m, f, x)
  BY <1>1, MovesLeft
<1>7. PICK f : Leaves(ms, ms2, m, f, x)
  BY <1>0
<1> HIDE DEF c, D, I, M, ms, list, ms2, d
<1>8. ms2 \in Moves
  BY <1>7 DEF Leaves
<1>9. D \subseteq d
  BY <1>6
<1>10. Named(ms2, d, EraseAt(I, x), old, list)
  <2>1. \A k \in DOMAIN ms : ms[k].to \in Nat
    BY <1>4
  <2> QED BY <1>1, <1>2, <1>3, <1>7, <1>9, <2>1, NamedDown
<1>11. Leads(d, EraseAt(I, x), old, list)
  <2>1. CASE x \in I
    BY <1>2, <1>6, <2>1, EraseInsertedLeads DEF list
  <2>2. CASE x \notin I
    BY <1>2, <1>6, <2>2, EraseOtherLeads DEF list
  <2> QED BY <2>1, <2>2
<1>12. EraseAt(M, x) = PlacesOf(list, S)
  BY <1>1, <1>2, <1>3, PlacesOfLess
<1>13. EraseAt(I, x) \subseteq Nat /\ EraseAt(M, x) \subseteq Nat
  BY <1>1, ShiftedAreNat
<1>14. d \subseteq Nat
  <2>1. d \subseteq 0 .. Len(old) - 1
    BY <1>11, LeadsIs, Zenon
  <2>2. Len(old) \in Nat
    BY <1>1
  <2> QED BY <2>1, <2>2
<1>15. IsExact(c, old, list, S)
  BY <1>5, <1>8, <1>10, <1>11, <1>12, <1>13, <1>14, ExactOf
<1> QED BY <1>15 DEF c, list

\* where the entry at k is once the one at x has been taken out and put in at y
Through(k, x, y) == IF k = x THEN y ELSE Up(Down(k, x), y)

\* Entries keep apart when one of them moves.
LEMMA ThroughApart ==
  ASSUME NEW x \in Nat, NEW y \in Nat, NEW j \in Nat, NEW k \in Nat,
         Through(j, x, y) = Through(k, x, y)
  PROVE  j = k
BY DEF Through, Up, Down

\* The list with the entry at x moved to y is a list with one less, then one more.
LEMMA MovedEntries ==
  ASSUME NEW new, new \in Seq(Nat), NEW x \in Nat, x < Len(new), NEW y \in Nat, y < Len(new),
         NEW short, short = Without(new, x), NEW e, e = Entry(new, x)
  PROVE  /\ EntryLess(new, x, short) /\ short \in Seq(Nat) /\ y <= Len(short)
         /\ e \in Nat /\ Len(short) \in Nat
         /\ EntryMore(short, y, e, With(short, y, e))
<1>0. Len(new) \in Nat
  OBVIOUS
<1>1. EntryLess(new, x, short)
  BY WithoutEntries
<1>2. short \in Seq(Nat) /\ Len(short) = Len(new) - 1
  BY <1>1 DEF EntryLess
<1>3. y <= Len(short) /\ Len(short) \in Nat
  BY <1>0, <1>2
<1>4. x + 1 \in 1 .. Len(new)
  BY <1>0
<1>5. e \in Nat
  BY <1>4, ElementOfSeq DEF Entry
<1>6. EntryMore(short, y, e, With(short, y, e))
  BY <1>2, <1>3, <1>5, WithEntries
<1> QED BY <1>1, <1>2, <1>3, <1>5, <1>6

\* Every entry is where Through says.
LEMMA PlacesThrough ==
  ASSUME NEW new, new \in Seq(Nat), NEW x \in Nat, x < Len(new), NEW y \in Nat, y < Len(new),
         NEW k \in Nat, k < Len(new)
  PROVE  LET list == With(Without(new, x), y, Entry(new, x))
         IN Through(k, x, y) \in Nat /\ Entry(list, Through(k, x, y)) = Entry(new, k)
<1> DEFINE short == Without(new, x)
           e == Entry(new, x)
           list == With(short, y, e)
<1>1. /\ EntryLess(new, x, short) /\ short \in Seq(Nat) /\ y <= Len(short)
      /\ EntryMore(short, y, e, list)
  BY MovedEntries
<1> HIDE DEF short, e, list
<1>2. CASE k = x
  <2>1. Entry(list, y) = e
    BY <1>1, PlaceNew
  <2> QED BY <1>2, <2>1 DEF Through, e, list, short
<1>3. CASE k # x
  <2> DEFINE i == Down(k, x)
  <2>1. i \in Nat /\ i < Len(short) /\ Entry(short, i) = Entry(new, k)
    BY <1>1, <1>3, PlacesDown
  <2> HIDE DEF i
  <2>2. Up(i, y) \in Nat /\ Entry(list, Up(i, y)) = Entry(short, i)
    BY <1>1, <2>1, PlacesUp
  <2>3. Through(k, x, y) = Up(i, y)
    BY <1>3 DEF Through, i
  <2> QED BY <2>1, <2>2, <2>3 DEF e, list, short
<1> QED BY <1>2, <1>3

\* And what was inserted before still is; so is the entry moved.
LEMMA MembersThrough ==
  ASSUME NEW s, s \subseteq Nat, NEW x \in Nat, NEW y \in Nat
  PROVE  /\ y \in InsertRangeAt(EraseAt(s, x), y, 1)
         /\ \A k \in s : Through(k, x, y) \in InsertRangeAt(EraseAt(s, x), y, 1)
<1> DEFINE t == EraseAt(s, x)
<1>1. t \subseteq Nat
  BY ShiftedAreNat
<1>2. \A k \in s : k # x => Down(k, x) \in t /\ Down(k, x) \in Nat
  <2>1. ASSUME NEW k \in s, k # x PROVE Down(k, x) \in t
    BY <2>1, MembersDown
  <2> QED BY <1>1, <2>1
<1> HIDE DEF t
<1>3. y \in InsertRangeAt(t, y, 1)
  BY <1>1, MembersUp
<1>4. ASSUME NEW k \in s PROVE Through(k, x, y) \in InsertRangeAt(t, y, 1)
  <2>1. CASE k = x
    BY <1>3, <2>1 DEF Through
  <2>2. CASE k # x
    <3>1. Up(Down(k, x), y) \in InsertRangeAt(t, y, 1)
      BY <1>1, <1>2, <2>2, MembersUp
    <3> QED BY <2>2, <3>1 DEF Through
  <2> QED BY <2>1, <2>2
<1> QED BY <1>3, <1>4 DEF t

\* The moves there were, after another one.
LEMMA NamedThrough ==
  ASSUME NEW D, NEW I, NEW old, NEW new, NEW ms, Named(ms, D, I, old, new),
         NEW m \in Nat, DOMAIN ms = 1 .. m, \A k \in 1 .. m : ms[k].to \in Nat,
         new \in Seq(Nat), I \subseteq 0 .. Len(new) - 1,
         NEW x \in Nat, x < Len(new), NEW y \in Nat, y < Len(new),
         NEW list, list = With(Without(new, x), y, Entry(new, x)),
         NEW ms2, DOMAIN ms2 = 1 .. m,
         \A k \in 1 .. m : ms2[k].from = ms[k].from /\ ms2[k].to = Through(ms[k].to, x, y)
  PROVE  Named(ms2, D, InsertRangeAt(EraseAt(I, x), y, 1), old, list)
<1>0. Len(new) \in Nat
  OBVIOUS
<1>1. I \subseteq Nat /\ \A k \in I : k \in Nat /\ k < Len(new)
  <2>1. ASSUME NEW k \in I PROVE k \in Nat /\ k < Len(new)
    <3>1. k \in 0 .. Len(new) - 1
      OBVIOUS
    <3> QED BY <1>0, <3>1
  <2> QED BY <2>1
<1>2. ASSUME NEW k \in 1 .. m
      PROVE  /\ ms2[k].from \in D /\ ms2[k].to \in InsertRangeAt(EraseAt(I, x), y, 1)
             /\ Entry(old, ms2[k].from) = Entry(list, ms2[k].to)
  <2>1. /\ ms[k].from \in D /\ ms[k].to \in I
        /\ Entry(old, ms[k].from) = Entry(new, ms[k].to)
    BY DEF Named
  <2>2. ms[k].to \in Nat /\ ms[k].to < Len(new)
    BY <1>1, <2>1
  <2>3. Through(ms[k].to, x, y) \in InsertRangeAt(EraseAt(I, x), y, 1)
    BY <1>1, <2>1, MembersThrough
  <2>4. Entry(list, Through(ms[k].to, x, y)) = Entry(new, ms[k].to)
    BY <2>2, PlacesThrough
  <2> QED BY <2>1, <2>3, <2>4
<1>3. ASSUME NEW j \in 1 .. m, NEW k \in 1 .. m, ms2[j].to = ms2[k].to PROVE j = k
  <2>0. ms[j].to \in Nat /\ ms[k].to \in Nat
        /\ Through(ms[j].to, x, y) = Through(ms[k].to, x, y)
    BY <1>3
  <2>1. ms[j].to = ms[k].to
    BY <2>0, ThroughApart
  <2> QED BY <2>1 DEF Named
<1> QED BY <1>2, <1>3 DEF Named

\* A move more.
LEMMA NamedAppend ==
  ASSUME NEW D, NEW I, NEW old, NEW new, NEW ms \in Moves, Named(ms, D, I, old, new),
         NEW o \in Nat, NEW y \in I, y \in Nat, Entry(old, o) = Entry(new, y),
         \A k \in DOMAIN ms : ms[k].to # y
  PROVE  /\ Append(ms, [from |-> o, to |-> y]) \in Moves
         /\ Named(Append(ms, [from |-> o, to |-> y]), D \cup {o}, I, old, new)
<1> DEFINE r == [from |-> o, to |-> y]
           all == Append(ms, r)
           n == Len(ms) + 1
<1>0. Len(ms) \in Nat /\ DOMAIN ms = 1 .. Len(ms)
  BY MovesAre
<1>1. r \in [from : Nat, to : Nat] /\ r.from = o /\ r.to = y
  OBVIOUS
<1> HIDE DEF r
<1>2. /\ all \in Moves /\ DOMAIN all = 1 .. n /\ all[n] = r
      /\ \A k \in 1 .. Len(ms) : all[k] = ms[k]
  BY <1>0, <1>1, AppendProperties DEF Moves
<1> HIDE DEF all
<1>3. \A k \in 1 .. n : k = n \/ k \in DOMAIN ms
  BY <1>0
<1>4. ASSUME NEW k \in 1 .. n
      PROVE  /\ all[k].from \in D \cup {o} /\ all[k].to \in I
             /\ Entry(old, all[k].from) = Entry(new, all[k].to)
  BY <1>0, <1>1, <1>2, <1>3 DEF Named
<1>5. ASSUME NEW j \in 1 .. n, NEW k \in 1 .. n, all[j].to = all[k].to PROVE j = k
  <2>1. CASE j \in DOMAIN ms /\ k \in DOMAIN ms
    BY <1>0, <1>2, <1>5, <2>1 DEF Named
  <2>2. CASE j = n /\ k \in DOMAIN ms
    BY <1>0, <1>1, <1>2, <1>5, <2>2
  <2>3. CASE j \in DOMAIN ms /\ k = n
    BY <1>0, <1>1, <1>2, <1>5, <2>3
  <2> QED BY <1>3, <2>1, <2>2, <2>3
<1>6. Named(all, D \cup {o}, I, old, new)
  BY <1>2, <1>4, <1>5 DEF Named
<1> QED BY <1>2, <1>6 DEF all, r

\* Moving an entry.
LEMMA MovedExact ==
  ASSUME NEW b, NEW old, NEW new, NEW S, IsExact(b, old, new, S),
         NEW x \in Nat, x < Len(new), NEW y \in Nat, y < Len(new)
  PROVE  IsExact(Moved(b, x, y), old, With(Without(new, x), y, Entry(new, x)), S)
<1> DEFINE D == b.deletions
           I == b.insertions
           M == b.modifications
           ms == b.moves
           c == Moved(b, x, y)
           o == Shift(D, Unshift(I, x))
           again == \E k \in DOMAIN ms : ms[k].to = x
           passed == [k \in DOMAIN ms |-> [from |-> ms[k].from, to |-> Through(ms[k].to, x, y)]]
           I2 == InsertRangeAt(EraseAt(I, x), y, 1)
           M2 == IF x \in M THEN InsertRangeAt(EraseAt(M, x), y, 1)
                 ELSE ShiftForInsertAt(EraseAt(M, x), y, 1)
           short == Without(new, x)
           e == Entry(new, x)
           list == With(short, y, e)
<1>1. /\ D \subseteq Nat /\ I \subseteq Nat /\ M \subseteq Nat /\ ms \in Moves
      /\ old \in Seq(Nat) /\ new \in Seq(Nat) /\ Len(new) \in Nat
      /\ I \subseteq 0 .. Len(new) - 1
  BY ExactParts
<1>2. Leads(D, I, old, new) /\ Named(ms, D, I, old, new) /\ M = PlacesOf(new, S)
  BY DEF IsExact
<1>3. /\ EntryLess(new, x, short) /\ short \in Seq(Nat) /\ y <= Len(short)
      /\ e \in Nat /\ Len(short) \in Nat /\ EntryMore(short, y, e, list)
  BY <1>1, MovedEntries
<1>4. /\ Len(ms) \in Nat /\ DOMAIN ms = 1 .. Len(ms)
      /\ \A k \in DOMAIN ms : ms[k].from \in Nat /\ ms[k].to \in Nat
  BY <1>1, MovesAre
<1>5. [k \in DOMAIN ms |->
         [from |-> ms[k].from,
          to   |-> LET was == ms[k].to
                   IN IF was = x THEN y
                      ELSE IF was >= y /\ was < x THEN was + 1
                      ELSE IF was <= y /\ was > x THEN was - 1 ELSE was]] = passed
  <2>1. ASSUME NEW k \in DOMAIN ms
        PROVE  (LET was == ms[k].to
                IN IF was = x THEN y
                   ELSE IF was >= y /\ was < x THEN was + 1
                   ELSE IF was <= y /\ was > x THEN was - 1 ELSE was) = Through(ms[k].to, x, y)
    BY <1>4 DEF Through, Up, Down
  <2> QED BY <2>1
<1>6. c = [deletions     |-> IF again \/ x \in I THEN D ELSE D \cup {o},
           insertions    |-> I2,
           modifications |-> M2,
           moves         |-> IF again \/ x \in I THEN passed
                             ELSE Append(passed, [from |-> o, to |-> y])]
  BY <1>5, Zenon DEF Moved
<1>7. again => x \in I
  BY <1>2 DEF Named
<1> HIDE DEF again
<1>8. passed \in Moves
  <2>1. \A k \in DOMAIN ms : ms[k].from \in Nat /\ Through(ms[k].to, x, y) \in Nat
    <3>1. ASSUME NEW k \in DOMAIN ms PROVE ms[k].from \in Nat /\ Through(ms[k].to, x, y) \in Nat
      <4>1. ms[k].from \in Nat /\ ms[k].to \in Nat
        BY <1>4
      <4> HIDE DEF ms
      <4> QED BY <4>1 DEF Through, Up, Down
    <3> QED BY <3>1, Zenon
  <2>2. passed = [k \in 1 .. Len(ms) |->
                    [from |-> ms[k].from, to |-> Through(ms[k].to, x, y)]]
    BY <1>4, Zenon
  <2>3. \A k \in 1 .. Len(ms) : ms[k].from \in Nat /\ Through(ms[k].to, x, y) \in Nat
    BY <1>4, <2>1, Zenon
  <2> HIDE DEF passed, ms
  <2>4. passed \in [1 .. Len(ms) -> [from : Nat, to : Nat]]
    BY <2>2, <2>3
  <2> QED BY <1>4, <2>4, MovesOf, Zenon
<1>9. DOMAIN passed = 1 .. Len(ms)
      /\ \A k \in 1 .. Len(ms) : /\ passed[k].from = ms[k].from
                                 /\ passed[k].to = Through(ms[k].to, x, y)
  BY <1>4
<1> HIDE DEF passed
<1>10. Named(passed, D, I2, old, list)
  <2>1. \A k \in 1 .. Len(ms) : ms[k].to \in Nat
    BY <1>4
  <2>2. /\ DOMAIN ms = 1 .. Len(ms) /\ DOMAIN passed = 1 .. Len(ms) /\ Len(ms) \in Nat
        /\ \A k \in 1 .. Len(ms) : /\ passed[k].from = ms[k].from
                                    /\ passed[k].to = Through(ms[k].to, x, y)
    BY <1>4, <1>9, Zenon
  <2>3. Named(ms, D, I, old, new) /\ new \in Seq(Nat) /\ I \subseteq 0 .. Len(new) - 1
    BY <1>1, <1>2, Zenon
  <2>4. list = With(Without(new, x), y, Entry(new, x))
    OBVIOUS
  <2>5. I2 = InsertRangeAt(EraseAt(I, x), y, 1)
    OBVIOUS
  <2> HIDE DEF ms, D, I, I2, list
  <2> QED BY <2>1, <2>2, <2>3, <2>4, <2>5, NamedThrough
<1>11. M2 = PlacesOf(list, S) /\ M2 \subseteq Nat
  <2>1. EraseAt(M, x) = PlacesOf(short, S)
    BY <1>1, <1>2, <1>3, PlacesOfLess
  <2>2. x \in M <=> e \in S
    BY <1>1, <1>2, PlacesOfHas
  <2>3. /\ e \in S => InsertRangeAt(PlacesOf(short, S), y, 1) = PlacesOf(list, S)
        /\ e \notin S => ShiftForInsertAt(PlacesOf(short, S), y, 1) = PlacesOf(list, S)
    BY <1>3, PlacesOfMore
  <2>4. EraseAt(M, x) \subseteq Nat
    BY <1>1, ShiftedAreNat
  <2>5. /\ InsertRangeAt(EraseAt(M, x), y, 1) \subseteq Nat
        /\ ShiftForInsertAt(EraseAt(M, x), y, 1) \subseteq Nat
    BY <2>4, ShiftedAreNat
  <2> HIDE DEF M, e, list, short
  <2> QED BY <2>1, <2>2, <2>3, <2>5
<1>12. I2 \subseteq Nat /\ y \in I2
  <2>1. EraseAt(I, x) \subseteq Nat
    BY <1>1, ShiftedAreNat
  <2> QED BY <1>1, <2>1, ShiftedAreNat, MembersThrough
<1> HIDE DEF M2
<1>13. CASE x \in I
  <2>1. Leads(D, EraseAt(I, x), old, short)
    BY <1>2, <1>13, EraseInsertedLeads
  <2>2. Leads(D, I2, old, list)
    BY <1>3, <2>1, InsertLeads
  <2>3. c = [deletions |-> D, insertions |-> I2, modifications |-> M2, moves |-> passed]
    BY <1>6, <1>13
  <2> HIDE DEF c, D, I2, list
  <2>4. IsExact(c, old, list, S)
    BY <1>1, <1>8, <1>10, <1>11, <1>12, <2>2, <2>3, ExactOf
  <2> QED BY <2>4 DEF c, list
<1>14. CASE x \notin I
  <2> DEFINE d == D \cup {o}
             ms2 == Append(passed, [from |-> o, to |-> y])
  <2>1. Leads(d, EraseAt(I, x), old, short)
    BY <1>2, <1>14, EraseOtherLeads
  <2>2. Leads(d, I2, old, list)
    BY <1>3, <2>1, InsertLeads
  <2>3. c = [deletions |-> d, insertions |-> I2, modifications |-> M2, moves |-> ms2]
    BY <1>6, <1>7, <1>14
  <2>4. o \in Nat /\ Entry(old, o) = Entry(new, x)
    BY <1>2, <1>14, OriginRight DEF Origin
  <2>5. Entry(list, y) = Entry(new, x)
    BY <1>3, PlaceNew
  <2>6. \A k \in DOMAIN passed : passed[k].to # y
    <3>1. ASSUME NEW k \in DOMAIN passed, passed[k].to = y PROVE FALSE
      <4>1. k \in DOMAIN ms /\ passed[k].to = Through(ms[k].to, x, y) /\ ms[k].to \in Nat
        BY <1>4, <1>9
      <4>2. ms[k].to \in I
        BY <1>2, <4>1 DEF Named
      <4>3. Through(x, x, y) = y
        BY DEF Through
      <4>4. ms[k].to = x
        BY <3>1, <4>1, <4>3, ThroughApart
      <4> QED BY <1>14, <4>2, <4>4
    <3> QED BY <3>1
  <2> HIDE DEF c, D, I2, list, o
  <2>7. ms2 \in Moves /\ Named(ms2, d, I2, old, list)
    BY <1>8, <1>10, <1>12, <2>4, <2>5, <2>6, NamedAppend
  <2>8. d \subseteq Nat
    BY <1>1, <2>4
  <2> HIDE DEF d, ms2
  <2>9. IsExact(c, old, list, S)
    BY <1>11, <1>12, <2>2, <2>3, <2>7, <2>8, ExactOf
  <2> QED BY <2>9 DEF c, list
<1> QED BY <1>13, <1>14

\* the entries of the list are distinct
Apart(list) ==
  \A i, j \in Nat : i < Len(list) /\ j < Len(list) /\ Entry(list, i) = Entry(list, j) => i = j

\* Setting an entry.
LEMMA ModifiedExact ==
  ASSUME NEW b, NEW old, NEW new, NEW S, IsExact(b, old, new, S), Apart(new),
         NEW x \in Nat, x < Len(new)
  PROVE  IsExact(ModifiedAt(b, x), old, new, S \cup {Entry(new, x)})
<1> DEFINE T == S \cup {Entry(new, x)}
           M == b.modifications \cup {x}
           c == ModifiedAt(b, x)
<1>1. /\ b.deletions \subseteq Nat /\ b.insertions \subseteq Nat
      /\ b.modifications \subseteq Nat /\ b.moves \in Moves /\ Len(new) \in Nat
  BY ExactParts
<1>2. /\ b \in ChangeRecords /\ Leads(b.deletions, b.insertions, old, new)
      /\ Named(b.moves, b.deletions, b.insertions, old, new)
      /\ b.modifications = PlacesOf(new, S)
  BY DEF IsExact
<1>3. /\ c.deletions = b.deletions /\ c.insertions = b.insertions
      /\ c.modifications = M /\ c.moves = b.moves
  BY <1>2 DEF ModifiedAt, ChangeRecords
<1>8. c \in ChangeRecords
  BY <1>1, <1>2 DEF ModifiedAt, ChangeRecords
<1>4. M \subseteq Nat
  BY <1>1
<1>5. ASSUME NEW j PROVE j \in M <=> j \in PlacesOf(new, T)
  <2>1. j \in PlacesOf(new, T) <=> j \in Nat /\ j < Len(new) /\ Entry(new, j) \in T
    BY <1>1, PlacesOfHas
  <2>2. j \in PlacesOf(new, S) <=> j \in Nat /\ j < Len(new) /\ Entry(new, j) \in S
    BY <1>1, PlacesOfHas
  <2>3. j \in Nat /\ j < Len(new) /\ Entry(new, j) = Entry(new, x) => j = x
    BY DEF Apart
  <2> QED BY <1>2, <2>1, <2>2, <2>3
<1>6. M = PlacesOf(new, T)
  BY <1>5
<1> HIDE DEF M, c, T
<1>7. IsExact(c, old, new, T)
  BY <1>2, <1>3, <1>6, <1>8 DEF IsExact
<1> QED BY <1>7 DEF c, T

\* Clearing the list: everything it began with is deleted.
LEMMA ClearedExact ==
  ASSUME NEW b, NEW old, NEW new, NEW S, IsExact(b, old, new, S)
  PROVE  IsExact(Cleared(b, Len(new)), old, << >>, S)
<1> DEFINE n == Len(old)
           D == 0 .. n - 1
           c == Cleared(b, Len(new))
<1>1. Leads(b.deletions, b.insertions, old, new)
  BY DEF IsExact
<1>2. Known(b.deletions, b.insertions, old, new)
  BY <1>1, LeadsKnown
<1>3. /\ n \in Nat /\ Len(new) \in Nat /\ Cardinality(b.deletions) \in Nat
      /\ Cardinality(b.insertions) \in Nat
      /\ n - Cardinality(b.deletions) = Len(new) - Cardinality(b.insertions)
  BY <1>2 DEF Known
<1>4. Len(new) + Cardinality(b.deletions) - Cardinality(b.insertions) - 1 = n - 1
  BY <1>3
<1>15. D \subseteq Nat
  BY <1>3
<1>16. NoChange \in ChangeRecords /\ NoChange.insertions = {}
       /\ NoChange.modifications = {} /\ NoChange.moves = << >>
  <2>1. << >> \in Moves
    BY EmptySeq DEF Moves
  <2> QED BY <2>1 DEF NoChange, ChangeRecords
<1>17. c = [NoChange EXCEPT !.deletions = D]
  BY <1>4 DEF Cleared
<1> HIDE DEF D, c
<1>5. /\ c.deletions = D /\ c.insertions = {} /\ c.modifications = {} /\ c.moves = << >>
      /\ c \in ChangeRecords
  BY <1>15, <1>16, <1>17 DEF ChangeRecords
<1>6. old \in Seq(Nat)
  BY ExactParts
<1>7. << >> \in Seq(Nat) /\ Len(<< >>) = 0
  BY EmptySeq
<1>8. Cardinality(D) = n /\ Cardinality({}) = 0
  <2>1. 0 \in Int /\ n - 1 \in Int
    BY <1>3
  <2>2. Cardinality(D) = IF 0 > n - 1 THEN 0 ELSE (n - 1) - 0 + 1
    BY <2>1, FS_Interval, Zenon DEF D
  <2> QED BY <1>3, <2>2, FS_EmptySet
<1>9. Leads(D, {}, old, << >>)
  <2>1. Correspond(D, {}, old, << >>)
    BY <1>3, <1>7 DEF Correspond, D
  <2>2. {} \subseteq 0 .. Len(<< >>) - 1 /\ D \subseteq 0 .. Len(old) - 1
        /\ n - Cardinality(D) = Len(<< >>) - Cardinality({})
    BY <1>3, <1>7, <1>8 DEF D
  <2> QED BY <1>6, <1>7, <2>1, <2>2, LeadsIs, Zenon
<1>10. Named(<< >>, D, {}, old, << >>)
  BY DEF Named
<1>11. {} = PlacesOf(<< >>, S)
  BY <1>7 DEF PlacesOf, Positions
<1>12. IsExact(c, old, << >>, S)
  BY <1>5, <1>9, <1>10, <1>11 DEF IsExact
<1> QED BY <1>12 DEF c

\* Nothing has happened yet.
LEMMA NoChangeExact ==
  ASSUME NEW list, list \in Seq(Nat)
  PROVE  IsExact(NoChange, list, list, {})
<1>1. NoChange = [deletions |-> {}, insertions |-> {}, modifications |-> {}, moves |-> << >>]
  BY DEF NoChange
<1>2. Len(list) \in Nat /\ Cardinality({}) = 0
  BY FS_EmptySet
<1>3. \A i \in Nat : Unshift({}, i) = i
  <2>1. ASSUME NEW i \in Nat PROVE Unshift({}, i) = i
    <3>1. CountIn({}, 0, i) = Cardinality({})
      <4>1. {k \in {} : 0 <= k /\ k < i} = {}
        OBVIOUS
      <4> QED BY <4>1 DEF CountIn
    <3> QED BY <1>2, <3>1 DEF Unshift
  <2> QED BY <2>1
<1>4. Correspond({}, {}, list, list)
  BY <1>3 DEF Correspond
<1>5. Leads({}, {}, list, list)
  <2>1. {} \subseteq 0 .. Len(list) - 1 /\ Len(list) - Cardinality({}) = Len(list) - Cardinality({})
    BY <1>2
  <2> QED BY <1>4, <2>1, LeadsIs, Zenon
<1>6. << >> \in Moves
  BY EmptySeq DEF Moves
<1>7. Named(<< >>, {}, {}, list, list)
  BY DEF Named
<1>8. {} = PlacesOf(list, {})
  BY DEF PlacesOf
<1>9. \A D : {} \subseteq D
  OBVIOUS
<1> QED BY <1>1, <1>5, <1>6, <1>7, <1>8, <1>9, ExactOf

----------------------------------------------------------------------------
(* The entries after an instruction                                        *)

\* a list of distinct entries up to n
Distinct(list, n) ==
  /\ list \in Seq(Nat)
  /\ Apart(list)
  /\ \A i \in Nat : i < Len(list) => Entry(list, i) \in 1 .. n

\* Where the entry at k was before one was moved from x to y.
Back(k, x, y) == IF k = y THEN x
                 ELSE IF x <= k /\ k < y THEN k + 1
                 ELSE IF y < k /\ k <= x THEN k - 1 ELSE k

\* list has the entries of new, the one at x moved to y
Rearranged(new, list, x, y) ==
  /\ list \in Seq(Nat) /\ Len(list) = Len(new)
  /\ \A k \in Nat : k < Len(new) => /\ Back(k, x, y) \in Nat /\ Back(k, x, y) < Len(new)
                                    /\ Entry(list, k) = Entry(new, Back(k, x, y))

\* The entries after a move.
LEMMA EntriesMoved ==
  ASSUME NEW new, new \in Seq(Nat), NEW x \in Nat, x < Len(new), NEW y \in Nat, y < Len(new),
         NEW list, list = With(Without(new, x), y, Entry(new, x))
  PROVE  Rearranged(new, list, x, y)
<1> DEFINE short == Without(new, x)
           e == Entry(new, x)
           n == Len(new)
<1>0. n \in Nat
  OBVIOUS
<1>1. EntryLess(new, x, short) /\ EntryMore(short, y, e, list)
  BY MovedEntries
<1> HIDE DEF short
<1>2. /\ short \in Seq(Nat) /\ Len(short) = n - 1
      /\ \A k \in 0 .. n - 2 :
           Entry(short, k) = IF k < x THEN Entry(new, k) ELSE Entry(new, k + 1)
  BY <1>1 DEF EntryLess
<1>3. /\ list \in Seq(Nat) /\ Len(list) = n
      /\ \A k \in 0 .. n - 1 :
           Entry(list, k) = IF k < y THEN Entry(short, k)
                            ELSE IF k = y THEN e ELSE Entry(short, k - 1)
  BY <1>0, <1>1, <1>2 DEF EntryMore
<1>4. ASSUME NEW k \in Nat, k < n
      PROVE  /\ Back(k, x, y) \in Nat /\ Back(k, x, y) < n
             /\ Entry(list, k) = Entry(new, Back(k, x, y))
  <2>0. Back(k, x, y) \in Nat /\ Back(k, x, y) < n
    BY <1>0, <1>4 DEF Back
  <2>1. CASE k = y
    BY <1>0, <1>3, <1>4, <2>0, <2>1 DEF Back
  <2>2. CASE k < y
    <3>1. k \in 0 .. n - 1 /\ k \in 0 .. n - 2
      BY <1>0, <1>4, <2>2
    <3>2. Entry(list, k) = Entry(short, k)
      BY <1>3, <2>2, <3>1
    <3>3. Entry(list, k) = IF k < x THEN Entry(new, k) ELSE Entry(new, k + 1)
      BY <1>2, <3>1, <3>2
    <3>4. Back(k, x, y) = IF k < x THEN k ELSE k + 1
      BY <2>2, <3>1 DEF Back
    <3> QED BY <2>0, <3>3, <3>4
  <2>3. CASE k > y
    <3>1. k \in 0 .. n - 1 /\ k - 1 \in 0 .. n - 2 /\ (k - 1) + 1 = k
      BY <1>0, <1>4, <2>3
    <3>2. Entry(list, k) = Entry(short, k - 1)
      BY <1>3, <2>3, <3>1
    <3>3. Entry(list, k) = IF k - 1 < x THEN Entry(new, k - 1) ELSE Entry(new, k)
      BY <1>2, <3>1, <3>2
    <3>4. Back(k, x, y) = IF k - 1 < x THEN k - 1 ELSE k
      BY <2>3, <3>1 DEF Back
    <3> QED BY <2>0, <3>3, <3>4
  <2> QED BY <1>4, <2>1, <2>2, <2>3
<1> QED BY <1>3, <1>4 DEF Rearranged

\* A move keeps the entries distinct.
LEMMA DistinctMoved ==
  ASSUME NEW new, NEW n \in Nat, Distinct(new, n),
         NEW x \in Nat, x < Len(new), NEW y \in Nat, y < Len(new)
  PROVE  Distinct(With(Without(new, x), y, Entry(new, x)), n)
<1> DEFINE list == With(Without(new, x), y, Entry(new, x))
<1>1. new \in Seq(Nat)
  BY DEF Distinct
<1>0. Rearranged(new, list, x, y)
  BY <1>1, EntriesMoved
<1> HIDE DEF list
<1>2. /\ list \in Seq(Nat) /\ Len(list) = Len(new)
      /\ \A k \in Nat : k < Len(new) => /\ Back(k, x, y) \in Nat /\ Back(k, x, y) < Len(new)
                                        /\ Entry(list, k) = Entry(new, Back(k, x, y))
  BY <1>0 DEF Rearranged
<1>3. ASSUME NEW i \in Nat, NEW j \in Nat, i < Len(list), j < Len(list),
             Entry(list, i) = Entry(list, j)
      PROVE  i = j
  <2>1. Back(i, x, y) = Back(j, x, y)
    BY <1>2, <1>3 DEF Distinct, Apart
  <2> QED BY <2>1 DEF Back
<1>4. \A i \in Nat : i < Len(list) => Entry(list, i) \in 1 .. n
  BY <1>2 DEF Distinct
<1>5. Distinct(list, n)
  BY <1>2, <1>3, <1>4 DEF Distinct, Apart
<1> QED BY <1>5 DEF list

\* So does erasing one.
LEMMA DistinctErased ==
  ASSUME NEW new, NEW n \in Nat, Distinct(new, n), NEW x \in Nat, x < Len(new)
  PROVE  Distinct(Without(new, x), n)
<1> DEFINE list == Without(new, x)
           g(k) == IF k < x THEN k ELSE k + 1
<1>1. new \in Seq(Nat) /\ Len(new) \in Nat
  BY DEF Distinct
<1>2. EntryLess(new, x, list)
  BY <1>1, WithoutEntries
<1> HIDE DEF list
<1>3. list \in Seq(Nat) /\ Len(list) = Len(new) - 1
  BY <1>2 DEF EntryLess
<1>4. ASSUME NEW k \in Nat, k < Len(list)
      PROVE  g(k) \in Nat /\ g(k) < Len(new) /\ Entry(list, k) = Entry(new, g(k))
  <2>1. k \in 0 .. Len(new) - 2
    BY <1>1, <1>3, <1>4
  <2>2. Entry(list, k) = IF k < x THEN Entry(new, k) ELSE Entry(new, k + 1)
    BY <1>2, <2>1 DEF EntryLess
  <2> QED BY <1>1, <2>1, <2>2
<1>5. ASSUME NEW i \in Nat, NEW j \in Nat, i < Len(list), j < Len(list),
             Entry(list, i) = Entry(list, j)
      PROVE  i = j
  <2>1. g(i) = g(j)
    <3> HIDE DEF g
    <3> QED BY <1>4, <1>5 DEF Distinct, Apart
  <2> QED BY <2>1
<1> HIDE DEF g
<1>6. \A i \in Nat : i < Len(list) => Entry(list, i) \in 1 .. n
  BY <1>4 DEF Distinct
<1>7. Distinct(list, n)
  BY <1>3, <1>5, <1>6 DEF Distinct, Apart
<1> QED BY <1>7 DEF list

\* So does inserting one that is new.
LEMMA DistinctInserted ==
  ASSUME NEW new, NEW n \in Nat, Distinct(new, n), NEW x \in Nat, x <= Len(new)
  PROVE  Distinct(With(new, x, n + 1), n + 1)
<1> DEFINE list == With(new, x, n + 1)
           g(k) == IF k < x THEN k ELSE k - 1
<1>1. new \in Seq(Nat) /\ Len(new) \in Nat
  BY DEF Distinct
<1>2. EntryMore(new, x, n + 1, list)
  BY <1>1, WithEntries
<1> HIDE DEF list
<1>3. list \in Seq(Nat) /\ Len(list) = Len(new) + 1
  BY <1>2 DEF EntryMore
<1>4. ASSUME NEW k \in Nat, k < Len(list)
      PROVE  /\ k = x => Entry(list, k) = n + 1
             /\ k # x => g(k) \in Nat /\ g(k) < Len(new) /\ Entry(list, k) = Entry(new, g(k))
  <2>1. k \in 0 .. Len(new)
    BY <1>1, <1>3, <1>4
  <2>2. Entry(list, k) = IF k < x THEN Entry(new, k) ELSE IF k = x THEN n + 1 ELSE Entry(new, k - 1)
    BY <1>2, <2>1 DEF EntryMore
  <2> QED BY <1>1, <2>1, <2>2
<1>5. ASSUME NEW k \in Nat, k < Len(list), k # x PROVE Entry(list, k) \in 1 .. n
  BY <1>4, <1>5 DEF Distinct
<1>6. ASSUME NEW i \in Nat, NEW j \in Nat, i < Len(list), j < Len(list),
             Entry(list, i) = Entry(list, j)
      PROVE  i = j
  <2>1. CASE i = x \/ j = x
    <3>1. n + 1 \notin 1 .. n
      OBVIOUS
    <3> HIDE DEF g
    <3> QED BY <1>4, <1>5, <1>6, <2>1, <3>1
  <2>2. CASE i # x /\ j # x
    <3>1. g(i) = g(j)
      <4> HIDE DEF g
      <4> QED BY <1>4, <1>6, <2>2 DEF Distinct, Apart
    <3> QED BY <2>2, <3>1
  <2> QED BY <2>1, <2>2
<1>7. \A i \in Nat : i < Len(list) => Entry(list, i) \in 1 .. n + 1
  <2>1. ASSUME NEW i \in Nat, i < Len(list) PROVE Entry(list, i) \in 1 .. n + 1
    <3> HIDE DEF g
    <3>1. Entry(list, i) = n + 1 \/ Entry(list, i) \in 1 .. n
      BY <1>4, <1>5, <2>1
    <3> QED BY <3>1
  <2> QED BY <2>1
<1>8. Distinct(list, n + 1)
  BY <1>3, <1>6, <1>7 DEF Distinct, Apart
<1> QED BY <1>8 DEF list

----------------------------------------------------------------------------
(* Swapping two entries                                                    *)

\* list with the entries at i and j swapped
Swap(list, i, j) == [list EXCEPT ![i + 1] = Entry(list, j), ![j + 1] = Entry(list, i)]

\* list with the entry at x moved to y
Move(list, x, y) == With(Without(list, x), y, Entry(list, x))

\* The entries after a swap.
LEMMA EntriesSwapped ==
  ASSUME NEW list, list \in Seq(Nat), NEW i \in Nat, NEW j \in Nat, i < j, j < Len(list)
  PROVE  /\ Swap(list, i, j) \in Seq(Nat) /\ Len(Swap(list, i, j)) = Len(list)
         /\ \A k \in Nat : k < Len(list) =>
              Entry(Swap(list, i, j), k) = IF k = i THEN Entry(list, j)
                                           ELSE IF k = j THEN Entry(list, i) ELSE Entry(list, k)
<1> DEFINE n == Len(list)
           new == Swap(list, i, j)
<1>1. n \in Nat /\ list \in [1 .. n -> Nat]
  OBVIOUS
<1>2. i + 1 \in 1 .. n /\ j + 1 \in 1 .. n /\ i + 1 # j + 1
  BY <1>1
<1>3. list[i + 1] \in Nat /\ list[j + 1] \in Nat
  BY <1>1, <1>2
<1>4. new \in [1 .. n -> Nat]
  BY <1>1, <1>2, <1>3 DEF Swap, Entry
<1>5. \A k \in 1 .. n : new[k] = IF k = j + 1 THEN list[i + 1]
                                 ELSE IF k = i + 1 THEN list[j + 1] ELSE list[k]
  BY <1>1, <1>2 DEF Swap, Entry
<1> HIDE DEF new
<1>6. new \in Seq(Nat) /\ Len(new) = n
  <2> HIDE DEF n
  <2> QED BY <1>1, <1>4
<1>7. ASSUME NEW k \in Nat, k < n
      PROVE  Entry(new, k) = IF k = i THEN Entry(list, j)
                             ELSE IF k = j THEN Entry(list, i) ELSE Entry(list, k)
  <2>1. k + 1 \in 1 .. n /\ (k + 1 = j + 1 <=> k = j) /\ (k + 1 = i + 1 <=> k = i) /\ i # j
    BY <1>1, <1>7
  <2> QED BY <1>5, <2>1 DEF Entry
<1> QED BY <1>6, <1>7 DEF new

\* Lists with the same entries are the same.
LEMMA SameEntries ==
  ASSUME NEW s, NEW t, s \in Seq(Nat), t \in Seq(Nat), Len(s) = Len(t),
         \A k \in Nat : k < Len(s) => Entry(s, k) = Entry(t, k)
  PROVE  s = t
<1>0. Len(s) \in Nat
  OBVIOUS
<1>1. ASSUME NEW k \in 1 .. Len(s) PROVE s[k] = t[k]
  <2>1. k - 1 \in Nat /\ k - 1 < Len(s) /\ (k - 1) + 1 = k
    BY <1>0
  <2>2. Entry(s, k - 1) = Entry(t, k - 1)
    BY <2>1
  <2> QED BY <2>1, <2>2 DEF Entry
<1> QED BY <1>1, SeqEqual

\* A swap is two moves; one, of neighbours (list_swap).
LEMMA SwapIsMoves ==
  ASSUME NEW list, list \in Seq(Nat), NEW i \in Nat, NEW j \in Nat, i < j, j < Len(list)
  PROVE  Swap(list, i, j) = IF i + 1 # j THEN Move(Move(list, i, j), j - 1, i) ELSE Move(list, i, j)
<1> DEFINE n == Len(list)
           s == Swap(list, i, j)
           one == Move(list, i, j)
           two == Move(one, j - 1, i)
<1>0. n \in Nat /\ i < n /\ j - 1 \in Nat /\ j - 1 < n
  OBVIOUS
<1>1. /\ s \in Seq(Nat) /\ Len(s) = n
      /\ \A k \in Nat : k < n =>
           Entry(s, k) = IF k = i THEN Entry(list, j)
                         ELSE IF k = j THEN Entry(list, i) ELSE Entry(list, k)
  BY EntriesSwapped
<1>2. /\ one \in Seq(Nat) /\ Len(one) = n
      /\ \A k \in Nat : k < n => Back(k, i, j) \in Nat /\ Back(k, i, j) < n
                                 /\ Entry(one, k) = Entry(list, Back(k, i, j))
  <2>1. Rearranged(list, one, i, j)
    BY <1>0, EntriesMoved DEF Move
  <2> QED BY <2>1 DEF Rearranged
<1> HIDE DEF one
<1>3. /\ two \in Seq(Nat) /\ Len(two) = n
      /\ \A k \in Nat : k < n => Back(k, j - 1, i) \in Nat /\ Back(k, j - 1, i) < n
                                 /\ Entry(two, k) = Entry(one, Back(k, j - 1, i))
  <2>1. i < Len(one) /\ j - 1 < Len(one)
    BY <1>0, <1>2
  <2>2. Rearranged(one, two, j - 1, i)
    BY <1>0, <1>2, <2>1, EntriesMoved DEF Move
  <2> QED BY <1>2, <2>2 DEF Rearranged
<1> HIDE DEF two, s, n
<1>4. CASE i + 1 # j
  <2>1. ASSUME NEW k \in Nat, k < n PROVE Entry(s, k) = Entry(two, k)
    <3> DEFINE a == Back(k, j - 1, i)
               c == Back(a, i, j)
    <3>1. Entry(two, k) = Entry(one, a) /\ a \in Nat /\ a < n
      BY <1>3, <2>1
    <3>2. Entry(two, k) = Entry(list, c)
      <4> HIDE DEF a
      <4> QED BY <1>2, <3>1
    <3>3. c = IF k = i THEN j ELSE IF k = j THEN i ELSE k
      BY <1>0, <1>4 DEF Back
    <3> HIDE DEF a, c
    <3> QED BY <1>1, <2>1, <3>2, <3>3
  <2>2. s = two
    BY <1>1, <1>3, <2>1, SameEntries
  <2> QED BY <1>4, <2>2 DEF s, two, one
<1>5. CASE i + 1 = j
  <2>1. ASSUME NEW k \in Nat, k < n PROVE Entry(s, k) = Entry(one, k)
    <3> DEFINE a == Back(k, i, j)
    <3>1. Entry(one, k) = Entry(list, a)
      BY <1>2, <2>1
    <3>2. a = IF k = i THEN j ELSE IF k = j THEN i ELSE k
      BY <1>0, <1>5 DEF Back
    <3> HIDE DEF a
    <3> QED BY <1>1, <2>1, <3>1, <3>2
  <2>2. s = one
    BY <1>1, <1>2, <2>1, SameEntries
  <2> QED BY <1>5, <2>2 DEF s, one
<1> QED BY <1>4, <1>5

----------------------------------------------------------------------------
(* Positions carried from one list to the other                            *)

\* where the position v of the list that I was inserted into was before D was deleted
At(D, I, v) == Shift(D, Unshift(I, v))

\* where the positions Y were
Carried(D, I, Y) == {At(D, I, v) : v \in Y}

\* A position that was not inserted was at one that was not deleted.
LEMMA AtIs ==
  ASSUME NEW D, IsIndexSet(D), NEW I, IsIndexSet(I), NEW v \in Nat
  PROVE  At(D, I, v) \in Nat /\ At(D, I, v) \notin D /\ Unshift(D, At(D, I, v)) = Unshift(I, v)
<1>1. Unshift(I, v) \in Nat
  BY UnshiftNumbers
<1> QED BY <1>1, ShiftInverts DEF At

\* Positions with the same number are the same.
LEMMA SameNumber ==
  ASSUME NEW s, IsIndexSet(s), NEW i \in Nat, i \notin s, NEW j \in Nat, j \notin s,
         Unshift(s, i) = Unshift(s, j)
  PROVE  i = j
<1>1. i < j <=> Unshift(s, i) < Unshift(s, j)
  BY NumbersApart
<1>2. j < i <=> Unshift(s, j) < Unshift(s, i)
  BY NumbersApart
<1>3. Unshift(s, i) \in Nat
  BY UnshiftNumbers
<1> QED BY <1>1, <1>2, <1>3

\* Positions keep their order.
LEMMA AtOrder ==
  ASSUME NEW D, IsIndexSet(D), NEW I, IsIndexSet(I), NEW v \in Nat, v \notin I,
         NEW i \in Nat, i \notin D, NEW j \in Nat, j \notin I, Unshift(D, i) = Unshift(I, j)
  PROVE  /\ v < j <=> At(D, I, v) < i
         /\ v = j <=> At(D, I, v) = i
<1> DEFINE a == At(D, I, v)
<1>1. a \in Nat /\ a \notin D /\ Unshift(D, a) = Unshift(I, v)
  BY AtIs
<1> HIDE DEF a
<1>2. v < j <=> Unshift(I, v) < Unshift(I, j)
  BY NumbersApart
<1>3. a < i <=> Unshift(D, a) < Unshift(D, i)
  BY <1>1, NumbersApart
<1>4. v = j => a = i
  BY <1>1, SameNumber
<1>5. a = i => v = j
  BY <1>1, SameNumber
<1>6. v < j <=> a < i
  BY <1>1, <1>2, <1>3
<1> QED BY <1>4, <1>5, <1>6 DEF a

\* A set has as many elements as its image under an injection.
LEMMA SameSize ==
  ASSUME NEW S, IsFiniteSet(S), NEW T, NEW f \in [S -> T],
         \A x, y \in S : f[x] = f[y] => x = y, \A z \in T : \E x \in S : f[x] = z
  PROVE  IsFiniteSet(T) /\ Cardinality(T) = Cardinality(S)
<1>1. f \in Bijection(S, T)
  BY DEF Bijection, Injection, Surjection, IsInjective
<1>2. ExistsBijection(S, T)
  BY <1>1 DEF ExistsBijection
<1> QED BY <1>2, FS_Bijection

\* Two sets apart are counted one after the other.
LEMMA BelowUnion ==
  ASSUME NEW s, IsIndexSet(s), NEW t, IsIndexSet(t), s \cap t = {}, NEW k \in Nat
  PROVE  /\ IsIndexSet(s \cup t)
         /\ Cardinality(s \cup t) = Cardinality(s) + Cardinality(t)
         /\ Below(s \cup t, k) = Below(s, k) + Below(t, k)
<1> DEFINE L(u) == {i \in u : 0 <= i /\ i < k}
<1>1. IsFiniteSet(s) /\ IsFiniteSet(t) /\ s \subseteq Nat /\ t \subseteq Nat
  BY DEF IsIndexSet
<1>2. Cardinality({}) = 0
  BY FS_EmptySet
<1>3. IsFiniteSet(s \cup t) /\ Cardinality(s \cup t) = Cardinality(s) + Cardinality(t)
  <2>1. Cardinality(s) \in Nat /\ Cardinality(t) \in Nat
    BY <1>1, FS_CardinalityType
  <2>2. IsFiniteSet(s \cup t)
        /\ Cardinality(s \cup t) = Cardinality(s) + Cardinality(t) - Cardinality(s \cap t)
    BY <1>1, FS_Union
  <2>3. Cardinality(s \cap t) = 0
    BY <1>2, Zenon
  <2> QED BY <2>1, <2>2, <2>3
<1>4. IsFiniteSet(L(s)) /\ IsFiniteSet(L(t))
  BY <1>1, FS_Subset
<1>5. Cardinality(L(s)) \in Nat /\ Cardinality(L(t)) \in Nat
  BY <1>4, FS_CardinalityType
<1>6. L(s \cup t) = L(s) \cup L(t) /\ L(s) \cap L(t) = {}
  OBVIOUS
<1> HIDE DEF L
<1>7. Cardinality(L(s) \cup L(t)) = Cardinality(L(s)) + Cardinality(L(t)) - Cardinality(L(s) \cap L(t))
  BY <1>4, FS_Union
<1>8. Cardinality(L(s \cup t)) = Cardinality(L(s)) + Cardinality(L(t))
  <2>1. Cardinality(L(s) \cap L(t)) = 0
    BY <1>2, <1>6, Zenon
  <2>2. Cardinality(L(s) \cup L(t)) = Cardinality(L(s)) + Cardinality(L(t))
    BY <1>5, <1>7, <2>1
  <2> QED BY <1>6, <2>2, Zenon
<1>9. s \cup t \subseteq Nat
  BY <1>1
<1> QED BY <1>3, <1>8, <1>9 DEF L, Below, CountIn, IsIndexSet

\* The positions that Y was carried to are as many, and none of those deleted.
LEMMA CarriedIs ==
  ASSUME NEW D, IsIndexSet(D), NEW I, IsIndexSet(I), NEW Y, IsIndexSet(Y), Y \cap I = {}
  PROVE  /\ IsIndexSet(Carried(D, I, Y)) /\ D \cap Carried(D, I, Y) = {}
         /\ Cardinality(Carried(D, I, Y)) = Cardinality(Y)
<1> DEFINE X == Carried(D, I, Y)
           f == [v \in Y |-> At(D, I, v)]
<1>1. \A v \in Y : v \in Nat /\ v \notin I
  BY DEF IsIndexSet
<1>2. \A v \in Y : At(D, I, v) \in Nat /\ At(D, I, v) \notin D
                   /\ Unshift(D, At(D, I, v)) = Unshift(I, v)
  BY <1>1, AtIs
<1>3. X \subseteq Nat /\ D \cap X = {}
  BY <1>2 DEF Carried
<1>4. ASSUME NEW v \in Y, NEW w \in Y, At(D, I, v) = At(D, I, w) PROVE v = w
  <2>1. Unshift(I, v) = Unshift(I, w)
    BY <1>2, <1>4
  <2> QED BY <1>1, <2>1, SameNumber
<1>5. f \in [Y -> X] /\ \A v \in Y : f[v] = At(D, I, v)
  BY DEF Carried
<1>6. \A z \in X : \E v \in Y : At(D, I, v) = z
  BY DEF Carried
<1>7. IsFiniteSet(Y)
  BY DEF IsIndexSet
<1> HIDE DEF f, X
<1>8. \A x, y \in Y : f[x] = f[y] => x = y
  BY <1>4, <1>5
<1>9. \A z \in X : \E x \in Y : f[x] = z
  BY <1>5, <1>6
<1>10. IsFiniteSet(X) /\ Cardinality(X) = Cardinality(Y)
  BY <1>5, <1>7, <1>8, <1>9, SameSize
<1> QED BY <1>3, <1>10 DEF IsIndexSet, X

\* Below corresponding positions there are as many of them.
LEMMA CarriedBelow ==
  ASSUME NEW D, IsIndexSet(D), NEW I, IsIndexSet(I), NEW Y, IsIndexSet(Y), Y \cap I = {},
         NEW i \in Nat, i \notin D, NEW j \in Nat, j \notin I, Unshift(D, i) = Unshift(I, j)
  PROVE  /\ Below(Carried(D, I, Y), i) = Below(Y, j)
         /\ i \in Carried(D, I, Y) <=> j \in Y
<1> DEFINE X == Carried(D, I, Y)
           S == {v \in Y : 0 <= v /\ v < j}
           T == {a \in X : 0 <= a /\ a < i}
           f == [v \in S |-> At(D, I, v)]
<1>1. \A v \in Y : v \in Nat /\ v \notin I
  BY DEF IsIndexSet
<1>2. \A v \in Y : At(D, I, v) \in Nat /\ At(D, I, v) \in X
                   /\ Unshift(D, At(D, I, v)) = Unshift(I, v)
  BY <1>1, AtIs DEF Carried
<1>3. \A v \in Y : (v < j <=> At(D, I, v) < i) /\ (v = j <=> At(D, I, v) = i)
  BY <1>1, AtOrder
<1>4. \A z \in X : \E v \in Y : At(D, I, v) = z
  BY DEF Carried
<1> HIDE DEF X
<1>5. ASSUME NEW v \in Y, NEW w \in Y, At(D, I, v) = At(D, I, w) PROVE v = w
  <2>1. Unshift(I, v) = Unshift(I, w)
    BY <1>2, <1>5
  <2> QED BY <1>1, <2>1, SameNumber
<1>6. f \in [S -> T] /\ \A v \in S : f[v] = At(D, I, v)
  BY <1>2, <1>3
<1>7. IsFiniteSet(S)
  BY FS_Subset DEF IsIndexSet
<1>8. ASSUME NEW z \in T PROVE \E v \in S : At(D, I, v) = z
  <2>1. PICK v \in Y : At(D, I, v) = z
    BY <1>4
  <2>2. v < j /\ v \in Nat
    BY <1>1, <1>3, <2>1
  <2> QED BY <2>1, <2>2
<1>9. \A v \in S : v \in Y
  OBVIOUS
<1>10. Below(Y, j) = Cardinality(S) /\ Below(X, i) = Cardinality(T)
  BY DEF Below, CountIn
<1> HIDE DEF f, S, T
<1>11. \A x, y \in S : f[x] = f[y] => x = y
  BY <1>5, <1>6, <1>9
<1>12. \A z \in T : \E x \in S : f[x] = z
  BY <1>6, <1>8
<1>13. Cardinality(T) = Cardinality(S)
  BY <1>6, <1>7, <1>11, <1>12, SameSize
<1>14. i \in X <=> j \in Y
  BY <1>2, <1>3, <1>4
<1> QED BY <1>10, <1>13, <1>14 DEF X

\* Corresponding positions have the same number when Y is gone from the one list and
\* from the other.
LEMMA CarriedNumbers ==
  ASSUME NEW D, IsIndexSet(D), NEW I, IsIndexSet(I), NEW Y, IsIndexSet(Y), Y \cap I = {},
         NEW i \in Nat, i \notin D, NEW j \in Nat, j \notin I, Unshift(D, i) = Unshift(I, j)
  PROVE  Unshift(D \cup Carried(D, I, Y), i) = Unshift(I \cup Y, j)
<1> DEFINE X == Carried(D, I, Y)
<1>1. IsIndexSet(X) /\ D \cap X = {}
  BY CarriedIs
<1>2. Below(X, i) = Below(Y, j)
  BY CarriedBelow
<1> HIDE DEF X
<1>3. Below(D \cup X, i) = Below(D, i) + Below(X, i)
  BY <1>1, BelowUnion
<1>4. I \cap Y = {}
  OBVIOUS
<1>5. Below(I \cup Y, j) = Below(I, j) + Below(Y, j)
  BY <1>4, BelowUnion
<1>6. /\ Below(D, i) \in Nat /\ Below(X, i) \in Nat /\ Below(I, j) \in Nat
  BY <1>1, BelowNext
<1>7. i - Below(D, i) = j - Below(I, j)
  BY DEF Unshift, Below
<1>8. i - Below(D \cup X, i) = j - Below(I \cup Y, j)
  BY <1>2, <1>3, <1>5, <1>6, <1>7
<1> QED BY <1>8 DEF Unshift, Below, X

\* What leads from one list to the other leads back.
LEMMA LeadsBack ==
  ASSUME NEW D, NEW I, NEW old, NEW new, Leads(D, I, old, new)
  PROVE  Leads(I, D, new, old)
<1>1. /\ old \in Seq(Nat) /\ new \in Seq(Nat)
      /\ D \subseteq 0 .. Len(old) - 1 /\ I \subseteq 0 .. Len(new) - 1
      /\ Len(old) - Cardinality(D) = Len(new) - Cardinality(I)
      /\ Correspond(D, I, old, new)
  BY LeadsIs, Zenon
<1>2. Correspond(I, D, new, old)
  BY <1>1, Zenon DEF Correspond
<1> QED BY <1>1, <1>2, LeadsIs, Zenon

\* The position j of the new list is i of the old one, the entry the same.
Stays(D, I, old, new, i, j) ==
  /\ i \in Nat /\ i < Len(old) /\ i \notin D
  /\ j \in Nat /\ j < Len(new) /\ j \notin I
  /\ Unshift(D, i) = Unshift(I, j)
  /\ Entry(old, i) = Entry(new, j)

\* Every entry that was not inserted was somewhere.
LEMMA StaysBefore ==
  ASSUME NEW D, NEW I, NEW old, NEW new, Leads(D, I, old, new),
         NEW j \in Nat, j < Len(new), j \notin I
  PROVE  Stays(D, I, old, new, At(D, I, j), j)
<1>1. Origin(D, I, old, new, j, At(D, I, j))
  BY OriginRight DEF At
<1> QED BY <1>1 DEF Origin, Stays

\* Every entry that was not deleted is somewhere.
LEMMA StaysAfter ==
  ASSUME NEW D, NEW I, NEW old, NEW new, Leads(D, I, old, new),
         NEW i \in Nat, i < Len(old), i \notin D
  PROVE  Stays(D, I, old, new, i, At(I, D, i))
<1>1. Origin(I, D, new, old, i, At(I, D, i))
  BY LeadsBack, OriginRight DEF At
<1> QED BY <1>1 DEF Origin, Stays

\* And at one place only.
LEMMA StaysOnce ==
  ASSUME NEW D, NEW I, NEW old, NEW new, IsIndexSet(I),
         NEW i, NEW j, Stays(D, I, old, new, i, j)
  PROVE  IsIndexSet(D) => At(I, D, i) = j
<1> SUFFICES ASSUME IsIndexSet(D) PROVE At(I, D, i) = j
  OBVIOUS
<1>1. /\ i \in Nat /\ j \in Nat /\ j \notin I /\ Unshift(D, i) = Unshift(I, j)
  BY DEF Stays
<1>2. At(I, D, i) \in Nat /\ At(I, D, i) \notin I /\ Unshift(I, At(I, D, i)) = Unshift(D, i)
  BY <1>1, AtIs
<1> QED BY <1>1, <1>2, SameNumber

----------------------------------------------------------------------------
(* Two changes in a row                                                    *)

\* The sets merge() makes, in terms of positions carried.
LEMMA MergedAre ==
  ASSUME NEW b, NEW c
  PROVE  /\ MergedDeletions(b, c) =
              b.deletions \cup Carried(b.deletions, b.insertions, c.deletions \ b.insertions)
         /\ MergedInsertions(b, c) =
              c.insertions \cup Carried(c.insertions, c.deletions, b.insertions \ c.deletions)
<1>1. MergedDeletions(b, c) =
        b.deletions \cup Carried(b.deletions, b.insertions, c.deletions \ b.insertions)
  BY DEF MergedDeletions, AddShiftedBy, Carried, At
<1>2. {Shift(c.insertions, i) : i \in {Unshift(c.deletions, v) : v \in b.insertions \ c.deletions}}
        = {Shift(c.insertions, Unshift(c.deletions, v)) : v \in b.insertions \ c.deletions}
  OBVIOUS
<1>3. MergedInsertions(b, c) =
        c.insertions \cup Carried(c.insertions, c.deletions, b.insertions \ c.deletions)
  BY <1>2 DEF MergedInsertions, InsertAtAll, ShiftForInsertAtAll, EraseAtAll, Carried, At
<1> QED BY <1>1, <1>3

\* D and Y of the old list, deleted together, are as many as I and Y of the new one.
LEMMA UnionSizes ==
  ASSUME NEW s, IsIndexSet(s), NEW t, IsIndexSet(t)
  PROVE  /\ IsIndexSet(s \ t) /\ IsIndexSet(t \ s) /\ IsIndexSet(s \cup t)
         /\ s \cup (t \ s) = s \cup t /\ t \cup (s \ t) = s \cup t
         /\ Cardinality(s \cup t) = Cardinality(s) + Cardinality(t \ s)
         /\ Cardinality(s \cup t) = Cardinality(t) + Cardinality(s \ t)
         /\ Cardinality(s) \in Nat /\ Cardinality(t) \in Nat
         /\ Cardinality(s \ t) \in Nat /\ Cardinality(t \ s) \in Nat
<1>1. IsFiniteSet(s) /\ IsFiniteSet(t) /\ s \subseteq Nat /\ t \subseteq Nat
  BY DEF IsIndexSet
<1>2. IsFiniteSet(s \ t) /\ IsFiniteSet(t \ s)
  BY <1>1, FS_Subset
<1>3. IsIndexSet(s \ t) /\ IsIndexSet(t \ s)
  BY <1>1, <1>2 DEF IsIndexSet
<1>4. s \cup (t \ s) = s \cup t /\ t \cup (s \ t) = s \cup t
      /\ s \cap (t \ s) = {} /\ t \cap (s \ t) = {}
  OBVIOUS
<1>5. IsIndexSet(s \cup (t \ s)) /\ Cardinality(s \cup (t \ s)) = Cardinality(s) + Cardinality(t \ s)
  BY <1>3, <1>4, BelowUnion
<1>6. Cardinality(t \cup (s \ t)) = Cardinality(t) + Cardinality(s \ t)
  BY <1>3, <1>4, BelowUnion
<1>7. /\ Cardinality(s) \in Nat /\ Cardinality(t) \in Nat
      /\ Cardinality(s \ t) \in Nat /\ Cardinality(t \ s) \in Nat
  BY <1>1, <1>2, FS_CardinalityType
<1> QED BY <1>3, <1>4, <1>5, <1>6, <1>7, Zenon

\* X is D and, of the old list, the positions Y of the new one; K is I and Y
Joined(D, I, Y, X, K) ==
  /\ IsIndexSet(D) /\ IsIndexSet(I) /\ IsIndexSet(Y)
  /\ X = D \cup Carried(D, I, Y \ I) /\ K = I \cup Y

\* An entry that both changes leave was where the first found it, and is not among the
\* deletions of both.
LEMMA CarriedApart ==
  ASSUME NEW D, NEW I, NEW Y, NEW X, NEW K, Joined(D, I, Y, X, K),
         NEW old, NEW new, NEW i, NEW j, Stays(D, I, old, new, i, j)
  PROVE  (i \in X <=> j \in K) /\ Unshift(X, i) = Unshift(K, j)
<1> DEFINE Z == Y \ I
<1>0. IsIndexSet(D) /\ IsIndexSet(I) /\ IsIndexSet(Y)
  BY DEF Joined
<1>1. /\ i \in Nat /\ j \in Nat /\ i \notin D /\ j \notin I /\ Unshift(D, i) = Unshift(I, j)
  BY DEF Stays
<1>2. IsIndexSet(Z) /\ I \cup Z = I \cup Y /\ Z \cap I = {} /\ (j \in Z <=> j \in Y)
  BY <1>0, <1>1, UnionSizes
<1> HIDE DEF Z
<1>3. i \in Carried(D, I, Z) <=> j \in Z
  BY <1>0, <1>1, <1>2, CarriedBelow
<1>4. Unshift(D \cup Carried(D, I, Z), i) = Unshift(I \cup Z, j)
  BY <1>0, <1>1, <1>2, CarriedNumbers
<1> QED BY <1>1, <1>2, <1>3, <1>4 DEF Z, Joined

\* Positions carried are positions of the list they are carried to.
LEMMA CarriedWithin ==
  ASSUME NEW D, NEW I, NEW old, NEW new, Leads(D, I, old, new),
         NEW Y, Y \subseteq 0 .. Len(new) - 1
  PROVE  D \cup Carried(D, I, Y \ I) \subseteq 0 .. Len(old) - 1
<1>1. D \subseteq 0 .. Len(old) - 1
  BY LeadsIs, Zenon
<1>2. Len(old) \in Nat /\ Len(new) \in Nat
  BY LeadsKnown DEF Known
<1>3. ASSUME NEW v \in Y \ I PROVE At(D, I, v) \in 0 .. Len(old) - 1
  <2>1. v \in Nat /\ v < Len(new) /\ v \notin I
    BY <1>2
  <2>2. Stays(D, I, old, new, At(D, I, v), v)
    BY <2>1, StaysBefore
  <2> QED BY <1>2, <2>2 DEF Stays
<1>4. Carried(D, I, Y \ I) \subseteq 0 .. Len(old) - 1
  BY <1>3 DEF Carried
<1> QED BY <1>1, <1>4

\* Two changes that take a list to a second and that to a third merge to one that takes
\* the first to the third.
LEMMA MergeLeads ==
  ASSUME NEW b, NEW c, NEW old, NEW mean, NEW new,
         Leads(b.deletions, b.insertions, old, mean), Leads(c.deletions, c.insertions, mean, new)
  PROVE  Leads(MergedDeletions(b, c), MergedInsertions(b, c), old, new)
<1> DEFINE D1 == b.deletions
           I1 == b.insertions
           D2 == c.deletions
           I2 == c.insertions
           D == D1 \cup Carried(D1, I1, D2 \ I1)
           I == I2 \cup Carried(I2, D2, I1 \ D2)
           K == I1 \cup D2
<1>1. MergedDeletions(b, c) = D /\ MergedInsertions(b, c) = I
  BY MergedAre
<1>2. Leads(D1, I1, old, mean) /\ Leads(D2, I2, mean, new)
  OBVIOUS
<1> HIDE DEF D1, I1, D2, I2
<1>3. Known(D1, I1, old, mean) /\ Known(D2, I2, mean, new)
  BY <1>2, LeadsKnown
<1>4. /\ Len(old) \in Nat /\ Len(mean) \in Nat /\ Len(new) \in Nat
      /\ IsIndexSet(D1) /\ IsIndexSet(I1) /\ IsIndexSet(D2) /\ IsIndexSet(I2)
      /\ Len(old) - Cardinality(D1) = Len(mean) - Cardinality(I1)
      /\ Len(mean) - Cardinality(D2) = Len(new) - Cardinality(I2)
      /\ Cardinality(D1) \in Nat /\ Cardinality(I2) \in Nat
  BY <1>3 DEF Known
<1>5. /\ old \in Seq(Nat) /\ mean \in Seq(Nat) /\ new \in Seq(Nat)
      /\ I1 \subseteq 0 .. Len(mean) - 1 /\ D2 \subseteq 0 .. Len(mean) - 1
  BY <1>2, LeadsIs, Zenon
<1>6. D \subseteq 0 .. Len(old) - 1
  BY <1>2, <1>5, CarriedWithin
<1>7. I \subseteq 0 .. Len(new) - 1
  <2>1. Leads(I2, D2, new, mean)
    BY <1>2, LeadsBack
  <2> QED BY <1>5, <2>1, CarriedWithin
<1>8. /\ IsIndexSet(D2 \ I1) /\ IsIndexSet(I1 \ D2) /\ IsIndexSet(I1 \cup D2)
      /\ I1 \cup D2 = D2 \cup I1
      /\ Cardinality(I1 \cup D2) = Cardinality(I1) + Cardinality(D2 \ I1)
      /\ Cardinality(I1 \cup D2) = Cardinality(D2) + Cardinality(I1 \ D2)
      /\ Cardinality(I1) \in Nat /\ Cardinality(D2) \in Nat
      /\ Cardinality(D2 \ I1) \in Nat /\ Cardinality(I1 \ D2) \in Nat
  BY <1>4, UnionSizes
<1>9. Cardinality(D) = Cardinality(D1) + Cardinality(D2 \ I1)
  <2>0. (D2 \ I1) \cap I1 = {}
    OBVIOUS
  <2>1. /\ IsIndexSet(Carried(D1, I1, D2 \ I1)) /\ D1 \cap Carried(D1, I1, D2 \ I1) = {}
        /\ Cardinality(Carried(D1, I1, D2 \ I1)) = Cardinality(D2 \ I1)
    BY <1>4, <1>8, <2>0, CarriedIs
  <2>2. Cardinality(D) = Cardinality(D1) + Cardinality(Carried(D1, I1, D2 \ I1))
    BY <1>4, <2>1, BelowUnion
  <2> QED BY <2>1, <2>2
<1>10. Cardinality(I) = Cardinality(I2) + Cardinality(I1 \ D2)
  <2>0. (I1 \ D2) \cap D2 = {}
    OBVIOUS
  <2>1. /\ IsIndexSet(Carried(I2, D2, I1 \ D2)) /\ I2 \cap Carried(I2, D2, I1 \ D2) = {}
        /\ Cardinality(Carried(I2, D2, I1 \ D2)) = Cardinality(I1 \ D2)
    BY <1>4, <1>8, <2>0, CarriedIs
  <2>2. Cardinality(I) = Cardinality(I2) + Cardinality(Carried(I2, D2, I1 \ D2))
    BY <1>4, <2>1, BelowUnion
  <2> QED BY <2>1, <2>2
<1>11. Len(old) - Cardinality(D) = Len(new) - Cardinality(I)
  <2> DEFINE t == Cardinality(I1 \cup D2)
             u == Cardinality(D1)
             v == Cardinality(I1)
             w == Cardinality(D2)
             x == Cardinality(I2)
             y == Cardinality(D2 \ I1)
             z == Cardinality(I1 \ D2)
  <2>1. t = v + y /\ t = w + z
    BY <1>8, Zenon
  <2>2. /\ u \in Nat /\ v \in Nat /\ w \in Nat /\ x \in Nat /\ y \in Nat /\ z \in Nat
        /\ Len(old) - u = Len(mean) - v /\ Len(mean) - w = Len(new) - x
    BY <1>4, <1>8, Zenon
  <2>3. Cardinality(D) = u + y /\ Cardinality(I) = x + z
    BY <1>9, <1>10, Zenon
  <2> HIDE DEF t, u, v, w, x, y, z, D, I
  <2> QED BY <1>4, <2>1, <2>2, <2>3
<1>12. Correspond(D, I, old, new)
  <2>0. Joined(D1, I1, D2, D, K) /\ Joined(I2, D2, I1, I, K)
    BY <1>4 DEF Joined
  <2> HIDE DEF D, I, K
  <2>1. ASSUME NEW i \in Nat, NEW j \in Nat, i < Len(old), i \notin D, j < Len(new), j \notin I,
               Unshift(D, i) = Unshift(I, j)
        PROVE  Entry(old, i) = Entry(new, j)
    <3> DEFINE p == At(I1, D1, i)
               q == At(D2, I2, j)
    <3>1. i \notin D1 /\ j \notin I2
      BY <2>0, <2>1 DEF Joined
    <3>2. Stays(D1, I1, old, mean, i, p)
      BY <1>2, <2>1, <3>1, StaysAfter
    <3>3. Stays(D2, I2, mean, new, q, j)
      BY <1>2, <2>1, <3>1, StaysBefore
    <3>4. Stays(I2, D2, new, mean, j, q)
      BY <3>3 DEF Stays
    <3> HIDE DEF p, q
    <3>5. (i \in D <=> p \in K) /\ Unshift(D, i) = Unshift(K, p)
      BY <2>0, <3>2, CarriedApart, Zenon
    <3>6. (j \in I <=> q \in K) /\ Unshift(I, j) = Unshift(K, q)
      BY <2>0, <3>4, CarriedApart, Zenon
    <3>7. p \in Nat /\ q \in Nat /\ p \notin K /\ q \notin K
      BY <2>1, <3>2, <3>3, <3>5, <3>6 DEF Stays
    <3>8. Unshift(K, p) = Unshift(K, q) /\ IsIndexSet(K)
      BY <1>8, <2>0, <2>1, <3>5, <3>6 DEF Joined
    <3>9. p = q
      BY <3>7, <3>8, SameNumber
    <3> QED BY <3>2, <3>3, <3>9 DEF Stays
  <2> QED BY <2>1 DEF Correspond
<1>13. Leads(D, I, old, new)
  BY <1>5, <1>6, <1>7, <1>11, <1>12, LeadsIs, Zenon
<1> QED BY <1>1, <1>13

\* A move that leaves its row where it was is no deletion and no insertion.
LEMMA StaleMoveLeads ==
  ASSUME NEW D, NEW I, NEW old, NEW new, Leads(D, I, old, new), NEW x \in D, NEW y \in I,
         Unshift(D, x) = Unshift(I, y), Entry(old, x) = Entry(new, y)
  PROVE  Leads(D \ {x}, I \ {y}, old, new)
<1> DEFINE d == D \ {x}
           s == I \ {y}
<1>1. Known(D, I, old, new)
  BY LeadsKnown
<1>2. /\ IsIndexSet(D) /\ IsIndexSet(I) /\ Len(old) - Cardinality(D) = Len(new) - Cardinality(I)
      /\ Len(old) \in Nat /\ Len(new) \in Nat
  BY <1>1 DEF Known
<1>3. /\ D \subseteq 0 .. Len(old) - 1 /\ I \subseteq 0 .. Len(new) - 1
      /\ old \in Seq(Nat) /\ new \in Seq(Nat) /\ Correspond(D, I, old, new)
  BY LeadsIs, Zenon
<1>4. IsIndexSet(d) /\ IsIndexSet(s) /\ x \in Nat /\ y \in Nat
  BY <1>2, FS_Subset DEF IsIndexSet
<1>5. x \notin d /\ y \notin s /\ d \cup {x} = D /\ s \cup {y} = I
  OBVIOUS
<1>6. \A i : i # x => (i \in d <=> i \in D)
  OBVIOUS
<1>7. \A i : i # y => (i \in s <=> i \in I)
  OBVIOUS
<1>8. d \subseteq 0 .. Len(old) - 1 /\ s \subseteq 0 .. Len(new) - 1
  BY <1>3
<1> HIDE DEF d, s
<1>9. /\ Cardinality(D) = Cardinality(d) + 1
      /\ \A k \in Nat : Unshift(D, k) = IF x < k THEN Unshift(d, k) - 1 ELSE Unshift(d, k)
  BY <1>4, <1>5, AddNumbers
<1>10. /\ Cardinality(I) = Cardinality(s) + 1
       /\ \A k \in Nat : Unshift(I, k) = IF y < k THEN Unshift(s, k) - 1 ELSE Unshift(s, k)
  BY <1>4, <1>5, AddNumbers
<1>11. Cardinality(d) \in Nat /\ Cardinality(s) \in Nat
  BY <1>4, FS_CardinalityType DEF IsIndexSet
<1>12. Len(old) - Cardinality(d) = Len(new) - Cardinality(s)
  BY <1>2, <1>9, <1>10, <1>11
<1>13. Unshift(d, x) = Unshift(s, y)
  <2>1. ~(x < x) /\ ~(y < y)
    BY <1>4
  <2> QED BY <1>4, <1>9, <1>10, <2>1
<1>14. ASSUME NEW i \in Nat, NEW j \in Nat, i < Len(old), i \notin d, j < Len(new), j \notin s,
              Unshift(d, i) = Unshift(s, j)
       PROVE  Entry(old, i) = Entry(new, j)
  <2>1. CASE i = x
    <3>1. Unshift(s, j) = Unshift(s, y)
      BY <1>13, <1>14, <2>1
    <3>2. j = y
      BY <1>4, <1>5, <1>14, <3>1, SameNumber
    <3> QED BY <2>1, <3>2
  <2>2. CASE j = y
    <3>1. Unshift(d, i) = Unshift(d, x)
      BY <1>13, <1>14, <2>2
    <3>2. i = x
      BY <1>4, <1>5, <1>14, <3>1, SameNumber
    <3> QED BY <2>2, <3>2
  <2>3. CASE i # x /\ j # y
    <3>1. i \notin D /\ j \notin I
      BY <1>6, <1>7, <1>14, <2>3
    <3>2. x < i <=> Unshift(d, x) < Unshift(d, i)
      BY <1>4, <1>5, <1>14, NumbersApart
    <3>3. y < j <=> Unshift(s, y) < Unshift(s, j)
      BY <1>4, <1>5, <1>14, NumbersApart
    <3>4. x < i <=> y < j
      BY <1>13, <1>14, <3>2, <3>3
    <3>5. Unshift(D, i) = Unshift(I, j)
      BY <1>9, <1>10, <1>14, <3>4
    <3> QED BY <1>3, <1>14, <3>1, <3>5 DEF Correspond
  <2> QED BY <2>1, <2>2, <2>3
<1>15. Correspond(d, s, old, new)
  BY <1>14 DEF Correspond
<1>16. Leads(d, s, old, new)
  BY <1>3, <1>8, <1>12, <1>15, LeadsIs, Zenon
<1> QED BY <1>16 DEF d, s

----------------------------------------------------------------------------
(* Looking at one move after the other                                     *)

\* What holds at first and goes on holding holds up to n.
LEMMA UpTo ==
  ASSUME NEW n \in Nat, NEW S, 0 \in S, \A k \in 1 .. n : k - 1 \in S => k \in S
  PROVE  \A k \in 0 .. n : k \in S
<1> DEFINE Bad == {k \in 0 .. n : k \notin S}
<1>1. SUFFICES ASSUME NEW k \in Bad PROVE FALSE
  OBVIOUS
<1>2. Bad \in SUBSET Nat
  OBVIOUS
<1>3. PICK m \in Bad : \A j \in Bad : m <= j
  BY <1>2, LeastNatural, Zenon
<1>4. m \in 0 .. n /\ m \notin S
  BY <1>3
<1>5. m # 0 /\ m \in 1 .. n /\ m - 1 \in 0 .. n
  BY <1>4
<1>6. m - 1 \notin Bad
  BY <1>3, <1>5
<1> QED BY <1>4, <1>5, <1>6

\* f looks at the first n moves of ms, starting from the change a
Looks(f, a, ms, n) == f = [k \in 0 .. n |-> IF k = 0 THEN a ELSE LookAt(f[k - 1], ms[k])]

\* They can be looked at.
LEMMA LookedExists ==
  ASSUME NEW a, NEW ms, NEW n \in Nat
  PROVE  \E f : Looks(f, a, ms, n)
<1> DEFINE Good(m) == \E f : f = [k \in 0 .. m |-> IF k = 0 THEN a ELSE LookAt(f[k - 1], ms[k])]
           S == {m \in Nat : Good(m)}
<1>1. Good(0)
  <2> DEFINE f == [k \in 0 .. 0 |-> a]
  <2>1. f = [k \in 0 .. 0 |-> IF k = 0 THEN a ELSE LookAt(f[k - 1], ms[k])]
    OBVIOUS
  <2> QED BY <2>1
<1>2. ASSUME NEW m \in 1 .. n, Good(m - 1) PROVE Good(m)
  <2>1. PICK f : f = [k \in 0 .. m - 1 |-> IF k = 0 THEN a ELSE LookAt(f[k - 1], ms[k])]
    BY <1>2
  <2> DEFINE last == LookAt(f[m - 1], ms[m])
             g == [k \in 0 .. m |-> IF k = m THEN last ELSE f[k]]
  <2>2. \A k \in 0 .. m - 1 : g[k] = f[k] /\ k \in 0 .. m
    OBVIOUS
  <2>3. g[m] = last /\ m \in 0 .. m /\ m # 0 /\ m - 1 \in 0 .. m - 1
    OBVIOUS
  <2>4. \A k \in 0 .. m - 1 : k # 0 => k - 1 \in 0 .. m - 1
    OBVIOUS
  <2>5. DOMAIN g = 0 .. m
    OBVIOUS
  <2>6. \A k \in 0 .. m : k = m \/ k \in 0 .. m - 1
    OBVIOUS
  <2>10. \A k \in 0 .. m - 1 : f[k] = IF k = 0 THEN a ELSE LookAt(f[k - 1], ms[k])
    BY <2>1
  <2>11. g = [k \in 0 .. m |-> g[k]]
    OBVIOUS
  <2> HIDE DEF g
  <2>7. \A k \in 0 .. m - 1 : g[k] = IF k = 0 THEN a ELSE LookAt(g[k - 1], ms[k])
    BY <2>2, <2>4, <2>10
  <2>8. g[m] = IF m = 0 THEN a ELSE LookAt(g[m - 1], ms[m])
    BY <2>2, <2>3
  <2>9. \A k \in 0 .. m : g[k] = IF k = 0 THEN a ELSE LookAt(g[k - 1], ms[k])
    BY <2>6, <2>7, <2>8
  <2>12. g = [k \in 0 .. m |-> IF k = 0 THEN a ELSE LookAt(g[k - 1], ms[k])]
    BY <2>9, <2>11
  <2> QED BY <2>12
<1> HIDE DEF Good
<1>3. \A k \in 1 .. n : k - 1 \in S => k \in S
  BY <1>2
<1>4. 0 \in S
  BY <1>1
<1> HIDE DEF S
<1>5. n \in S
  BY <1>3, <1>4, UpTo
<1> QED BY <1>5 DEF S, Good, Looks

\* CleanUpStaleMoves is the end of it.
LEMMA CleanUpLooks ==
  ASSUME NEW b, b.moves \in Moves
  PROVE  \E f : /\ CleanUpStaleMoves(b) = f[Len(b.moves)]
                /\ f[0] = [b EXCEPT !.moves = << >>]
                /\ \A k \in 1 .. Len(b.moves) : f[k] = LookAt(f[k - 1], b.moves[k])
<1> DEFINE n == Len(b.moves)
           a == [b EXCEPT !.moves = << >>]
           Looked[k \in 0 .. n] ==
             IF k = 0 THEN a ELSE LookAt(Looked[k - 1], b.moves[k])
<1>1. n \in Nat
  BY MovesAre
<1>2. CleanUpStaleMoves(b) = Looked[n]
  BY DEF CleanUpStaleMoves
<1>3. \E f : Looks(f, a, b.moves, n)
  BY <1>1, LookedExists
<1>4. Looked = [k \in 0 .. n |-> IF k = 0 THEN a ELSE LookAt(Looked[k - 1], b.moves[k])]
  BY <1>3 DEF Looks
<1> HIDE DEF Looked, n, a
<1>5. Looked[0] = a /\ \A k \in 1 .. n : Looked[k] = LookAt(Looked[k - 1], b.moves[k])
  <2>1. 0 \in 0 .. n /\ \A k \in 1 .. n : k \in 0 .. n /\ k # 0
    BY <1>1
  <2> QED BY <1>4, <2>1
<1> QED BY <1>2, <1>5 DEF n, a

\* the deletions, insertions and moves of b are right
Sound(b, old, new) ==
  /\ b \in ChangeRecords
  /\ Leads(b.deletions, b.insertions, old, new)
  /\ Named(b.moves, b.deletions, b.insertions, old, new)

\* the entry at i was there before, and b says so
Settled(b, i) == i \notin b.insertions \/ \E k \in DOMAIN b.moves : b.moves[k].to = i

\* And its modifications are entries that were set, all of them that were there before.
Tells(b, old, new, S) ==
  /\ Sound(b, old, new)
  /\ b.modifications \subseteq PlacesOf(new, S)
  /\ \A i \in PlacesOf(new, S) : Settled(b, i) => i \in b.modifications

\* The parts of a sound change.
LEMMA SoundParts ==
  ASSUME NEW b, NEW old, NEW new, Sound(b, old, new)
  PROVE  /\ b.deletions \subseteq Nat /\ b.insertions \subseteq Nat
         /\ b.modifications \subseteq Nat /\ b.moves \in Moves
         /\ old \in Seq(Nat) /\ new \in Seq(Nat) /\ Len(new) \in Nat /\ Len(old) \in Nat
         /\ b.deletions \subseteq 0 .. Len(old) - 1
         /\ b.insertions \subseteq 0 .. Len(new) - 1
<1>1. b \in ChangeRecords /\ Leads(b.deletions, b.insertions, old, new)
  BY DEF Sound
<1>2. /\ b.deletions \subseteq Nat /\ b.insertions \subseteq Nat
      /\ b.modifications \subseteq Nat /\ b.moves \in Moves
  BY <1>1 DEF ChangeRecords
<1>3. /\ old \in Seq(Nat) /\ new \in Seq(Nat)
      /\ b.deletions \subseteq 0 .. Len(old) - 1
      /\ b.insertions \subseteq 0 .. Len(new) - 1
  BY <1>1, LeadsIs, Zenon
<1>4. Len(new) \in Nat /\ Len(old) \in Nat
  BY <1>3
<1> QED BY <1>2, <1>3, <1>4

\* The parts of one move.
LEMMA MoveParts ==
  ASSUME NEW b, NEW old, NEW new, Sound(b, old, new), NEW k \in DOMAIN b.moves
  PROVE  /\ b.moves[k].from \in b.deletions /\ b.moves[k].to \in b.insertions
         /\ b.moves[k].from \in Nat /\ b.moves[k].from < Len(old)
         /\ b.moves[k].to \in Nat /\ b.moves[k].to < Len(new)
         /\ Entry(old, b.moves[k].from) = Entry(new, b.moves[k].to)
         /\ b.moves[k] \in [from : Nat, to : Nat]
<1>1. /\ b.moves[k].from \in b.deletions /\ b.moves[k].to \in b.insertions
      /\ Entry(old, b.moves[k].from) = Entry(new, b.moves[k].to)
  BY DEF Sound, Named
<1>2. /\ b.deletions \subseteq 0 .. Len(old) - 1 /\ b.insertions \subseteq 0 .. Len(new) - 1
      /\ Len(old) \in Nat /\ Len(new) \in Nat /\ b.moves \in Moves
  BY SoundParts
<1>3. /\ b.moves[k].from \in Nat /\ b.moves[k].from < Len(old)
      /\ b.moves[k].to \in Nat /\ b.moves[k].to < Len(new)
  BY <1>1, <1>2
<1>4. b.moves[k] \in [from : Nat, to : Nat]
  BY <1>2, ElementOfSeq, MovesAre DEF Moves
<1> QED BY <1>1, <1>3, <1>4

\* No two moves have an end in common.
LEMMA MovesApart ==
  ASSUME NEW b, NEW old, NEW new, Sound(b, old, new), Apart(new),
         NEW j \in DOMAIN b.moves, NEW k \in DOMAIN b.moves, j # k
  PROVE  b.moves[j].from # b.moves[k].from /\ b.moves[j].to # b.moves[k].to
<1> DEFINE ms == b.moves
<1>1. \A i, l \in DOMAIN ms : ms[i].to = ms[l].to => i = l
  BY DEF Sound, Named
<1>2. /\ ms[j].to \in Nat /\ ms[j].to < Len(new) /\ Entry(old, ms[j].from) = Entry(new, ms[j].to)
      /\ ms[k].to \in Nat /\ ms[k].to < Len(new) /\ Entry(old, ms[k].from) = Entry(new, ms[k].to)
  BY MoveParts
<1>3. ms[j].to # ms[k].to
  BY <1>1
<1>4. ASSUME ms[j].from = ms[k].from PROVE FALSE
  <2>1. Entry(new, ms[j].to) = Entry(new, ms[k].to)
    BY <1>2, <1>4
  <2> QED BY <1>2, <1>3, <2>1 DEF Apart
<1> QED BY <1>3, <1>4

\* r is what is left of the change b when its first k moves have been looked at
Cleaning(r, b, k, old, new) ==
  /\ Sound(r, old, new)
  /\ r.modifications = b.modifications
  /\ \A p \in DOMAIN r.moves : \E j \in DOMAIN b.moves : j <= k /\ r.moves[p] = b.moves[j]
  /\ \A j \in DOMAIN b.moves :
       j > k => b.moves[j].from \in r.deletions /\ b.moves[j].to \in r.insertions
  /\ \A i \in b.insertions : i \notin r.insertions => \E j \in DOMAIN b.moves : b.moves[j].to = i

\* Looking at the next one.
LEMMA CleaningStep ==
  ASSUME NEW b, NEW old, NEW new, Sound(b, old, new), Apart(new),
         NEW r, NEW k \in DOMAIN b.moves, Cleaning(r, b, k - 1, old, new)
  PROVE  Cleaning(LookAt(r, b.moves[k]), b, k, old, new)
<1> DEFINE ms == b.moves
           m == ms[k]
           c == LookAt(r, m)
           D == r.deletions
           I == r.insertions
<1>1. /\ Sound(r, old, new) /\ r.modifications = b.modifications
      /\ \A p \in DOMAIN r.moves : \E j \in DOMAIN ms : j <= k - 1 /\ r.moves[p] = ms[j]
      /\ \A j \in DOMAIN ms : j > k - 1 => ms[j].from \in D /\ ms[j].to \in I
      /\ \A i \in b.insertions : i \notin I => \E j \in DOMAIN ms : ms[j].to = i
  BY DEF Cleaning
<1>2. /\ r \in ChangeRecords /\ Leads(D, I, old, new) /\ Named(r.moves, D, I, old, new)
  BY <1>1 DEF Sound
<1>3. DOMAIN ms \subseteq Nat /\ k \in Nat
  <2>1. ms \in Moves
    BY SoundParts
  <2>2. DOMAIN ms = 1 .. Len(ms) /\ Len(ms) \in Nat
    BY <2>1, MovesAre
  <2> QED BY <2>2
<1>4. m.from \in D /\ m.to \in I
  <2>1. k > k - 1
    BY <1>3
  <2> QED BY <1>1, <2>1
<1>5. /\ m \in [from : Nat, to : Nat] /\ m.from \in Nat /\ m.to \in Nat
      /\ Entry(old, m.from) = Entry(new, m.to)
  BY MoveParts
<1>6. \A j \in DOMAIN ms : j # k => ms[j].from # m.from /\ ms[j].to # m.to
  BY MovesApart
<1>7. \A p \in DOMAIN r.moves : \E j \in DOMAIN ms : j <= k /\ j # k /\ r.moves[p] = ms[j]
  <2>1. \A j \in DOMAIN ms : j <= k - 1 => j <= k /\ j # k
    BY <1>3
  <2> QED BY <1>1, <2>1
<1>8. \A p \in DOMAIN r.moves : r.moves[p].from # m.from /\ r.moves[p].to # m.to
  BY <1>6, <1>7
<1>9. \A j \in DOMAIN ms : j > k => ms[j].from \in D /\ ms[j].to \in I /\ j # k
  <2>1. \A j \in DOMAIN ms : j > k => j > k - 1 /\ j # k
    BY <1>3
  <2> QED BY <1>1, <2>1
<1> HIDE DEF m, ms
<1>10. CASE Stale(r, m)
  <2>1. c = [r EXCEPT !.deletions = D \ {m.from}, !.insertions = I \ {m.to}]
    BY <1>10 DEF LookAt
  <2>2. /\ c.deletions = D \ {m.from} /\ c.insertions = I \ {m.to}
        /\ c.modifications = r.modifications /\ c.moves = r.moves /\ c \in ChangeRecords
    BY <1>2, <2>1 DEF ChangeRecords
  <2> HIDE DEF c
  <2>3. Unshift(D, m.from) = Unshift(I, m.to)
    BY <1>10 DEF Stale, Unshift
  <2>4. Leads(c.deletions, c.insertions, old, new)
    BY <1>2, <1>4, <1>5, <2>2, <2>3, StaleMoveLeads
  <2>5. Named(c.moves, c.deletions, c.insertions, old, new)
    BY <1>2, <1>8, <2>2 DEF Named
  <2>6. Sound(c, old, new)
    BY <2>2, <2>4, <2>5 DEF Sound
  <2>7. \A p \in DOMAIN c.moves : \E j \in DOMAIN ms : j <= k /\ c.moves[p] = ms[j]
    BY <1>7, <2>2
  <2>8. \A j \in DOMAIN ms : j > k => ms[j].from \in c.deletions /\ ms[j].to \in c.insertions
    BY <1>6, <1>9, <2>2
  <2>9. \A i \in b.insertions : i \notin c.insertions => \E j \in DOMAIN ms : ms[j].to = i
    BY <1>1, <2>2 DEF m, ms
  <2>10. c.modifications = b.modifications
    BY <1>1, <2>2
  <2> QED BY <2>6, <2>7, <2>8, <2>9, <2>10 DEF Cleaning, c, m, ms
<1>11. CASE ~Stale(r, m)
  <2>1. c = [r EXCEPT !.moves = Append(r.moves, m)]
    BY <1>11 DEF LookAt
  <2>2. r.moves \in Moves
    BY <1>2 DEF ChangeRecords
  <2>3. m = [from |-> m.from, to |-> m.to]
    BY <1>5
  <2>4. D \cup {m.from} = D
    BY <1>4
  <2>5. Append(r.moves, m) \in Moves /\ Named(Append(r.moves, m), D, I, old, new)
    BY <1>2, <1>4, <1>5, <1>8, <2>2, <2>3, <2>4, NamedAppend
  <2>6. /\ c.deletions = D /\ c.insertions = I /\ c.modifications = r.modifications
        /\ c.moves = Append(r.moves, m) /\ c \in ChangeRecords
    BY <1>2, <2>1, <2>5 DEF ChangeRecords
  <2> HIDE DEF c
  <2>7. Sound(c, old, new)
    BY <1>2, <2>5, <2>6 DEF Sound
  <2>8. \A p \in DOMAIN c.moves : \E j \in DOMAIN ms : j <= k /\ c.moves[p] = ms[j]
    <3>1. DOMAIN r.moves = 1 .. Len(r.moves) /\ Len(r.moves) \in Nat
      BY <2>2, MovesAre
    <3>2. /\ DOMAIN Append(r.moves, m) = 1 .. Len(r.moves) + 1
          /\ Append(r.moves, m)[Len(r.moves) + 1] = m
          /\ \A p \in 1 .. Len(r.moves) : Append(r.moves, m)[p] = r.moves[p]
      BY <1>5, <2>2, <3>1, AppendProperties DEF Moves
    <3>3. \A p \in 1 .. Len(r.moves) + 1 : p = Len(r.moves) + 1 \/ p \in 1 .. Len(r.moves)
      BY <3>1
    <3>4. k <= k /\ k \in DOMAIN ms /\ m = ms[k]
      BY <1>3 DEF m, ms
    <3>5. ASSUME NEW p \in DOMAIN c.moves
          PROVE  \E j \in DOMAIN ms : j <= k /\ c.moves[p] = ms[j]
      <4>1. CASE p = Len(r.moves) + 1
        <5>1. c.moves[p] = ms[k]
          BY <2>6, <3>2, <3>4, <4>1
        <5> QED BY <3>4, <5>1
      <4>2. CASE p \in 1 .. Len(r.moves)
        <5>1. c.moves[p] = r.moves[p]
          BY <2>6, <3>2, <4>2
        <5> QED BY <1>7, <3>1, <4>2, <5>1
      <4> QED BY <2>6, <3>2, <3>3, <4>1, <4>2
    <3> QED BY <3>5
  <2>9. \A j \in DOMAIN ms : j > k => ms[j].from \in c.deletions /\ ms[j].to \in c.insertions
    BY <1>9, <2>6
  <2>10. \A i \in b.insertions : i \notin c.insertions => \E j \in DOMAIN ms : ms[j].to = i
    BY <1>1, <2>6
  <2>11. c.modifications = b.modifications
    BY <1>1, <2>6
  <2> QED BY <2>7, <2>8, <2>9, <2>10, <2>11 DEF Cleaning, c, m, ms
<1> QED BY <1>10, <1>11

\* Dropping the moves that lead nowhere keeps what a change tells.
LEMMA CleanUpTells ==
  ASSUME NEW b, NEW old, NEW new, NEW S, Tells(b, old, new, S), Apart(new)
  PROVE  Tells(CleanUpStaleMoves(b), old, new, S)
<1> DEFINE ms == b.moves
           n == Len(ms)
           c == CleanUpStaleMoves(b)
<1>1. Sound(b, old, new)
  BY DEF Tells
<1>2. /\ ms \in Moves /\ n \in Nat /\ DOMAIN ms = 1 .. n /\ b \in ChangeRecords
  BY <1>1, SoundParts, MovesAre DEF Sound
<1>3. PICK f : /\ c = f[n] /\ f[0] = [b EXCEPT !.moves = << >>]
               /\ \A k \in 1 .. n : f[k] = LookAt(f[k - 1], ms[k])
  BY <1>2, CleanUpLooks
<1> HIDE DEF c, n
<1> DEFINE Good == {k \in 0 .. n : Cleaning(f[k], b, k, old, new)}
<1>4. 0 \in Good
  <2> DEFINE r == f[0]
  <2>1. << >> \in Moves /\ DOMAIN << >> = {}
    BY EmptySeq DEF Moves
  <2>2. /\ r.deletions = b.deletions /\ r.insertions = b.insertions
        /\ r.modifications = b.modifications /\ r.moves = << >> /\ r \in ChangeRecords
    BY <1>2, <1>3, <2>1 DEF ChangeRecords
  <2> HIDE DEF r
  <2>3. Sound(r, old, new)
    BY <1>1, <2>1, <2>2 DEF Sound, Named
  <2>4. \A p \in DOMAIN r.moves : \E j \in DOMAIN ms : j <= 0 /\ r.moves[p] = ms[j]
    BY <2>1, <2>2
  <2>5. \A j \in DOMAIN ms : ms[j].from \in r.deletions /\ ms[j].to \in r.insertions
    BY <1>1, <2>2 DEF Sound, Named
  <2>6. \A i \in b.insertions : i \in r.insertions
    BY <2>2
  <2>7. Cleaning(r, b, 0, old, new)
    BY <2>2, <2>3, <2>4, <2>5, <2>6 DEF Cleaning
  <2> QED BY <1>2, <2>7 DEF r
<1>5. ASSUME NEW k \in 1 .. n, k - 1 \in Good PROVE k \in Good
  <2>1. k \in DOMAIN ms /\ f[k] = LookAt(f[k - 1], ms[k]) /\ Cleaning(f[k - 1], b, k - 1, old, new)
    BY <1>2, <1>3, <1>5
  <2>2. Cleaning(f[k], b, k, old, new)
    BY <1>1, <2>1, CleaningStep
  <2> QED BY <1>2, <2>2
<1>6. Cleaning(c, b, n, old, new)
  <2>1. n \in 0 .. n
    BY <1>2
  <2>2. n \in Good
    <3> HIDE DEF Good
    <3> QED BY <1>2, <1>4, <1>5, <2>1, UpTo
  <2> QED BY <1>3, <2>2
<1>7. /\ Sound(c, old, new) /\ c.modifications = b.modifications
      /\ \A p \in DOMAIN c.moves : \E j \in DOMAIN ms : c.moves[p] = ms[j]
      /\ \A i \in b.insertions : i \notin c.insertions => \E j \in DOMAIN ms : ms[j].to = i
  BY <1>6 DEF Cleaning
<1>8. \A i : Settled(c, i) => Settled(b, i)
  BY <1>7 DEF Settled
<1>9. Tells(c, old, new, S)
  BY <1>7, <1>8 DEF Tells
<1> QED BY <1>9 DEF c

----------------------------------------------------------------------------
(* Moves followed through a second change                                  *)

\* f follows the first n moves of ms through c, starting from a
Follows(f, a, b, c, ms, n) ==
  f = [k \in 0 .. n |-> IF k = 0 THEN a ELSE Follow(b, c, f[k - 1], ms[k])]

\* They can be followed.
LEMMA FollowedExists ==
  ASSUME NEW a, NEW b, NEW c, NEW ms, NEW n \in Nat
  PROVE  \E f : Follows(f, a, b, c, ms, n)
<1> DEFINE Next(x, k) == Follow(b, c, x, ms[k])
           Good(m) == \E f : f = [k \in 0 .. m |-> IF k = 0 THEN a ELSE Next(f[k - 1], k)]
           S == {m \in Nat : Good(m)}
<1>1. Good(0)
  <2> DEFINE f == [k \in 0 .. 0 |-> a]
  <2>1. f = [k \in 0 .. 0 |-> IF k = 0 THEN a ELSE Next(f[k - 1], k)]
    OBVIOUS
  <2> QED BY <2>1
<1>2. ASSUME NEW m \in 1 .. n, Good(m - 1) PROVE Good(m)
  <2> HIDE DEF Next
  <2>1. PICK f : f = [k \in 0 .. m - 1 |-> IF k = 0 THEN a ELSE Next(f[k - 1], k)]
    BY <1>2
  <2> DEFINE last == Next(f[m - 1], m)
             g == [k \in 0 .. m |-> IF k = m THEN last ELSE f[k]]
  <2>2. \A k \in 0 .. m - 1 : g[k] = f[k] /\ k \in 0 .. m
    OBVIOUS
  <2>3. g[m] = last /\ m \in 0 .. m /\ m # 0 /\ m - 1 \in 0 .. m - 1
    OBVIOUS
  <2>4. \A k \in 0 .. m - 1 : k # 0 => k - 1 \in 0 .. m - 1
    OBVIOUS
  <2>5. \A k \in 0 .. m : k = m \/ k \in 0 .. m - 1
    OBVIOUS
  <2>6. \A k \in 0 .. m - 1 : f[k] = IF k = 0 THEN a ELSE Next(f[k - 1], k)
    BY <2>1
  <2>7. g = [k \in 0 .. m |-> g[k]]
    OBVIOUS
  <2> HIDE DEF g
  <2>8. \A k \in 0 .. m - 1 : g[k] = IF k = 0 THEN a ELSE Next(g[k - 1], k)
    BY <2>2, <2>4, <2>6
  <2>9. g[m] = IF m = 0 THEN a ELSE Next(g[m - 1], m)
    BY <2>2, <2>3
  <2>10. \A k \in 0 .. m : g[k] = IF k = 0 THEN a ELSE Next(g[k - 1], k)
    BY <2>5, <2>8, <2>9
  <2>11. g = [k \in 0 .. m |-> IF k = 0 THEN a ELSE Next(g[k - 1], k)]
    BY <2>7, <2>10
  <2> QED BY <2>11
<1> HIDE DEF Good
<1>3. \A k \in 1 .. n : k - 1 \in S => k \in S
  BY <1>2
<1>4. 0 \in S
  BY <1>1
<1> HIDE DEF S
<1>5. n \in S
  BY <1>3, <1>4, UpTo
<1> QED BY <1>5 DEF S, Good, Follows

\* FollowMoves is the end of it.
LEMMA FollowMovesFollows ==
  ASSUME NEW b, NEW c, b.moves \in Moves
  PROVE  \E f : /\ FollowMoves(b, c) = f[Len(b.moves)]
                /\ f[0] = [kept |-> << >>, moves |-> c.moves, modifications |-> c.modifications]
                /\ \A k \in 1 .. Len(b.moves) : f[k] = Follow(b, c, f[k - 1], b.moves[k])
<1> DEFINE n == Len(b.moves)
           a == [kept |-> << >>, moves |-> c.moves, modifications |-> c.modifications]
           Followed[k \in 0 .. n] ==
             IF k = 0 THEN a ELSE Follow(b, c, Followed[k - 1], b.moves[k])
<1>1. n \in Nat
  BY MovesAre
<1>2. FollowMoves(b, c) = Followed[n]
  BY DEF FollowMoves
<1>3. \E f : Follows(f, a, b, c, b.moves, n)
  BY <1>1, FollowedExists
<1>4. Followed = [k \in 0 .. n |-> IF k = 0 THEN a ELSE Follow(b, c, Followed[k - 1], b.moves[k])]
  BY <1>3 DEF Follows
<1> HIDE DEF Followed, n, a
<1>5. Followed[0] = a /\ \A k \in 1 .. n : Followed[k] = Follow(b, c, Followed[k - 1], b.moves[k])
  <2>1. 0 \in 0 .. n /\ \A k \in 1 .. n : k \in 0 .. n /\ k # 0
    BY <1>1
  <2> QED BY <1>4, <2>1
<1> QED BY <1>2, <1>5 DEF n, a

\* FirstFrom finds a move from x.
LEMMA FirstFromIs ==
  ASSUME NEW ms \in Moves, NEW x, \E k \in DOMAIN ms : ms[k].from = x
  PROVE  FirstFrom(ms, x) \in DOMAIN ms /\ ms[FirstFrom(ms, x)].from = x
<1> DEFINE S == {k \in DOMAIN ms : ms[k].from = x}
<1>1. DOMAIN ms \subseteq Nat
  <2>1. DOMAIN ms = 1 .. Len(ms) /\ Len(ms) \in Nat
    BY MovesAre
  <2> QED BY <2>1
<1>2. S \in SUBSET Nat
  BY <1>1
<1>3. PICK i \in S : TRUE
  OBVIOUS
<1>4. PICK k \in S : \A j \in S : k <= j
  BY <1>2, <1>3, LeastNatural, Zenon
<1>5. \E l \in DOMAIN ms : ms[l].from = x /\ \A j \in DOMAIN ms : ms[j].from = x => l <= j
  BY <1>4
<1> QED BY <1>5 DEF FirstFrom

\* ms are some of the moves of c
SomeMoves(ms, c) ==
  /\ ms \in Moves
  /\ \A p \in DOMAIN ms : \E q \in DOMAIN c.moves : ms[p] = c.moves[q]
  /\ \A p, q \in DOMAIN ms : ms[p].to = ms[q].to => p = q

\* The last one takes the place of the one that is used up.
LEMMA LastInPlace ==
  ASSUME NEW c, NEW ms, SomeMoves(ms, c), NEW k \in DOMAIN ms
  PROVE  SomeMoves([j \in 1 .. Len(ms) - 1 |-> ms[IF j = k THEN Len(ms) ELSE j]], c)
<1> DEFINE n == Len(ms)
           At1(j) == IF j = k THEN n ELSE j
           new == [j \in 1 .. n - 1 |-> ms[At1(j)]]
<1>1. ms \in Moves /\ \A p \in DOMAIN ms : \E q \in DOMAIN c.moves : ms[p] = c.moves[q]
  BY DEF SomeMoves
<1>2. n \in Nat /\ DOMAIN ms = 1 .. n
  BY <1>1, MovesAre
<1>3. \A j \in DOMAIN ms : ms[j] \in [from : Nat, to : Nat]
  BY <1>1, <1>2, ElementOfSeq DEF Moves
<1> HIDE DEF n
<1>4. n - 1 \in Nat /\ \A j \in 1 .. n - 1 : At1(j) \in DOMAIN ms
  BY <1>2
<1>5. \A i, j \in 1 .. n - 1 : At1(i) = At1(j) => i = j
  BY <1>2
<1> HIDE DEF At1
<1>6. new \in [1 .. n - 1 -> [from : Nat, to : Nat]] /\ \A j \in 1 .. n - 1 : new[j] = ms[At1(j)]
  BY <1>3, <1>4
<1> HIDE DEF new
<1>7. new \in Moves
  BY <1>4, <1>6, MovesOf
<1>8. DOMAIN new = 1 .. n - 1
  BY <1>6
<1>9. \A p \in DOMAIN new : \E q \in DOMAIN c.moves : new[p] = c.moves[q]
  BY <1>1, <1>4, <1>6, <1>8
<1>10. ASSUME NEW p \in DOMAIN new, NEW q \in DOMAIN new, new[p].to = new[q].to PROVE p = q
  <2>1. ms[At1(p)].to = ms[At1(q)].to /\ At1(p) \in DOMAIN ms /\ At1(q) \in DOMAIN ms
    BY <1>4, <1>6, <1>8, <1>10
  <2>2. At1(p) = At1(q)
    BY <2>1 DEF SomeMoves
  <2> QED BY <1>5, <1>8, <2>2
<1>11. SomeMoves(new, c)
  BY <1>7, <1>9, <1>10 DEF SomeMoves
<1> QED BY <1>11 DEF new, At1, n

\* b tells how old became mean, c how mean became new
Meet(b, c, old, mean, new, S, T) ==
  Tells(b, old, mean, S) /\ Tells(c, mean, new, T) /\ Apart(mean) /\ Apart(new)

\* What is deleted and inserted by both.
LEMMA MergedHas ==
  ASSUME NEW b, NEW c
  PROVE  /\ b.deletions \subseteq MergedDeletions(b, c)
         /\ c.insertions \subseteq MergedInsertions(b, c)
         /\ \A v \in c.deletions : v \notin b.insertions =>
              At(b.deletions, b.insertions, v) \in MergedDeletions(b, c)
         /\ \A v \in b.insertions : v \notin c.deletions =>
              At(c.insertions, c.deletions, v) \in MergedInsertions(b, c)
<1> DEFINE D == MergedDeletions(b, c)
           I == MergedInsertions(b, c)
           X == Carried(b.deletions, b.insertions, c.deletions \ b.insertions)
           Y == Carried(c.insertions, c.deletions, b.insertions \ c.deletions)
<1>1. D = b.deletions \cup X /\ I = c.insertions \cup Y
  BY MergedAre
<1>2. \A v \in c.deletions : v \notin b.insertions => At(b.deletions, b.insertions, v) \in X
  BY DEF Carried
<1>3. \A v \in b.insertions : v \notin c.deletions => At(c.insertions, c.deletions, v) \in Y
  BY DEF Carried
<1> HIDE DEF X, Y, D, I
<1>4. /\ b.deletions \subseteq D /\ c.insertions \subseteq I
      /\ \A v \in c.deletions : v \notin b.insertions => At(b.deletions, b.insertions, v) \in D
      /\ \A v \in b.insertions : v \notin c.deletions => At(c.insertions, c.deletions, v) \in I
  BY <1>1, <1>2, <1>3
<1> QED BY <1>4 DEF D, I

\* kept are moves of both changes together, of entries that the first k moves of b moved
Kept(kept, b, c, k, old, mean, new) ==
  /\ kept \in Moves
  /\ Named(kept, MergedDeletions(b, c), MergedInsertions(b, c), old, new)
  /\ \A p \in DOMAIN kept : \E j \in DOMAIN b.moves :
       j <= k /\ Entry(new, kept[p].to) = Entry(mean, b.moves[j].to)

\* kept with one move more, to y
KeptMore(kept, more, y) ==
  \A p \in DOMAIN more :
    \/ more[p].to = y
    \/ p \in DOMAIN kept /\ more[p] = kept[p]

\* The next move of b is kept, from where it was to where its entry is now.
LEMMA KeepNext ==
  ASSUME NEW b, NEW c, NEW old, NEW mean, NEW new, Sound(b, old, mean), Apart(mean),
         NEW kept, NEW k \in DOMAIN b.moves, Kept(kept, b, c, k - 1, old, mean, new),
         NEW y \in MergedInsertions(b, c), y \in Nat, Entry(new, y) = Entry(mean, b.moves[k].to),
         NEW more, more = Append(kept, [from |-> b.moves[k].from, to |-> y])
  PROVE  Kept(more, b, c, k, old, mean, new) /\ KeptMore(kept, more, y)
<1> DEFINE ms == b.moves
           x == ms[k].from
           D == MergedDeletions(b, c)
           I == MergedInsertions(b, c)
           r == [from |-> x, to |-> y]
<1>1. /\ kept \in Moves /\ Named(kept, D, I, old, new)
      /\ \A p \in DOMAIN kept : \E j \in DOMAIN ms :
           j <= k - 1 /\ Entry(new, kept[p].to) = Entry(mean, ms[j].to)
  BY DEF Kept
<1>2. DOMAIN ms \subseteq Nat /\ k \in Nat
  <2>1. ms \in Moves
    BY SoundParts
  <2>2. DOMAIN ms = 1 .. Len(ms) /\ Len(ms) \in Nat
    BY <2>1, MovesAre
  <2> QED BY <2>2
<1>3. \A j \in DOMAIN ms : /\ ms[j].to \in Nat /\ ms[j].to < Len(mean)
                           /\ j # k => ms[j].to # ms[k].to
  BY MoveParts, MovesApart
<1>4. x \in b.deletions /\ x \in Nat /\ Entry(old, x) = Entry(mean, ms[k].to)
  BY MoveParts
<1>5. D \cup {x} = D
  <2>1. x \in D
    BY <1>4, MergedHas
  <2> QED BY <2>1
<1> HIDE DEF x, ms, D, I
<1>6. ASSUME NEW p \in DOMAIN kept, kept[p].to = y PROVE FALSE
  <2>1. PICK j \in DOMAIN ms : j <= k - 1 /\ Entry(new, kept[p].to) = Entry(mean, ms[j].to)
    BY <1>1
  <2>2. j # k /\ k \in DOMAIN ms
    BY <1>2, <2>1 DEF ms
  <2>3. Entry(mean, ms[j].to) = Entry(mean, ms[k].to)
    BY <1>6, <2>1 DEF ms
  <2> QED BY <1>3, <2>2, <2>3 DEF Apart
<1>7. r \in [from : Nat, to : Nat] /\ r.to = y
  BY <1>4
<1>8. more = Append(kept, r)
  BY DEF x, ms
<1>9. more \in Moves /\ Named(more, D, I, old, new)
  <2>1. Entry(old, x) = Entry(new, y) /\ y \in I
    BY <1>4 DEF ms, I
  <2>2. \A p \in DOMAIN kept : kept[p].to # y
    BY <1>6
  <2>3. /\ Append(kept, [from |-> x, to |-> y]) \in Moves
        /\ Named(Append(kept, [from |-> x, to |-> y]), D \cup {x}, I, old, new)
    BY <1>1, <1>4, <2>1, <2>2, NamedAppend
  <2> QED BY <1>5, <1>8, <2>3
<1> HIDE DEF r
<1>10. Len(kept) \in Nat /\ DOMAIN kept = 1 .. Len(kept)
  BY <1>1, MovesAre
<1>11. /\ DOMAIN more = 1 .. Len(kept) + 1 /\ more[Len(kept) + 1] = r
       /\ \A p \in 1 .. Len(kept) : more[p] = kept[p]
  BY <1>1, <1>7, <1>8, <1>10, AppendProperties DEF Moves
<1>12. \A p \in DOMAIN more : more[p].to = y \/ (p \in DOMAIN kept /\ more[p] = kept[p])
  <2>1. \A p \in 1 .. Len(kept) + 1 : p = Len(kept) + 1 \/ p \in 1 .. Len(kept)
    BY <1>10
  <2> QED BY <1>7, <1>10, <1>11, <2>1
<1>13. ASSUME NEW p \in DOMAIN more
       PROVE  \E j \in DOMAIN ms : j <= k /\ Entry(new, more[p].to) = Entry(mean, ms[j].to)
  <2>1. CASE more[p].to = y
    <3>1. k \in DOMAIN ms /\ k <= k /\ Entry(new, more[p].to) = Entry(mean, ms[k].to)
      BY <1>2, <2>1 DEF ms
    <3> QED BY <3>1
  <2>2. CASE p \in DOMAIN kept /\ more[p] = kept[p]
    <3>1. PICK j \in DOMAIN ms : j <= k - 1 /\ Entry(new, kept[p].to) = Entry(mean, ms[j].to)
      BY <1>1, <2>2
    <3>2. j <= k
      BY <1>2, <3>1
    <3> QED BY <2>2, <3>1, <3>2
  <2> QED BY <1>12, <2>1, <2>2
<1>14. Kept(more, b, c, k, old, mean, new)
  BY <1>9, <1>13 DEF Kept, D, I, ms
<1> QED BY <1>12, <1>14 DEF KeptMore

\* the modifications of b, where they are after c
Older(b, c) == Carried(c.insertions, c.deletions, b.modifications \ c.deletions)

\* Of both changes the modifications M are entries that were set, all of those moved.
Marked(M, kept, b, c, new, U) ==
  /\ c.modifications \subseteq M /\ M \subseteq PlacesOf(new, U)
  /\ \A p \in DOMAIN kept : Entry(new, kept[p].to) \in U => kept[p].to \in M \cup Older(b, c)

\* More modifications, and one move more that is marked if its entry was set.
LEMMA MarkedMore ==
  ASSUME NEW b, NEW c, NEW new, NEW U, NEW kept, NEW M, Marked(M, kept, b, c, new, U),
         NEW more, NEW y, KeptMore(kept, more, y), NEW N, M \subseteq N, N \subseteq PlacesOf(new, U),
         Entry(new, y) \in U => y \in N \cup Older(b, c)
  PROVE  Marked(N, more, b, c, new, U)
<1>1. c.modifications \subseteq M
  BY DEF Marked
<1>2. ASSUME NEW p \in DOMAIN more, Entry(new, more[p].to) \in U
      PROVE  more[p].to \in N \cup Older(b, c)
  <2>1. CASE more[p].to = y
    BY <1>2, <2>1
  <2>2. CASE p \in DOMAIN kept /\ more[p] = kept[p]
    <3>1. kept[p].to \in M \cup Older(b, c)
      BY <1>2, <2>2 DEF Marked
    <3> QED BY <2>2, <3>1
  <2> QED BY <2>1, <2>2 DEF KeptMore
<1> QED BY <1>1, <1>2 DEF Marked

\* What the modifications of a change say of an entry.
LEMMA TellsSet ==
  ASSUME NEW b, NEW old, NEW new, NEW S, Tells(b, old, new, S), NEW i \in Nat, i < Len(new)
  PROVE  /\ i \in b.modifications => Entry(new, i) \in S
         /\ Settled(b, i) /\ Entry(new, i) \in S => i \in b.modifications
<1>1. Len(new) \in Nat
  BY SoundParts DEF Tells
<1>2. i \in PlacesOf(new, S) <=> i \in Nat /\ i < Len(new) /\ Entry(new, i) \in S
  BY <1>1, PlacesOfHas
<1> QED BY <1>2 DEF Tells

\* acc has followed the first k moves of b
Following(acc, b, c, k, old, mean, new, U) ==
  /\ acc \in [kept : Moves, moves : Moves, modifications : SUBSET Nat]
  /\ Kept(acc.kept, b, c, k, old, mean, new)
  /\ SomeMoves(acc.moves, c)
  /\ Marked(acc.modifications, acc.kept, b, c, new, U)

\* Following the next one.
LEMMA FollowStep ==
  ASSUME NEW b, NEW c, NEW old, NEW mean, NEW new, NEW S, NEW T,
         Meet(b, c, old, mean, new, S, T), NEW acc, NEW k \in DOMAIN b.moves,
         Following(acc, b, c, k - 1, old, mean, new, S \cup T)
  PROVE  Following(Follow(b, c, acc, b.moves[k]), b, c, k, old, mean, new, S \cup T)
<1> DEFINE U == S \cup T
           m == b.moves[k]
           t == m.to
           res == Follow(b, c, acc, m)
           M == acc.modifications
<1>1. Tells(b, old, mean, S) /\ Tells(c, mean, new, T) /\ Apart(mean) /\ Apart(new)
  BY DEF Meet
<1>2. Sound(b, old, mean) /\ Sound(c, mean, new) /\ Len(new) \in Nat
  BY <1>1, SoundParts DEF Tells
<1>3. /\ acc \in [kept : Moves, moves : Moves, modifications : SUBSET Nat]
      /\ Kept(acc.kept, b, c, k - 1, old, mean, new)
      /\ SomeMoves(acc.moves, c)
      /\ Marked(M, acc.kept, b, c, new, U)
  BY DEF Following
<1>4. t \in b.insertions /\ t \in Nat /\ t < Len(mean)
  BY <1>2, MoveParts
<1>5. Settled(b, t)
  BY DEF Settled
<1>6. t \in b.modifications <=> Entry(mean, t) \in S
  BY <1>1, <1>4, <1>5, TellsSet
<1>7. M \subseteq PlacesOf(new, U) /\ c.modifications \subseteq M
  BY <1>3 DEF Marked
<1> HIDE DEF U, t, M
<1>8. S \subseteq U /\ \A e \in U : e \in S \/ e \in T
  BY DEF U
<1>9. CASE \E j \in DOMAIN acc.moves : acc.moves[j].from = t
  <2> DEFINE j == FirstFrom(acc.moves, t)
             dest == acc.moves[j].to
             more == Append(acc.kept, [from |-> m.from, to |-> dest])
             rest == [i \in 1 .. Len(acc.moves) - 1 |-> acc.moves[IF i = j THEN Len(acc.moves) ELSE i]]
             N == IF t \in b.modifications THEN M \cup {dest} ELSE M
  <2>1. res = [kept |-> more, moves |-> rest, modifications |-> N]
    BY <1>9 DEF Follow, t, M
  <2>2. acc.moves \in Moves
    BY <1>3
  <2>3. j \in DOMAIN acc.moves /\ acc.moves[j].from = t
    BY <1>9, <2>2, FirstFromIs
  <2> HIDE DEF j
  <2>4. PICK q \in DOMAIN c.moves : acc.moves[j] = c.moves[q]
    BY <1>3, <2>3 DEF SomeMoves
  <2>5. /\ c.moves[q].to \in c.insertions /\ c.moves[q].to \in Nat /\ c.moves[q].to < Len(new)
        /\ Entry(mean, c.moves[q].from) = Entry(new, c.moves[q].to)
    BY <1>2, MoveParts
  <2>6. /\ dest \in c.insertions /\ dest \in Nat /\ dest < Len(new)
        /\ Entry(mean, t) = Entry(new, dest) /\ \E l \in DOMAIN c.moves : c.moves[l].to = dest
    BY <2>3, <2>4, <2>5
  <2> HIDE DEF dest
  <2>7. dest \in MergedInsertions(b, c)
    BY <2>6, MergedHas
  <2>8. Kept(more, b, c, k, old, mean, new) /\ KeptMore(acc.kept, more, dest)
    BY <1>1, <1>2, <1>3, <2>6, <2>7, KeepNext DEF t
  <2>9. SomeMoves(rest, c)
    BY <1>3, <2>3, LastInPlace
  <2>10. Settled(c, dest)
    BY <2>6 DEF Settled
  <2>11. dest \in PlacesOf(new, U) <=> Entry(new, dest) \in U
    BY <1>2, <2>6, PlacesOfHas
  <2>12. M \subseteq N /\ N \subseteq PlacesOf(new, U)
    BY <1>6, <1>7, <1>8, <2>6, <2>11
  <2>13. Entry(new, dest) \in T => dest \in c.modifications
    BY <1>1, <2>6, <2>10, TellsSet
  <2>14. Entry(new, dest) \in U => dest \in N
    BY <1>6, <1>7, <1>8, <2>6, <2>13
  <2> HIDE DEF N, more, rest, res
  <2>15. Marked(N, more, b, c, new, U)
    BY <1>3, <2>8, <2>12, <2>14, MarkedMore
  <2>16. more \in Moves /\ rest \in Moves /\ N \subseteq Nat
    <3>1. \A i \in PlacesOf(new, U) : i \in Nat
      BY <1>2, PlacesOfHas
    <3> QED BY <2>8, <2>9, <2>12, <3>1 DEF Kept, SomeMoves
  <2>17. res \in [kept : Moves, moves : Moves, modifications : SUBSET Nat]
         /\ res.kept = more /\ res.moves = rest /\ res.modifications = N
    BY <2>1, <2>16
  <2> QED BY <2>8, <2>9, <2>15, <2>17 DEF Following, res, U
<1>10. CASE /\ ~\E j \in DOMAIN acc.moves : acc.moves[j].from = t
            /\ t \in c.deletions
  <2>1. res = acc
    BY <1>10 DEF Follow, t
  <2>2. DOMAIN b.moves \subseteq Nat
    <3>1. b.moves \in Moves
      BY <1>2, SoundParts
    <3>2. DOMAIN b.moves = 1 .. Len(b.moves) /\ Len(b.moves) \in Nat
      BY <3>1, MovesAre
    <3> QED BY <3>2
  <2>3. \A j \in DOMAIN b.moves : j <= k - 1 => j <= k
    BY <2>2
  <2>4. Kept(acc.kept, b, c, k, old, mean, new)
    BY <1>3, <2>3 DEF Kept
  <2> QED BY <1>3, <2>1, <2>4 DEF Following, U, M
<1>11. CASE /\ ~\E j \in DOMAIN acc.moves : acc.moves[j].from = t
            /\ t \notin c.deletions
  <2> DEFINE y == At(c.insertions, c.deletions, t)
             more == Append(acc.kept, [from |-> m.from, to |-> y])
  <2>1. res = [acc EXCEPT !.kept = more]
    BY <1>11 DEF Follow, t, At
  <2>2. Stays(c.deletions, c.insertions, mean, new, t, y)
    BY <1>2, <1>4, <1>11, StaysAfter DEF Sound
  <2>3. y \in MergedInsertions(b, c)
    BY <1>4, <1>11, MergedHas
  <2>4. t \in b.modifications => y \in Older(b, c)
    BY <1>11 DEF Older, Carried
  <2> HIDE DEF y
  <2>5. y \in Nat /\ y < Len(new) /\ y \notin c.insertions /\ Entry(new, y) = Entry(mean, t)
    BY <2>2 DEF Stays
  <2>6. Kept(more, b, c, k, old, mean, new) /\ KeptMore(acc.kept, more, y)
    BY <1>1, <1>2, <1>3, <2>3, <2>5, KeepNext DEF t
  <2>7. Settled(c, y)
    BY <2>5 DEF Settled
  <2>8. Entry(new, y) \in T => y \in c.modifications
    BY <1>1, <2>5, <2>7, TellsSet
  <2>9. Entry(new, y) \in U => y \in M \cup Older(b, c)
    BY <1>6, <1>7, <1>8, <2>4, <2>5, <2>8
  <2> HIDE DEF more, res
  <2>10. Marked(M, more, b, c, new, U)
    BY <1>3, <1>7, <2>6, <2>9, MarkedMore
  <2>11. more \in Moves
    BY <2>6 DEF Kept
  <2>12. /\ res \in [kept : Moves, moves : Moves, modifications : SUBSET Nat]
         /\ res.kept = more /\ res.moves = acc.moves /\ res.modifications = M
    BY <1>3, <2>1, <2>11 DEF M
  <2> QED BY <1>3, <2>6, <2>10, <2>12 DEF Following, res, U
<1> QED BY <1>9, <1>10, <1>11

\* FollowMoves follows all of them.
LEMMA FollowMovesRight ==
  ASSUME NEW b, NEW c, NEW old, NEW mean, NEW new, NEW S, NEW T,
         Meet(b, c, old, mean, new, S, T)
  PROVE  Following(FollowMoves(b, c), b, c, Len(b.moves), old, mean, new, S \cup T)
<1> DEFINE U == S \cup T
           ms == b.moves
           n == Len(ms)
<1>1. Tells(b, old, mean, S) /\ Tells(c, mean, new, T)
  BY DEF Meet
<1>2. Sound(b, old, mean) /\ Sound(c, mean, new) /\ Len(new) \in Nat
  BY <1>1, SoundParts DEF Tells
<1>3. /\ ms \in Moves /\ n \in Nat /\ DOMAIN ms = 1 .. n
      /\ c.moves \in Moves /\ c.modifications \subseteq Nat
  BY <1>2, SoundParts, MovesAre
<1>4. PICK f : /\ FollowMoves(b, c) = f[n]
               /\ f[0] = [kept |-> << >>, moves |-> c.moves, modifications |-> c.modifications]
               /\ \A k \in 1 .. n : f[k] = Follow(b, c, f[k - 1], ms[k])
  BY <1>3, FollowMovesFollows
<1> DEFINE Good == {k \in 0 .. n : Following(f[k], b, c, k, old, mean, new, U)}
<1>5. 0 \in Good
  <2> DEFINE r == f[0]
  <2>1. << >> \in Moves /\ DOMAIN << >> = {}
    BY EmptySeq DEF Moves
  <2>2. /\ r.kept = << >> /\ r.moves = c.moves /\ r.modifications = c.modifications
        /\ r \in [kept : Moves, moves : Moves, modifications : SUBSET Nat]
    BY <1>3, <1>4, <2>1
  <2> HIDE DEF r
  <2>3. Kept(r.kept, b, c, 0, old, mean, new)
    BY <2>1, <2>2 DEF Kept, Named
  <2>4. SomeMoves(r.moves, c)
    BY <1>2, <1>3, <2>2 DEF SomeMoves, Sound, Named
  <2>5. c.modifications \subseteq PlacesOf(new, U)
    <3>1. \A i : i \in PlacesOf(new, T) <=> i \in Nat /\ i < Len(new) /\ Entry(new, i) \in T
      BY <1>2, PlacesOfHas
    <3>2. \A i : i \in PlacesOf(new, U) <=> i \in Nat /\ i < Len(new) /\ Entry(new, i) \in U
      BY <1>2, PlacesOfHas
    <3> QED BY <1>1, <3>1, <3>2 DEF Tells
  <2>6. Marked(r.modifications, r.kept, b, c, new, U)
    BY <2>1, <2>2, <2>5 DEF Marked
  <2>7. Following(r, b, c, 0, old, mean, new, U)
    BY <2>2, <2>3, <2>4, <2>6 DEF Following
  <2> QED BY <1>3, <2>7 DEF r
<1>6. ASSUME NEW k \in 1 .. n, k - 1 \in Good PROVE k \in Good
  <2>1. k \in DOMAIN ms /\ f[k] = Follow(b, c, f[k - 1], ms[k])
        /\ Following(f[k - 1], b, c, k - 1, old, mean, new, U)
    BY <1>3, <1>4, <1>6
  <2>2. Following(f[k], b, c, k, old, mean, new, U)
    BY <2>1, FollowStep
  <2> QED BY <1>3, <2>2
<1>7. n \in Good
  <2>1. n \in 0 .. n
    BY <1>3
  <2> HIDE DEF Good, n
  <2> QED BY <1>3, <1>5, <1>6, <2>1, UpTo
<1> QED BY <1>4, <1>7

\* The moves left of the second change, of entries that the first did not insert.
LEMMA NewMovesAre ==
  ASSUME NEW b, NEW c, NEW ms, SomeMoves(ms, c)
  PROVE  /\ SomeMoves(NewMoves(b, ms), c)
         /\ \A k \in DOMAIN NewMoves(b, ms) : NewMoves(b, ms)[k].from \notin b.insertions
<1> DEFINE gone == {k - 1 : k \in {j \in DOMAIN ms : ms[j].from \in b.insertions}}
           left == Leaving(ms, gone)
<1>1. NewMoves(b, ms) = left
  BY DEF NewMoves
<1>2. ms \in Moves /\ \A p \in DOMAIN ms : \E q \in DOMAIN c.moves : ms[p] = c.moves[q]
  BY DEF SomeMoves
<1>3. DOMAIN ms = 1 .. Len(ms) /\ Len(ms) \in Nat
  BY <1>2, MovesAre
<1>4. gone \subseteq 0 .. Len(ms) - 1
  BY <1>3
<1>5. \A k \in DOMAIN ms : ms[k].from \in b.insertions => k - 1 \in gone
  OBVIOUS
<1> HIDE DEF gone, left
<1>6. PICK m \in Nat : \E f : Picks(ms, gone, left, m, f)
  BY <1>2, <1>4, LeavingPicks DEF left
<1>7. PICK f : Picks(ms, gone, left, m, f)
  BY <1>6
<1>8. /\ left \in Moves /\ DOMAIN left = 1 .. m
      /\ f \in [1 .. m -> DOMAIN ms]
      /\ \A j, k \in 1 .. m : f[j] = f[k] => j = k
      /\ \A k \in 1 .. m : left[k] = ms[f[k]] /\ f[k] - 1 \notin gone
  BY <1>7 DEF Picks
<1>9. \A k \in 1 .. m : f[k] \in DOMAIN ms
  BY <1>8
<1>10. \A k \in DOMAIN left : left[k].from \notin b.insertions
  BY <1>5, <1>8, <1>9
<1>11. \A k \in DOMAIN left : \E q \in DOMAIN c.moves : left[k] = c.moves[q]
  BY <1>2, <1>8, <1>9
<1>12. ASSUME NEW j \in DOMAIN left, NEW k \in DOMAIN left, left[j].to = left[k].to PROVE j = k
  <2>1. ms[f[j]].to = ms[f[k]].to /\ f[j] \in DOMAIN ms /\ f[k] \in DOMAIN ms
    BY <1>8, <1>9, <1>12
  <2>2. f[j] = f[k]
    BY <2>1 DEF SomeMoves
  <2> QED BY <1>8, <2>2
<1>13. SomeMoves(left, c)
  BY <1>8, <1>11, <1>12 DEF SomeMoves
<1> QED BY <1>1, <1>10, <1>13

\* late are the moves ms, from where their entries were before the first change
Late(late, ms, b, c, old, mean, new) ==
  /\ late \in Moves /\ DOMAIN late = DOMAIN ms
  /\ Named(late, MergedDeletions(b, c), MergedInsertions(b, c), old, new)
  /\ \A k \in DOMAIN ms :
       /\ late[k].to = ms[k].to
       /\ ms[k].from \in Nat /\ ms[k].from < Len(mean) /\ ms[k].from \notin b.insertions
       /\ ms[k].to \in Nat /\ ms[k].to < Len(new) /\ Settled(c, ms[k].to)
       /\ Entry(new, ms[k].to) = Entry(mean, ms[k].from)

\* MovesFromBefore makes moves of both changes of them.
LEMMA MovesFromBeforeRight ==
  ASSUME NEW b, NEW c, NEW old, NEW mean, NEW new, Sound(b, old, mean), Sound(c, mean, new),
         NEW ms, SomeMoves(ms, c), \A k \in DOMAIN ms : ms[k].from \notin b.insertions
  PROVE  Late(MovesFromBefore(b, ms), ms, b, c, old, mean, new)
<1> DEFINE From(k) == At(b.deletions, b.insertions, ms[k].from)
           late == MovesFromBefore(b, ms)
           D == MergedDeletions(b, c)
           I == MergedInsertions(b, c)
<1>1. late = [k \in DOMAIN ms |-> [from |-> From(k), to |-> ms[k].to]]
  BY DEF MovesFromBefore, At
<1>2. DOMAIN ms = 1 .. Len(ms) /\ Len(ms) \in Nat
  BY MovesAre DEF SomeMoves
<1>3. ASSUME NEW k \in DOMAIN ms
      PROVE  /\ ms[k].from \in c.deletions /\ ms[k].to \in c.insertions
             /\ ms[k].from \in Nat /\ ms[k].from < Len(mean)
             /\ ms[k].to \in Nat /\ ms[k].to < Len(new) /\ Settled(c, ms[k].to)
             /\ Entry(new, ms[k].to) = Entry(mean, ms[k].from)
  <2>1. PICK q \in DOMAIN c.moves : ms[k] = c.moves[q]
    BY DEF SomeMoves
  <2>2. /\ c.moves[q].from \in c.deletions /\ c.moves[q].to \in c.insertions
        /\ c.moves[q].from \in Nat /\ c.moves[q].from < Len(mean)
        /\ c.moves[q].to \in Nat /\ c.moves[q].to < Len(new)
        /\ Entry(mean, c.moves[q].from) = Entry(new, c.moves[q].to)
    BY MoveParts
  <2>3. Settled(c, c.moves[q].to)
    BY DEF Settled
  <2> QED BY <2>1, <2>2, <2>3
<1>4. ASSUME NEW k \in DOMAIN ms
      PROVE  From(k) \in D /\ From(k) \in Nat /\ Entry(old, From(k)) = Entry(new, ms[k].to)
  <2>1. From(k) \in D
    BY <1>3, MergedHas
  <2>2. Stays(b.deletions, b.insertions, old, mean, From(k), ms[k].from)
    BY <1>3, StaysBefore DEF Sound
  <2> QED BY <1>3, <2>1, <2>2 DEF Stays
<1>5. \A k \in DOMAIN ms : ms[k].to \in I
  BY <1>3, MergedHas
<1> HIDE DEF From, late, D, I
<1>6. /\ late \in [1 .. Len(ms) -> [from : Nat, to : Nat]] /\ DOMAIN late = DOMAIN ms
      /\ \A k \in DOMAIN ms : late[k].from = From(k) /\ late[k].to = ms[k].to
  BY <1>1, <1>2, <1>3, <1>4
<1>7. late \in Moves
  BY <1>2, <1>6, MovesOf
<1>8. \A k \in DOMAIN late : /\ late[k].from \in D /\ late[k].to \in I
                             /\ Entry(old, late[k].from) = Entry(new, late[k].to)
  BY <1>4, <1>5, <1>6
<1>9. \A j, k \in DOMAIN late : late[j].to = late[k].to => j = k
  BY <1>6 DEF SomeMoves
<1>10. Named(late, D, I, old, new)
  BY <1>8, <1>9 DEF Named
<1>11. Late(late, ms, b, c, old, mean, new)
  BY <1>3, <1>6, <1>7, <1>10 DEF Late, D, I
<1> QED BY <1>11 DEF late

\* Moves of different entries, one sequence after the other.
LEMMA NamedJoin ==
  ASSUME NEW D, NEW I, NEW old, NEW new, NEW s \in Moves, NEW t \in Moves,
         Named(s, D, I, old, new), Named(t, D, I, old, new),
         \A j \in DOMAIN s, k \in DOMAIN t : s[j].to # t[k].to
  PROVE  /\ s \o t \in Moves
         /\ Named(s \o t, D, I, old, new)
         /\ \A p \in DOMAIN (s \o t) : \/ \E j \in DOMAIN s : (s \o t)[p] = s[j]
                                       \/ \E k \in DOMAIN t : (s \o t)[p] = t[k]
<1> DEFINE u == s \o t
           m == Len(s)
           n == Len(t)
<1>1. m \in Nat /\ DOMAIN s = 1 .. m /\ n \in Nat /\ DOMAIN t = 1 .. n
  BY MovesAre
<1>2. /\ u \in Moves /\ Len(u) = m + n
      /\ \A p \in 1 .. m + n : u[p] = IF p <= m THEN s[p] ELSE t[p - m]
  BY ConcatProperties DEF Moves
<1>3. DOMAIN u = 1 .. m + n
  BY <1>2, MovesAre
<1> HIDE DEF u, m, n
<1>4. ASSUME NEW p \in DOMAIN u
      PROVE  \/ p \in DOMAIN s /\ u[p] = s[p]
             \/ p - m \in DOMAIN t /\ ~(p <= m) /\ u[p] = t[p - m]
  BY <1>1, <1>2, <1>3
<1>5. ASSUME NEW p \in DOMAIN u
      PROVE  /\ u[p].from \in D /\ u[p].to \in I
             /\ Entry(old, u[p].from) = Entry(new, u[p].to)
  BY <1>4 DEF Named
<1>6. ASSUME NEW p \in DOMAIN u, NEW q \in DOMAIN u, u[p].to = u[q].to PROVE p = q
  <2>1. p \in Nat /\ q \in Nat
    BY <1>1, <1>3
  <2>2. CASE p \in DOMAIN s /\ u[p] = s[p] /\ q \in DOMAIN s /\ u[q] = s[q]
    BY <1>6, <2>2 DEF Named
  <2>3. CASE p - m \in DOMAIN t /\ u[p] = t[p - m] /\ q - m \in DOMAIN t /\ u[q] = t[q - m]
    <3>1. p - m = q - m
      BY <1>6, <2>3 DEF Named
    <3> QED BY <1>1, <2>1, <3>1
  <2>4. CASE p \in DOMAIN s /\ u[p] = s[p] /\ q - m \in DOMAIN t /\ u[q] = t[q - m]
    BY <1>6, <2>4
  <2>5. CASE p - m \in DOMAIN t /\ u[p] = t[p - m] /\ q \in DOMAIN s /\ u[q] = s[q]
    BY <1>6, <2>5
  <2> QED BY <1>4, <2>2, <2>3, <2>4, <2>5
<1>7. Named(u, D, I, old, new)
  BY <1>5, <1>6 DEF Named
<1>8. \A p \in DOMAIN u : (\E j \in DOMAIN s : u[p] = s[j]) \/ \E k \in DOMAIN t : u[p] = t[k]
  BY <1>4
<1> QED BY <1>2, <1>7, <1>8 DEF u

\* Modifications followed through the second change are of entries that were set.
LEMMA OlderRight ==
  ASSUME NEW b, NEW c, NEW old, NEW mean, NEW new, NEW S, NEW T, Meet(b, c, old, mean, new, S, T)
  PROVE  Older(b, c) \subseteq PlacesOf(new, S \cup T)
<1>1. Tells(b, old, mean, S) /\ Sound(b, old, mean) /\ Sound(c, mean, new)
  BY DEF Meet, Tells
<1>2. Len(new) \in Nat /\ Len(mean) \in Nat
  BY <1>1, SoundParts
<1>3. ASSUME NEW v \in b.modifications \ c.deletions
      PROVE  At(c.insertions, c.deletions, v) \in PlacesOf(new, S \cup T)
  <2> DEFINE y == At(c.insertions, c.deletions, v)
  <2>1. v \in PlacesOf(mean, S)
    BY <1>1 DEF Tells
  <2>2. v \in Nat /\ v < Len(mean) /\ Entry(mean, v) \in S
    BY <1>2, <2>1, PlacesOfHas
  <2>3. Stays(c.deletions, c.insertions, mean, new, v, y)
    BY <1>1, <2>2, StaysAfter DEF Sound
  <2> HIDE DEF y
  <2>4. y \in Nat /\ y < Len(new) /\ Entry(new, y) \in S \cup T
    BY <2>2, <2>3 DEF Stays
  <2>5. y \in PlacesOf(new, S \cup T)
    BY <1>2, <2>4, PlacesOfHas
  <2> QED BY <2>5 DEF y
<1> QED BY <1>3 DEF Older, Carried

\* What neither change inserted was where neither deleted it.
LEMMA StaysThrough ==
  ASSUME NEW b, NEW c, NEW old, NEW mean, NEW new, Sound(b, old, mean), Sound(c, mean, new),
         NEW i \in Nat, i < Len(new), i \notin MergedInsertions(b, c)
  PROVE  \E v \in Nat : /\ v < Len(mean) /\ v \notin b.insertions /\ v \notin c.deletions
                        /\ i \notin c.insertions /\ Entry(mean, v) = Entry(new, i)
                        /\ At(c.insertions, c.deletions, v) = i
<1> DEFINE v == At(c.deletions, c.insertions, i)
<1>1. i \notin c.insertions
  BY MergedHas
<1>2. Leads(c.deletions, c.insertions, mean, new)
  BY DEF Sound
<1>3. Stays(c.deletions, c.insertions, mean, new, v, i)
  BY <1>1, <1>2, StaysBefore
<1> HIDE DEF v
<1>4. IsIndexSet(c.deletions) /\ IsIndexSet(c.insertions)
  BY <1>2, LeadsKnown DEF Known
<1>5. At(c.insertions, c.deletions, v) = i
  BY <1>3, <1>4, StaysOnce
<1>6. v \in Nat /\ v < Len(mean) /\ v \notin c.deletions /\ Entry(mean, v) = Entry(new, i)
  BY <1>3 DEF Stays
<1>7. v \notin b.insertions
  BY <1>5, <1>6, MergedHas
<1> QED BY <1>1, <1>5, <1>6, <1>7

\* the two changes merged, before the moves are cleaned up
Merged(b, c) ==
  LET followed == FollowMoves(b, c)
      moves    == NewMoves(b, followed.moves)
  IN [deletions     |-> MergedDeletions(b, c),
      insertions    |-> MergedInsertions(b, c),
      modifications |->
         ShiftForInsertAtAll(EraseAtAll(b.modifications, c.deletions), c.insertions)
           \cup followed.modifications \cup StillModified(b, moves),
      moves         |-> followed.kept \o MovesFromBefore(b, moves)]

\* It tells what both told.
LEMMA MergedTells ==
  ASSUME NEW b, NEW c, NEW old, NEW mean, NEW new, NEW S, NEW T, Meet(b, c, old, mean, new, S, T)
  PROVE  Tells(Merged(b, c), old, new, S \cup T)
<1> DEFINE U == S \cup T
           D == MergedDeletions(b, c)
           I == MergedInsertions(b, c)
           fol == FollowMoves(b, c)
           kept == fol.kept
           ms == NewMoves(b, fol.moves)
           late == MovesFromBefore(b, ms)
           still == StillModified(b, ms)
           M == Older(b, c) \cup fol.modifications \cup still
           mv == kept \o late
           r == Merged(b, c)
<1>1. Tells(b, old, mean, S) /\ Tells(c, mean, new, T) /\ Apart(mean) /\ Apart(new)
  BY DEF Meet
<1>2. Sound(b, old, mean) /\ Sound(c, mean, new)
  BY <1>1 DEF Tells
<1>3. Len(mean) \in Nat /\ Len(new) \in Nat /\ b.insertions \subseteq 0 .. Len(mean) - 1
  BY <1>2, SoundParts
<1>4. Following(fol, b, c, Len(b.moves), old, mean, new, U)
  BY FollowMovesRight
<1>5. r = [deletions |-> D, insertions |-> I, modifications |-> M, moves |-> mv]
  <2>1. ShiftForInsertAtAll(EraseAtAll(b.modifications, c.deletions), c.insertions) = Older(b, c)
    BY DEF ShiftForInsertAtAll, EraseAtAll, Older, Carried, At
  <2> HIDE DEF D, I, fol, ms, still, mv
  <2> QED BY <2>1 DEF Merged, D, I, fol, ms, still, mv
<1> HIDE DEF fol, U, r
<1>6. /\ Kept(kept, b, c, Len(b.moves), old, mean, new) /\ SomeMoves(fol.moves, c)
      /\ Marked(fol.modifications, kept, b, c, new, U)
  BY <1>4 DEF Following
<1>7. SomeMoves(ms, c) /\ \A k \in DOMAIN ms : ms[k].from \notin b.insertions
  BY <1>6, NewMovesAre
<1> HIDE DEF ms
<1>8. Late(late, ms, b, c, old, mean, new)
  BY <1>2, <1>7, MovesFromBeforeRight
<1>9. still = {ms[k].to : k \in {j \in DOMAIN ms : ms[j].from \in b.modifications}}
  BY DEF StillModified
<1> HIDE DEF D, I, kept, late, still, mv
<1>10. /\ late \in Moves /\ DOMAIN late = DOMAIN ms /\ Named(late, D, I, old, new)
       /\ \A k \in DOMAIN ms :
            /\ late[k].to = ms[k].to
            /\ ms[k].from \in Nat /\ ms[k].from < Len(mean) /\ ms[k].from \notin b.insertions
            /\ ms[k].to \in Nat /\ ms[k].to < Len(new) /\ Settled(c, ms[k].to)
            /\ Entry(new, ms[k].to) = Entry(mean, ms[k].from)
  BY <1>8 DEF Late, D, I
<1>11. /\ kept \in Moves /\ Named(kept, D, I, old, new)
       /\ \A p \in DOMAIN kept : \E j \in DOMAIN b.moves :
            Entry(new, kept[p].to) = Entry(mean, b.moves[j].to)
  BY <1>6 DEF Kept, D, I
<1>12. /\ c.modifications \subseteq fol.modifications /\ fol.modifications \subseteq PlacesOf(new, U)
       /\ \A p \in DOMAIN kept :
            Entry(new, kept[p].to) \in U => kept[p].to \in fol.modifications \cup Older(b, c)
  BY <1>6 DEF Marked
<1>13. ASSUME NEW p \in DOMAIN kept, NEW k \in DOMAIN late PROVE kept[p].to # late[k].to
  <2>1. PICK j \in DOMAIN b.moves : Entry(new, kept[p].to) = Entry(mean, b.moves[j].to)
    BY <1>11
  <2>2. /\ b.moves[j].to \in b.insertions /\ b.moves[j].to \in Nat /\ b.moves[j].to < Len(mean)
    BY <1>2, MoveParts
  <2>3. b.moves[j].to # ms[k].from
    BY <1>10, <2>2
  <2>4. Entry(mean, b.moves[j].to) # Entry(mean, ms[k].from)
    BY <1>1, <1>10, <2>2, <2>3 DEF Apart
  <2> QED BY <1>10, <2>1, <2>4
<1>14. /\ mv \in Moves /\ Named(mv, D, I, old, new)
       /\ \A p \in DOMAIN mv : (\E j \in DOMAIN kept : mv[p] = kept[j])
                               \/ \E k \in DOMAIN late : mv[p] = late[k]
  BY <1>10, <1>11, <1>13, NamedJoin DEF mv
<1>15. Leads(D, I, old, new)
  BY <1>2, MergeLeads DEF Sound, D, I
<1>16. D \subseteq Nat /\ I \subseteq Nat
  BY <1>15, LeadsKnown DEF Known
<1>17. ASSUME NEW k \in DOMAIN ms
       PROVE  /\ ms[k].from \in b.modifications => Entry(new, ms[k].to) \in S
              /\ Entry(new, ms[k].to) \in S => ms[k].from \in b.modifications
              /\ Entry(new, ms[k].to) \in T => ms[k].to \in c.modifications
  <2>1. Settled(b, ms[k].from)
    BY <1>10 DEF Settled
  <2>2. /\ ms[k].from \in b.modifications => Entry(mean, ms[k].from) \in S
        /\ Entry(mean, ms[k].from) \in S => ms[k].from \in b.modifications
    BY <1>1, <1>10, <2>1, TellsSet
  <2>3. Entry(new, ms[k].to) \in T => ms[k].to \in c.modifications
    BY <1>1, <1>10, TellsSet
  <2> QED BY <1>10, <2>2, <2>3
<1>18. Older(b, c) \subseteq PlacesOf(new, U)
  BY OlderRight DEF U
<1>19. still \subseteq PlacesOf(new, U)
  <2>1. ASSUME NEW k \in DOMAIN ms, ms[k].from \in b.modifications
        PROVE  ms[k].to \in PlacesOf(new, U)
    <3>1. ms[k].to \in Nat /\ ms[k].to < Len(new) /\ Entry(new, ms[k].to) \in U
      BY <1>10, <1>17, <2>1 DEF U
    <3> QED BY <1>3, <3>1, PlacesOfHas
  <2> QED BY <1>9, <2>1
<1>20. M \subseteq PlacesOf(new, U)
  BY <1>12, <1>18, <1>19
<1>21. M \subseteq Nat
  <2>1. \A i \in PlacesOf(new, U) : i \in Nat
    BY <1>3, PlacesOfHas
  <2> QED BY <1>20, <2>1
<1>22. ASSUME NEW i \in PlacesOf(new, U), i \notin I PROVE i \in M
  <2>1. i \in Nat /\ i < Len(new) /\ Entry(new, i) \in U
    BY <1>3, PlacesOfHas
  <2>2. PICK v \in Nat : /\ v < Len(mean) /\ v \notin b.insertions /\ v \notin c.deletions
                         /\ i \notin c.insertions /\ Entry(mean, v) = Entry(new, i)
                         /\ At(c.insertions, c.deletions, v) = i
    BY <1>2, <1>22, <2>1, StaysThrough DEF I
  <2>3. Settled(b, v) /\ Settled(c, i)
    BY <2>2 DEF Settled
  <2>4. CASE Entry(new, i) \in S
    <3>1. v \in b.modifications
      BY <1>1, <2>2, <2>3, <2>4, TellsSet
    <3>2. i \in Older(b, c)
      BY <2>2, <3>1 DEF Older, Carried
    <3> QED BY <3>2
  <2>5. CASE Entry(new, i) \in T
    <3>1. i \in c.modifications
      BY <1>1, <2>1, <2>3, <2>5, TellsSet
    <3> QED BY <1>12, <3>1
  <2> QED BY <2>1, <2>4, <2>5 DEF U
<1>23. ASSUME NEW p \in DOMAIN mv, mv[p].to \in PlacesOf(new, U) PROVE mv[p].to \in M
  <2>1. Entry(new, mv[p].to) \in U
    BY <1>3, <1>23, PlacesOfHas
  <2>2. CASE \E j \in DOMAIN kept : mv[p] = kept[j]
    BY <1>12, <2>1, <2>2
  <2>3. CASE \E k \in DOMAIN late : mv[p] = late[k]
    <3>1. PICK k \in DOMAIN ms : mv[p].to = ms[k].to
      BY <1>10, <2>3
    <3>2. CASE Entry(new, ms[k].to) \in S
      BY <1>9, <1>17, <3>1, <3>2
    <3>3. CASE Entry(new, ms[k].to) \in T
      BY <1>12, <1>17, <3>1, <3>3
    <3> QED BY <2>1, <3>1, <3>2, <3>3 DEF U
  <2> QED BY <1>14, <2>2, <2>3
<1> HIDE DEF M
<1>24. /\ r.deletions = D /\ r.insertions = I /\ r.modifications = M /\ r.moves = mv
       /\ r \in ChangeRecords
  BY <1>5, <1>14, <1>16, <1>21 DEF ChangeRecords
<1>25. Sound(r, old, new)
  BY <1>14, <1>15, <1>24 DEF Sound
<1>26. ASSUME NEW i \in PlacesOf(new, U), Settled(r, i) PROVE i \in r.modifications
  BY <1>22, <1>23, <1>24, <1>26 DEF Settled
<1>27. Tells(r, old, new, U)
  BY <1>20, <1>24, <1>25, <1>26 DEF Tells
<1> QED BY <1>27 DEF r, U

\* Deleting and inserting nothing leaves the list.
LEMMA SameList ==
  ASSUME NEW old, NEW new, Leads({}, {}, old, new)
  PROVE  old = new
<1>1. old \in Seq(Nat) /\ new \in Seq(Nat) /\ Correspond({}, {}, old, new)
  BY LeadsIs, Zenon
<1>2. Known({}, {}, old, new)
  BY LeadsKnown
<1>3. Len(old) = Len(new) /\ Len(old) \in Nat
  BY <1>2 DEF Known
<1>4. ASSUME NEW i \in Nat, i < Len(old) PROVE Entry(old, i) = Entry(new, i)
  BY <1>1, <1>3, <1>4 DEF Correspond
<1> QED BY <1>1, <1>3, <1>4, SameEntries

\* No change tells that nothing was set.
LEMMA NoChangeTells ==
  ASSUME NEW old, NEW new, NEW S, Tells(NoChange, old, new, S)
  PROVE  old = new /\ \A i \in Nat : i < Len(new) => Entry(new, i) \notin S
<1>1. /\ NoChange.deletions = {} /\ NoChange.insertions = {} /\ NoChange.modifications = {}
  BY DEF NoChange
<1>2. old = new
  <2>1. Leads(NoChange.deletions, NoChange.insertions, old, new)
    BY DEF Tells, Sound
  <2> QED BY <1>1, <2>1, SameList
<1>3. ASSUME NEW i \in Nat, i < Len(new), Entry(new, i) \in S PROVE FALSE
  <2>1. Settled(NoChange, i)
    BY <1>1 DEF Settled
  <2>2. i \in NoChange.modifications
    BY <1>3, <2>1, TellsSet
  <2> QED BY <1>1, <2>2
<1> QED BY <1>2, <1>3

\* An entry that a change leaves or moves was there before.
LEMMA SettledBefore ==
  ASSUME NEW c, NEW old, NEW new, Sound(c, old, new), NEW i \in Nat, i < Len(new), Settled(c, i)
  PROVE  \E v \in Nat : v < Len(old) /\ Entry(old, v) = Entry(new, i)
<1>1. CASE i \notin c.insertions
  <2> DEFINE v == At(c.deletions, c.insertions, i)
  <2>1. Stays(c.deletions, c.insertions, old, new, v, i)
    BY <1>1, StaysBefore DEF Sound
  <2> HIDE DEF v
  <2> QED BY <2>1 DEF Stays
<1>2. CASE \E k \in DOMAIN c.moves : c.moves[k].to = i
  <2>1. PICK k \in DOMAIN c.moves : c.moves[k].to = i
    BY <1>2
  <2>2. /\ c.moves[k].from \in Nat /\ c.moves[k].from < Len(old)
        /\ Entry(old, c.moves[k].from) = Entry(new, c.moves[k].to)
    BY MoveParts
  <2> QED BY <2>1, <2>2
<1> QED BY <1>1, <1>2 DEF Settled

\* merge() tells what both changes tell.
LEMMA MergeTells ==
  ASSUME NEW b, NEW c, NEW old, NEW mean, NEW new, NEW S, NEW T, Meet(b, c, old, mean, new, S, T)
  PROVE  Tells(Merge(b, c), old, new, S \cup T)
<1>1. Tells(b, old, mean, S) /\ Tells(c, mean, new, T) /\ Apart(mean) /\ Apart(new)
  BY DEF Meet
<1>2. Sound(b, old, mean) /\ Sound(c, mean, new) /\ Len(new) \in Nat
  BY <1>1, SoundParts DEF Tells
<1>3. \A i : i \in PlacesOf(new, S \cup T) <=> i \in Nat /\ i < Len(new) /\ Entry(new, i) \in S \cup T
  BY <1>2, PlacesOfHas
<1>4. \A i : i \in PlacesOf(new, S) <=> i \in Nat /\ i < Len(new) /\ Entry(new, i) \in S
  BY <1>2, PlacesOfHas
<1>5. \A i : i \in PlacesOf(new, T) <=> i \in Nat /\ i < Len(new) /\ Entry(new, i) \in T
  BY <1>2, PlacesOfHas
<1>6. CASE c = NoChange
  <2>1. mean = new /\ \A i \in Nat : i < Len(new) => Entry(new, i) \notin T
    BY <1>1, <1>6, NoChangeTells
  <2>2. \A i : i \in PlacesOf(new, S \cup T) <=> i \in PlacesOf(new, S)
    BY <1>3, <1>4, <2>1
  <2>3. Tells(b, old, new, S \cup T)
    BY <1>1, <2>1, <2>2 DEF Tells
  <2> QED BY <1>6, <2>3 DEF Merge
<1>7. CASE c # NoChange /\ b = NoChange
  <2>1. old = mean /\ \A i \in Nat : i < Len(mean) => Entry(mean, i) \notin S
    BY <1>1, <1>7, NoChangeTells
  <2>2. ASSUME NEW i \in PlacesOf(new, S \cup T), Settled(c, i) PROVE i \in c.modifications
    <3>1. i \in Nat /\ i < Len(new) /\ Entry(new, i) \in S \cup T
      BY <1>3
    <3>2. \E v \in Nat : v < Len(mean) /\ Entry(mean, v) = Entry(new, i)
      BY <1>2, <2>2, <3>1, SettledBefore
    <3>3. Entry(new, i) \in T
      BY <2>1, <3>1, <3>2
    <3> QED BY <1>1, <2>2, <3>1, <3>3, TellsSet
  <2>3. c.modifications \subseteq PlacesOf(new, S \cup T)
    BY <1>1, <1>3, <1>5 DEF Tells
  <2>4. Tells(c, old, new, S \cup T)
    BY <1>2, <2>1, <2>2, <2>3 DEF Tells
  <2> QED BY <1>7, <2>4 DEF Merge
<1>8. CASE c # NoChange /\ b # NoChange
  <2>1. Tells(Merged(b, c), old, new, S \cup T)
    BY MergedTells
  <2>2. Tells(CleanUpStaleMoves(Merged(b, c)), old, new, S \cup T)
    BY <1>1, <2>1, CleanUpTells
  <2> QED BY <1>8, <2>2 DEF Merge, Merged
<1> QED BY <1>6, <1>7, <1>8

\* An exact change tells what happened.
LEMMA ExactTells ==
  ASSUME NEW b, NEW old, NEW new, NEW S, IsExact(b, old, new, S)
  PROVE  Tells(b, old, new, S)
BY DEF IsExact, Tells, Sound

----------------------------------------------------------------------------
(* The change as it is delivered                                           *)

\* the entries reported as modified are those set that stayed, at both positions
Modifies(b, old, new, S) ==
  LET f == Finalize(b)
  IN /\ {Entry(new, i) : i \in f.modifications_new} =
           {e \in EntriesOf(new) \cap S : \A i \in f.insertions : Entry(new, i) # e}
     /\ {Entry(old, i) : i \in f.modifications} = {Entry(new, i) : i \in f.modifications_new}

\* finalize() reports them so.
LEMMA FinalizeRight ==
  ASSUME NEW b, NEW old, NEW new, NEW S, Tells(b, old, new, S), Apart(new)
  PROVE  Modifies(b, old, new, S)
<1> DEFINE D == b.deletions
           I == b.insertions
           M == b.modifications
           f == Finalize(b)
           E == {e \in EntriesOf(new) \cap S : \A i \in I : Entry(new, i) # e}
<1>1. Sound(b, old, new)
  BY DEF Tells
<1>2. /\ new \in Seq(Nat) /\ Len(new) \in Nat /\ I \subseteq 0 .. Len(new) - 1
      /\ Leads(D, I, old, new)
  BY <1>1, SoundParts DEF Sound
<1>3. /\ f.insertions = I /\ f.modifications_new = M \ I
      /\ f.modifications = ShiftForInsertAtAll(EraseAtAll(M, I), D)
  BY DEF Finalize
<1>4. f.modifications = Carried(D, I, M \ I)
  BY <1>3 DEF ShiftForInsertAtAll, EraseAtAll, Carried, At
<1>5. \A i \in M : i \in Nat /\ i < Len(new) /\ Entry(new, i) \in S
  BY <1>2, PlacesOfHas DEF Tells
<1>6. \A i \in I : i \in Nat /\ i < Len(new)
  BY <1>2
<1> HIDE DEF f, D, I, M
<1>7. \A i \in Nat : i < Len(new) => Entry(new, i) \in EntriesOf(new)
  <2>1. ASSUME NEW i \in Nat, i < Len(new) PROVE Entry(new, i) \in EntriesOf(new)
    <3>1. i + 1 \in DOMAIN new
      BY <1>2, <2>1
    <3> QED BY <3>1 DEF Entry, EntriesOf
  <2> QED BY <2>1
<1>8. ASSUME NEW i \in M \ I PROVE Entry(new, i) \in E
  <2>1. \A j \in I : Entry(new, j) # Entry(new, i)
    BY <1>5, <1>6 DEF Apart
  <2> QED BY <1>5, <1>7, <2>1
<1>9. ASSUME NEW e \in E PROVE \E i \in M \ I : Entry(new, i) = e
  <2>1. PICK k \in DOMAIN new : new[k] = e
    BY DEF EntriesOf
  <2>2. k - 1 \in Nat /\ k - 1 < Len(new) /\ (k - 1) + 1 = k
    BY <1>2
  <2>3. Entry(new, k - 1) = e
    BY <2>1, <2>2 DEF Entry
  <2>4. k - 1 \notin I
    BY <2>3
  <2>5. Settled(b, k - 1)
    BY <2>4 DEF Settled, I
  <2>6. k - 1 \in M
    BY <2>2, <2>3, <2>5, TellsSet DEF M
  <2> QED BY <2>3, <2>4, <2>6
<1>10. {Entry(new, i) : i \in M \ I} = E
  BY <1>8, <1>9
<1>11. ASSUME NEW v \in M \ I PROVE Entry(old, At(D, I, v)) = Entry(new, v)
  <2>1. Stays(D, I, old, new, At(D, I, v), v)
    BY <1>2, <1>5, StaysBefore
  <2> QED BY <2>1 DEF Stays
<1>12. {Entry(old, i) : i \in Carried(D, I, M \ I)} = {Entry(new, i) : i \in M \ I}
  <2>1. {Entry(old, i) : i \in Carried(D, I, M \ I)} = {Entry(old, At(D, I, v)) : v \in M \ I}
    BY DEF Carried
  <2> QED BY <1>11, <2>1
<1>13. /\ {Entry(new, i) : i \in f.modifications_new} =
            {e \in EntriesOf(new) \cap S : \A i \in f.insertions : Entry(new, i) # e}
       /\ {Entry(old, i) : i \in f.modifications} = {Entry(new, i) : i \in f.modifications_new}
  BY <1>3, <1>4, <1>10, <1>12
<1> QED BY <1>13 DEF Modifies, f

\* Two of three are more than one.
LEMMA TwoOfThree ==
  ASSUME NEW K, K \subseteq 1 .. 3, NEW i \in K, NEW j \in K, i # j
  PROVE  Cardinality(K) > 1
<1>1. IsFiniteSet(K)
  <2>1. 1 \in Int /\ 3 \in Int
    OBVIOUS
  <2>2. IsFiniteSet(1 .. 3)
    BY <2>1, FS_Interval, Zenon
  <2> QED BY <2>2, FS_Subset, Zenon
<1>2. IsFiniteSet({i}) /\ Cardinality({i}) = 1
  BY FS_Singleton
<1>3. j \notin {i} /\ {i} \cup {j} \subseteq K
  OBVIOUS
<1>4. IsFiniteSet({i} \cup {j}) /\ Cardinality({i} \cup {j}) = 1 + 1
  BY <1>2, <1>3, FS_AddElement
<1>5. Cardinality({i} \cup {j}) <= Cardinality(K) /\ Cardinality(K) \in Nat
  BY <1>1, <1>3, FS_Subset, FS_CardinalityType
<1> QED BY <1>4, <1>5

\* What KVOAdapter tells when nothing was moved.
LEMMA KvoChangeIs ==
  ASSUME NEW b, b.moves = << >>, NEW kvo, kvo = KvoChange(b)
  PROVE  LET modified == b.modifications \ b.insertions
         IN \/ kvo.kind = "SetAll"
            \/ /\ kvo.kind = "Insert" /\ kvo.indices = b.insertions /\ b.deletions = {}
            \/ /\ kvo.kind = "Set" /\ kvo.indices = modified
               /\ b.insertions = {} /\ b.deletions = {}
            \/ /\ kvo.kind = "Remove" /\ kvo.indices = b.deletions /\ b.insertions = {}
<1> DEFINE modified == b.modifications \ b.insertions
           I == b.insertions
           D == b.deletions
           K == {k \in 1 .. 3 : <<I, modified, D>>[k] # {}}
           rest == IF Cardinality(K) > 1 THEN [kind |-> "SetAll", indices |-> {}]
                   ELSE IF I # {} THEN [kind |-> "Insert", indices |-> I]
                   ELSE IF modified # {} THEN [kind |-> "Set", indices |-> modified]
                   ELSE [kind |-> "Remove", indices |-> D]
<1>1. ~(Len(b.moves) > 0)
  <2>1. Len(<< >>) = 0
    BY EmptySeq
  <2> QED BY <2>1
<1>2. kvo = rest
  BY <1>1 DEF KvoChange
<1>3. (I # {} => 1 \in K) /\ (modified # {} => 2 \in K) /\ (D # {} => 3 \in K)
  OBVIOUS
<1>4. K \subseteq 1 .. 3
  OBVIOUS
<1> HIDE DEF K, modified, I, D
<1>5. /\ 1 \in K /\ 3 \in K => Cardinality(K) > 1
      /\ 2 \in K /\ 3 \in K => Cardinality(K) > 1
  <2>1. 1 # 3 /\ 2 # 3
    OBVIOUS
  <2> QED BY <1>4, <2>1, TwoOfThree, Zenon
<1>6. CASE Cardinality(K) > 1
  BY <1>2, <1>6
<1>7. CASE ~(Cardinality(K) > 1) /\ I # {}
  BY <1>2, <1>3, <1>5, <1>7 DEF I, D
<1>8. CASE ~(Cardinality(K) > 1) /\ I = {} /\ modified # {}
  BY <1>2, <1>3, <1>5, <1>8 DEF I, D, modified
<1>9. CASE ~(Cardinality(K) > 1) /\ I = {} /\ modified = {}
  BY <1>2, <1>9 DEF I, D
<1> QED BY <1>6, <1>7, <1>8, <1>9

\* It is what happened to the list.
LEMMA KvoRight ==
  ASSUME NEW b, b.moves = << >>, Tells(b, mid, now, setSince)
  PROVE  Told(KvoChange(b))
<1> DEFINE kvo == KvoChange(b)
           I == b.insertions
           D == b.deletions
           modified == b.modifications \ I
<1>1. \/ kvo.kind = "SetAll"
      \/ kvo.kind = "Insert" /\ kvo.indices = I /\ D = {}
      \/ kvo.kind = "Set" /\ kvo.indices = modified /\ I = {} /\ D = {}
      \/ kvo.kind = "Remove" /\ kvo.indices = D /\ I = {}
  BY KvoChangeIs
<1>2. Sound(b, mid, now)
  BY DEF Tells
<1>3. mid \in Seq(Nat) /\ now \in Seq(Nat) /\ Len(now) \in Nat
  BY <1>2, SoundParts
<1>4. Leads(D, I, mid, now)
  BY <1>2 DEF Sound
<1> HIDE DEF kvo
<1>5. CASE kvo.kind = "SetAll"
  BY <1>5 DEF Told, kvo
<1>6. CASE kvo.kind = "Insert" /\ kvo.indices = I /\ D = {}
  <2> DEFINE c == [NoChange EXCEPT !.insertions = kvo.indices]
  <2>1. c.deletions = D /\ c.insertions = I
    BY <1>6 DEF NoChange
  <2> HIDE DEF c
  <2>2. Takes(c, mid, now)
    BY <1>3, <1>4, <2>1, TakesLeads
  <2> QED BY <1>6, <2>2 DEF Told, c, kvo
<1>7. CASE kvo.kind = "Remove" /\ kvo.indices = D /\ I = {}
  <2> DEFINE c == [NoChange EXCEPT !.deletions = kvo.indices]
  <2>1. c.deletions = D /\ c.insertions = I
    BY <1>7 DEF NoChange
  <2> HIDE DEF c
  <2>2. Takes(c, mid, now)
    BY <1>3, <1>4, <2>1, TakesLeads
  <2> QED BY <1>7, <2>2 DEF Told, c, kvo
<1>8. CASE kvo.kind = "Set" /\ kvo.indices = modified /\ I = {} /\ D = {}
  <2>1. mid = now
    BY <1>4, <1>8, SameList
  <2>2. ASSUME NEW i \in Positions(now), Entry(now, i) \in setSince PROVE i \in kvo.indices
    <3>1. i \in Nat /\ i < Len(now)
      BY <1>3 DEF Positions
    <3>2. Settled(b, i)
      BY <1>8 DEF Settled
    <3>3. i \in b.modifications
      BY <2>2, <3>1, <3>2, TellsSet
    <3> QED BY <1>8, <3>3
  <2>3. /\ Len(mid) = Len(now)
        /\ \A i \in Positions(now) : Entry(mid, i) # Entry(now, i) \/ Entry(now, i) \in setSince
                                       => i \in kvo.indices
    BY <2>1, <2>2
  <2> QED BY <1>8, <2>3 DEF Told, kvo
<1> QED BY <1>1, <1>5, <1>6, <1>7, <1>8

----------------------------------------------------------------------------
(* The invariant                                                           *)

\* the greatest entry there has been
Newest == StartSize + inserted

\* The entries of the list are distinct, only entries there have been were set, and the
\* change gathered so far is exact.
ListInv ==
  /\ inserted \in Nat
  /\ Distinct(now, Newest)
  /\ setSince \subseteq 1 .. Newest
  /\ IsExact(active, mid, now, setSince)

\* A change is exact for two moves in a row, and for one.
LEMMA SwappedExact ==
  ASSUME NEW b, NEW old, NEW new, NEW S, IsExact(b, old, new, S),
         NEW i \in Nat, NEW j \in Nat, i < j, j < Len(new)
  PROVE  LET first == Moved(b, i, j)
         IN IsExact(IF i + 1 # j THEN Moved(first, j - 1, i) ELSE first,
                    old, Swap(new, i, j), S)
<1> DEFINE first == Moved(b, i, j)
           one == Move(new, i, j)
<1>1. new \in Seq(Nat) /\ Len(new) \in Nat
  BY ExactParts
<1>2. i < Len(new) /\ j - 1 \in Nat /\ j - 1 < Len(new)
  BY <1>1
<1>3. IsExact(first, old, one, S)
  BY <1>2, MovedExact DEF Move
<1>4. Len(one) = Len(new)
  <2>1. Rearranged(new, one, i, j)
    BY <1>1, <1>2, EntriesMoved DEF Move
  <2> QED BY <2>1 DEF Rearranged
<1>5. Swap(new, i, j) = IF i + 1 # j THEN Move(one, j - 1, i) ELSE one
  BY <1>1, SwapIsMoves
<1> HIDE DEF first, one
<1>6. IsExact(Moved(first, j - 1, i), old, Move(one, j - 1, i), S)
  BY <1>2, <1>3, <1>4, MovedExact DEF Move
<1>7. IsExact(IF i + 1 # j THEN Moved(first, j - 1, i) ELSE first, old, Swap(new, i, j), S)
  BY <1>3, <1>5, <1>6
<1> QED BY <1>7 DEF first

\* And the entries stay distinct.
LEMMA DistinctSwapped ==
  ASSUME NEW new, NEW n \in Nat, Distinct(new, n),
         NEW i \in Nat, NEW j \in Nat, i < j, j < Len(new)
  PROVE  Distinct(Swap(new, i, j), n)
<1> DEFINE one == Move(new, i, j)
<1>1. new \in Seq(Nat) /\ Len(new) \in Nat
  BY DEF Distinct
<1>2. i < Len(new) /\ j - 1 \in Nat /\ j - 1 < Len(new)
  BY <1>1
<1>3. Distinct(one, n)
  BY <1>2, DistinctMoved DEF Move
<1>4. Len(one) = Len(new)
  <2>1. Rearranged(new, one, i, j)
    BY <1>1, <1>2, EntriesMoved DEF Move
  <2> QED BY <2>1 DEF Rearranged
<1>5. Swap(new, i, j) = IF i + 1 # j THEN Move(one, j - 1, i) ELSE one
  BY <1>1, SwapIsMoves
<1> HIDE DEF one
<1>6. Distinct(Move(one, j - 1, i), n)
  BY <1>2, <1>3, <1>4, DistinctMoved DEF Move
<1> QED BY <1>3, <1>5, <1>6

\* The list at first.
LEMMA ListInit == ListAssumption /\ ListsInit => ListInv
<1> SUFFICES ASSUME ListAssumption, ListsInit PROVE ListInv
  OBVIOUS
<1>1. StartSize \in Nat
  BY DEF ListAssumption
<1>2. now = [k \in 1 .. StartSize |-> k] /\ mid = now /\ active = NoChange
      /\ setSince = {} /\ inserted = 0
  BY DEF ListsInit
<1>3. now \in [1 .. StartSize -> Nat] /\ \A k \in 1 .. StartSize : now[k] = k
  BY <1>1, <1>2
<1>4. now \in Seq(Nat) /\ Len(now) = StartSize
  BY <1>1, <1>3
<1>5. \A i \in Nat : i < StartSize => Entry(now, i) = i + 1
  <2>1. ASSUME NEW i \in Nat, i < StartSize PROVE Entry(now, i) = i + 1
    <3>1. i + 1 \in 1 .. StartSize
      BY <1>1, <2>1
    <3> QED BY <1>3, <3>1 DEF Entry
  <2> QED BY <2>1
<1>10. \A i \in Nat : i < Len(now) => Entry(now, i) = i + 1 /\ i < StartSize
  BY <1>4, <1>5, Zenon
<1>6. Newest = StartSize
  BY <1>1, <1>2 DEF Newest
<1>7. Distinct(now, StartSize)
  <2>1. ASSUME NEW i \in Nat, NEW j \in Nat, i < Len(now), j < Len(now),
               Entry(now, i) = Entry(now, j)
        PROVE  i = j
    <3>1. Entry(now, i) = i + 1 /\ Entry(now, j) = j + 1
      BY <1>10, <2>1, Zenon
    <3>2. i + 1 = j + 1
      BY <2>1, <3>1, Zenon
    <3> QED BY <3>2
  <2>2. ASSUME NEW i \in Nat, i < Len(now) PROVE Entry(now, i) \in 1 .. StartSize
    <3>1. Entry(now, i) = i + 1 /\ i < StartSize
      BY <1>10, <2>2, Zenon
    <3> QED BY <1>1, <3>1
  <2> QED BY <1>4, <2>1, <2>2 DEF Distinct, Apart
<1>8. IsExact(active, mid, now, setSince)
  BY <1>2, <1>4, NoChangeExact
<1>9. inserted \in Nat /\ setSince \subseteq 1 .. Newest
  BY <1>2
<1> QED BY <1>6, <1>7, <1>8, <1>9 DEF ListInv

\* Every instruction, and the end of a transaction, keeps the invariant.
LEMMA ListStep == ListAssumption /\ ListInv /\ [ListsNext]_listVars => ListInv'
<1> SUFFICES ASSUME ListAssumption, ListInv, [ListsNext]_listVars PROVE ListInv'
  OBVIOUS
<1>1. StartSize \in Nat /\ inserted \in Nat /\ Newest \in Nat
  BY DEF ListAssumption, ListInv, Newest
<1>2. /\ Distinct(now, Newest) /\ Apart(now) /\ now \in Seq(Nat)
      /\ setSince \subseteq 1 .. Newest
      /\ IsExact(active, mid, now, setSince)
  BY DEF ListInv, Distinct
<1>3. Len(now) \in Nat
  BY <1>2
<1>4. \A i \in Positions(now) : i \in Nat /\ i < Len(now)
  BY <1>3 DEF Positions
<1>5. ASSUME inserted' = inserted PROVE Newest' = Newest /\ inserted' \in Nat
  BY <1>1, <1>5 DEF Newest
<1>6. ASSUME NEW i \in Positions(now), list_set(i) PROVE ListInv'
  <2>1. /\ now' = now /\ active' = ModifiedAt(active, i) /\ mid' = mid
        /\ setSince' = setSince \cup {Entry(now, i)} /\ inserted' = inserted
    BY <1>6 DEF list_set, Step
  <2>2. IsExact(active', mid', now', setSince')
    BY <1>2, <1>4, <2>1, ModifiedExact
  <2>3. Entry(now, i) \in 1 .. Newest
    BY <1>2, <1>4 DEF Distinct
  <2>4. setSince' \subseteq 1 .. Newest
    BY <1>2, <2>1, <2>3
  <2>5. Distinct(now', Newest')
    BY <1>2, <1>5, <2>1
  <2> QED BY <1>5, <2>1, <2>2, <2>4, <2>5 DEF ListInv
<1>7. ASSUME NEW i \in Positions(now), list_erase(i) PROVE ListInv'
  <2>1. /\ now' = Without(now, i) /\ active' = Erased(active, i) /\ mid' = mid
        /\ setSince' = setSince /\ inserted' = inserted
    BY <1>7 DEF list_erase, Step
  <2>2. IsExact(active', mid', now', setSince')
    BY <1>2, <1>4, <2>1, ErasedExact
  <2>3. Distinct(now', Newest')
    BY <1>1, <1>2, <1>4, <1>5, <2>1, DistinctErased
  <2> QED BY <1>2, <1>5, <2>1, <2>2, <2>3 DEF ListInv
<1>8. ASSUME NEW i \in 0 .. Len(now), list_insert(i) PROVE ListInv'
  <2>0. i \in Nat /\ i <= Len(now)
    BY <1>3
  <2>1. /\ now' = With(now, i, StartSize + inserted + 1) /\ active' = Inserted(active, i, 1)
        /\ mid' = mid /\ setSince' = setSince /\ inserted' = inserted + 1
    BY <1>8 DEF list_insert, Step
  <2>2. /\ now' = With(now, i, Newest + 1) /\ Newest' = Newest + 1 /\ inserted' \in Nat
        /\ Newest + 1 \in Nat /\ Newest + 1 \notin 1 .. Newest
    BY <1>1, <2>1 DEF Newest
  <2>3. Newest + 1 \notin setSince
    BY <1>2, <2>2
  <2>4. IsExact(active', mid', now', setSince')
    BY <1>2, <2>0, <2>1, <2>2, <2>3, InsertedExact
  <2>5. Distinct(now', Newest')
    BY <1>1, <1>2, <2>0, <2>2, DistinctInserted
  <2>6. setSince' \subseteq 1 .. Newest'
    BY <1>1, <1>2, <2>1, <2>2
  <2> QED BY <2>2, <2>4, <2>5, <2>6 DEF ListInv
<1>9. ASSUME NEW i \in Positions(now), NEW j \in Positions(now), list_move(i, j) PROVE ListInv'
  <2>1. /\ now' = With(Without(now, i), j, Entry(now, i)) /\ active' = Moved(active, i, j)
        /\ mid' = mid /\ setSince' = setSince /\ inserted' = inserted
    BY <1>9 DEF list_move, Step
  <2>2. IsExact(active', mid', now', setSince')
    BY <1>2, <1>4, <2>1, MovedExact
  <2>3. Distinct(now', Newest')
    BY <1>1, <1>2, <1>4, <1>5, <2>1, DistinctMoved
  <2> QED BY <1>2, <1>5, <2>1, <2>2, <2>3 DEF ListInv
<1>10. ASSUME NEW i \in Positions(now), NEW j \in Positions(now), list_swap(i, j) PROVE ListInv'
  <2> DEFINE first == Moved(active, i, j)
             change == IF i + 1 # j THEN Moved(first, j - 1, i) ELSE first
  <2>1. /\ i < j /\ now' = Swap(now, i, j) /\ active' = change
        /\ mid' = mid /\ setSince' = setSince /\ inserted' = inserted
    BY <1>10 DEF list_swap, Step, Swap
  <2>2. IsExact(change, mid, Swap(now, i, j), setSince)
    BY <1>2, <1>4, <2>1, SwappedExact
  <2> HIDE DEF change
  <2>3. IsExact(active', mid', now', setSince')
    BY <2>1, <2>2
  <2>4. Distinct(now', Newest')
    BY <1>1, <1>2, <1>4, <1>5, <2>1, DistinctSwapped
  <2> QED BY <1>2, <1>5, <2>1, <2>3, <2>4 DEF ListInv
<1>11. ASSUME list_clear PROVE ListInv'
  <2>1. /\ now' = << >> /\ active' = Cleared(active, Len(now)) /\ mid' = mid
        /\ setSince' = setSince /\ inserted' = inserted
    BY <1>11 DEF list_clear, Step
  <2>2. IsExact(active', mid', now', setSince')
    BY <1>2, <2>1, ClearedExact
  <2>3. << >> \in Seq(Nat) /\ Len(<< >>) = 0
    BY EmptySeq
  <2>4. Distinct(<< >>, Newest)
    <3>0. \A i \in Nat : ~(i < 0)
      OBVIOUS
    <3>1. \A i \in Nat : ~(i < Len(<< >>))
      BY <2>3, <3>0, Zenon
    <3> QED BY <2>3, <3>1, Zenon DEF Distinct, Apart
  <2> QED BY <1>2, <1>5, <2>1, <2>2, <2>4 DEF ListInv
<1>12. ASSUME parse_complete PROVE ListInv'
  <2>1. mid' = now /\ now' = now /\ active' = NoChange /\ setSince' = {} /\ inserted' = inserted
    BY <1>12 DEF parse_complete
  <2>2. IsExact(active', mid', now', setSince')
    BY <1>2, <2>1, NoChangeExact
  <2> QED BY <1>2, <1>5, <2>1, <2>2 DEF ListInv
<1>13. CASE UNCHANGED listVars
  <2>1. now' = now /\ mid' = mid /\ active' = active /\ setSince' = setSince /\ inserted' = inserted
    BY <1>13 DEF listVars, lists, counters
  <2> QED BY <1>2, <1>5, <2>1 DEF ListInv
<1> QED BY <1>6, <1>7, <1>8, <1>9, <1>10, <1>11, <1>12, <1>13 DEF ListsNext

\* The invariant is enough.
LEMMA ListInvExact == ListInv => TransactionExact
<1> SUFFICES ASSUME ListInv PROVE TransactionExact
  OBVIOUS
<1>1. IsExact(active, mid, now, setSince)
  BY DEF ListInv
<1>2. mid \in Seq(Nat) /\ now \in Seq(Nat)
  BY <1>1, ExactParts
<1>3. /\ Leads(active.deletions, active.insertions, mid, now)
      /\ Named(active.moves, active.deletions, active.insertions, mid, now)
      /\ active.modifications = PlacesOf(now, setSince)
  BY <1>1 DEF IsExact
<1>4. Takes(active, mid, now)
  BY <1>2, <1>3, TakesLeads
<1>5. MovesRight(active, mid, now)
  BY <1>3 DEF Named, MovesRight
<1> QED BY <1>3, <1>4, <1>5 DEF TransactionExact, PlacesOf

\* The change gathered so far is exact at all times, of a list of distinct entries, with
\* any number of instructions in a transaction and transactions after one another.
THEOREM ListInvariant == ListAssumption /\ ListsSpec => []ListInv
<1> SUFFICES ASSUME ListAssumption PROVE ListsSpec => []ListInv
  OBVIOUS
<1>1. ListsInit => ListInv
  BY ListInit
<1>2. ListInv /\ [ListsNext]_listVars => ListInv'
  BY ListStep
<1> QED BY <1>1, <1>2, PTL DEF ListsSpec

\* Whatever a transaction does to a list, TransactLogObserver tells it right: applied as a
\* batch the deletions and insertions turn the list before into the list after, every move
\* names the same entry at both ends, and exactly the entries set are modified.
THEOREM TransactionIsExact == ListAssumption /\ ListsSpec => []TransactionExact
<1>1. ListAssumption /\ ListsSpec => []ListInv
  BY ListInvariant
<1> QED BY <1>1, ListInvExact, PTL

\* Beside ListInv: the entries of the list were distinct before the transaction as well,
\* and what was merged tells how the list of then came about.
MergedInv ==
  /\ ListInv
  /\ Apart(mid)
  /\ Tells(accumulated, base, mid, setBefore)

\* The list at first.
LEMMA MergedInit == ListAssumption /\ ListsInit => MergedInv
<1> SUFFICES ASSUME ListAssumption, ListsInit PROVE MergedInv
  OBVIOUS
<1>1. ListInv
  BY ListInit
<1>2. mid = now /\ base = now /\ accumulated = NoChange /\ setBefore = {}
  BY DEF ListsInit
<1>3. Apart(now) /\ now \in Seq(Nat)
  BY <1>1 DEF ListInv, Distinct
<1>4. Tells(NoChange, now, now, {})
  BY <1>3, NoChangeExact, ExactTells
<1> QED BY <1>1, <1>2, <1>3, <1>4 DEF MergedInv

\* Only the end of a transaction merges.
LEMMA MergedStep == ListAssumption /\ MergedInv /\ [ListsNext]_listVars => MergedInv'
<1> SUFFICES ASSUME ListAssumption, MergedInv, [ListsNext]_listVars PROVE MergedInv'
  OBVIOUS
<1>1. ListInv /\ Apart(mid) /\ Tells(accumulated, base, mid, setBefore)
  BY DEF MergedInv
<1>2. ListInv'
  BY <1>1, ListStep
<1>3. CASE UNCHANGED <<base, mid, accumulated, setBefore>>
  <2>1. base' = base /\ mid' = mid /\ accumulated' = accumulated /\ setBefore' = setBefore
    BY <1>3
  <2> QED BY <1>1, <1>2, <2>1 DEF MergedInv
<1>4. CASE parse_complete
  <2> DEFINE c == CleanUpStaleMoves(active)
  <2>1. /\ mid' = now /\ base' = base /\ setBefore' = setBefore \cup setSince
        /\ accumulated' = Merge(accumulated, c)
    BY <1>4 DEF parse_complete
  <2>2. Apart(now) /\ IsExact(active, mid, now, setSince)
    BY <1>1 DEF ListInv, Distinct
  <2>3. Tells(c, mid, now, setSince)
    BY <2>2, ExactTells, CleanUpTells
  <2> HIDE DEF c
  <2>4. Meet(accumulated, c, base, mid, now, setBefore, setSince)
    BY <1>1, <2>2, <2>3 DEF Meet
  <2>5. Tells(Merge(accumulated, c), base, now, setBefore \cup setSince)
    BY <2>4, MergeTells
  <2> QED BY <1>2, <2>1, <2>2, <2>5 DEF MergedInv
<1>5. CASE ListsNext /\ ~parse_complete
  <2>1. UNCHANGED <<base, mid, accumulated, setBefore>>
    BY <1>5 DEF ListsNext, list_set, list_insert, list_erase, list_move, list_swap, list_clear, Step
  <2> QED BY <1>3, <2>1
<1>6. CASE UNCHANGED listVars
  <2>1. UNCHANGED <<base, mid, accumulated, setBefore>>
    BY <1>6 DEF listVars, lists
  <2> QED BY <1>3, <2>1
<1> QED BY <1>4, <1>5, <1>6

\* The invariant is enough for every part.
LEMMA MergedInvExact == MergedInv => ListChangesExact
<1> SUFFICES ASSUME MergedInv PROVE ListChangesExact
  OBVIOUS
<1>1. ListInv /\ Apart(mid) /\ Tells(accumulated, base, mid, setBefore)
  BY DEF MergedInv
<1>2. TransactionExact
  BY <1>1, ListInvExact
<1>3. MergedChangeExact
  <2>1. Sound(accumulated, base, mid)
    BY <1>1 DEF Tells
  <2>2. base \in Seq(Nat) /\ mid \in Seq(Nat)
    BY <2>1, SoundParts
  <2>3. Takes(accumulated, base, mid)
    BY <2>1, <2>2, TakesLeads DEF Sound
  <2>4. MovesRight(accumulated, base, mid)
    BY <2>1 DEF Sound, Named, MovesRight
  <2> QED BY <2>3, <2>4 DEF MergedChangeExact
<1>4. ModificationsExact
  <2>1. Modifies(accumulated, base, mid, setBefore)
    BY <1>1, FinalizeRight
  <2> QED BY <2>1 DEF Modifies, ModificationsExact
<1>5. KvoWithoutMoves
  <2> DEFINE b == CleanUpStaleMoves(active)
  <2>1. Apart(now) /\ IsExact(active, mid, now, setSince)
    BY <1>1 DEF ListInv, Distinct
  <2>2. Tells(b, mid, now, setSince)
    BY <2>1, ExactTells, CleanUpTells
  <2>3. b.moves = << >> => Told(KvoChange(b))
    <3> HIDE DEF b
    <3> QED BY <2>2, KvoRight
  <2> QED BY <2>3 DEF KvoWithoutMoves
<1> QED BY <1>2, <1>3, <1>4, <1>5 DEF ListChangesExact

\* However many transactions are merged, whatever they do to the list: what a transaction's
\* instructions and merge() make describes the change of the list exactly, finalize()
\* reports as modified the entries that were set and stayed, and KVOAdapter tells what
\* happened when nothing was moved.
THEOREM ListChangesAreExact == ListAssumption /\ ListsSpec => []ListChangesExact
<1> SUFFICES ASSUME ListAssumption PROVE ListsSpec => []ListChangesExact
  OBVIOUS
<1>1. ListsInit => MergedInv
  BY MergedInit
<1>2. MergedInv /\ [ListsNext]_listVars => MergedInv'
  BY MergedStep
<1>3. MergedInv => ListChangesExact
  BY MergedInvExact
<1> QED BY <1>1, <1>2, <1>3, PTL DEF ListsSpec
=============================================================================
