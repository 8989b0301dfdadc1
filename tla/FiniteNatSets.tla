---------------------------- MODULE FiniteNatSets ----------------------------
(***************************************************************************)
(* Facts about sets of natural numbers, which stand for what the code      *)
(* keeps in ordered maps and finds by iterating over them: the first of a  *)
(* set, its last, and the one with a given number of others before it;     *)
(* about sums of numbers, which are what its loops over queues add up; and *)
(* about sequences, how often and where an element occurs in one.          *)
(***************************************************************************)
EXTENDS Integers, FiniteSets, OrderedMaps, TLAPS, FiniteSetTheorems, SequenceTheorems,
        WellFoundedInduction

\* Every nonempty set of naturals has a least element.
LEMMA LeastElement ==
  ASSUME NEW I, I \subseteq Nat, I # {}
  PROVE  \E m \in I : \A i \in I : m <= i
<1> DEFINE R == OpToRel(<, Nat)
<1>1. IsWellFoundedOn(R, Nat)
  BY NatLessThanWellFounded
<1>2. \A x, y \in Nat : y < x => <<y, x>> \in R
  BY DEF OpToRel
<1> HIDE DEF R
<1>3. PICK x \in I : \A y \in I : ~(<<y, x>> \in R)
  BY <1>1, WFMin
<1>4. x \in Nat /\ \A y \in I : y \in Nat
  OBVIOUS
<1>5. \A y \in I : ~(y < x)
  BY <1>2, <1>3, <1>4
<1>6. \A y \in I : x <= y
  BY <1>4, <1>5
<1>7. QED BY <1>6

\* A finite set of naturals with more than k elements has one with exactly k
\* elements below it.
LEMMA NthElement ==
  ASSUME NEW I, I \subseteq Nat, IsFiniteSet(I),
         NEW k \in Nat, k < Cardinality(I)
  PROVE  \E j \in I : Cardinality({i \in I : i < j}) = k
<1> DEFINE Below(j) == {i \in I : i < j}
<1> DEFINE Good(n) == \E j \in I : Cardinality(Below(j)) = n
<1> DEFINE Bad == {n \in Nat : n < Cardinality(I) /\ ~Good(n)}
<1>0. Cardinality(I) \in Nat
  BY FS_CardinalityType
<1>nat. \A i \in I : i \in Nat
  OBVIOUS
<1>fin. \A j \in I : IsFiniteSet(Below(j)) /\ Cardinality(Below(j)) \in Nat
  BY FS_Subset, FS_CardinalityType
<1>1. SUFFICES ASSUME Bad # {} PROVE FALSE
  <2>1. Bad = {} => Good(k)
    OBVIOUS
  <2>2. QED BY <2>1, <1>1
<1>2. PICK n \in Bad : \A m \in Bad : n <= m
  <2>1. Bad \subseteq Nat
    OBVIOUS
  <2>2. QED BY <1>1, <2>1, LeastElement
<1>3. CASE n = 0
  <2>1. I # {}
    BY <1>0, <1>3, <1>2, FS_EmptySet
  <2>2. PICK m \in I : \A i \in I : m <= i
    BY <2>1, LeastElement
  <2>3. Below(m) = {}
    <3>1. \A i \in I : ~(i < m)
      BY <1>nat, <2>2
    <3>2. QED BY <3>1
  <2>4. Cardinality(Below(m)) = 0
    BY <2>3, FS_EmptySet
  <2>5. QED BY <2>4, <1>2, <1>3
<1>4. CASE n # 0
  <2>1. n - 1 \in Nat /\ n - 1 < Cardinality(I) /\ n - 1 \notin Bad
    BY <1>4, <1>2, <1>0
  <2>2. PICK j \in I : Cardinality(Below(j)) = n - 1
    BY <2>1
  <2>3. PICK m \in {i \in I : j < i} : \A i \in {l \in I : j < l} : m <= i
    <3>1. {i \in I : j < i} # {}
      <4>1. SUFFICES ASSUME {i \in I : j < i} = {} PROVE FALSE
        OBVIOUS
      <4>2. \A i \in I : i < j \/ i = j
        BY <4>1, <1>nat
      <4>3. I = Below(j) \cup {j}
        BY <4>2
      <4>4. j \notin Below(j)
        BY <1>nat
      <4>5. Cardinality(I) = Cardinality(Below(j)) + 1
        BY <4>3, <4>4, <1>fin, FS_AddElement
      <4>6. QED BY <4>5, <2>2, <1>2, <1>0
    <3>2. {i \in I : j < i} \subseteq Nat
      OBVIOUS
    <3>3. QED BY <3>1, <3>2, LeastElement
  <2>4. \A i \in I : i < m <=> i < j \/ i = j
    BY <2>3, <1>nat
  <2>5. Below(m) = Below(j) \cup {j}
    BY <2>4
  <2>6. j \notin Below(j)
    BY <1>nat
  <2>9. Cardinality(Below(m)) = Cardinality(Below(j)) + 1
    BY <2>5, <2>6, <1>fin, FS_AddElement
  <2>7. Cardinality(Below(m)) = n
    BY <2>9, <2>2, <1>2, <2>1
  <2>8. QED BY <2>7, <2>3, <1>2
<1>5. QED BY <1>3, <1>4

\* A finite set of naturals in order: at each place the element that has as many
\* others before it.
Listing(I) == [k \in 1 .. Cardinality(I) |-> CHOOSE j \in I : Cardinality({i \in I : i < j}) = k - 1]

\* It lists each element once.
LEMMA ListingIs ==
  ASSUME NEW I, I \subseteq Nat, IsFiniteSet(I)
  PROVE  /\ Cardinality(I) \in Nat /\ Listing(I) \in [1 .. Cardinality(I) -> I]
         /\ \A k, l \in 1 .. Cardinality(I) : k < l => Listing(I)[k] < Listing(I)[l]
         /\ \A j \in I : \E k \in 1 .. Cardinality(I) : Listing(I)[k] = j
<1> DEFINE Below(j) == {i \in I : i < j}
           pick(k) == CHOOSE j \in I : Cardinality(Below(j)) = k - 1
           n == Cardinality(I)
           f == Listing(I)
<1>0. \A j \in I : j \in Int
  OBVIOUS
<1>1. n \in Nat
  BY FS_CardinalityType
<1>2. ASSUME NEW k \in 1 .. n
      PROVE  pick(k) \in I /\ Cardinality(Below(pick(k))) = k - 1
  <2>1. k - 1 \in Nat /\ k - 1 < Cardinality(I)
    BY <1>1
  <2>2. \E j \in I : Cardinality(Below(j)) = k - 1
    BY <2>1, NthElement
  <2>3. QED BY <2>2
<1>3. f = [k \in 1 .. n |-> pick(k)]
  BY DEF Listing
<1>4. \A j : IsFiniteSet(Below(j)) /\ Cardinality(Below(j)) \in Nat
  BY FS_Subset, FS_CardinalityType
<1>5. ASSUME NEW i \in I, NEW j \in I, i < j
      PROVE  Cardinality(Below(i)) < Cardinality(Below(j)) /\ Cardinality(Below(i)) < n
  <2>1. Below(i) \subseteq Below(j) /\ Below(i) # Below(j)
    <3>1. i \in Nat /\ j \in Nat
      OBVIOUS
    <3>2. \A x \in Below(i) : x \in Below(j)
      BY <1>5, <3>1
    <3>3. i \in Below(j) /\ i \notin Below(i)
      BY <1>5, <3>1
    <3>4. QED BY <3>2, <3>3
  <2>2. Below(i) \subseteq I /\ Below(i) # I
    <3>1. i \notin Below(i)
      OBVIOUS
    <3>2. QED BY <3>1
  <2> HIDE DEF Below
  <2>3. /\ Cardinality(Below(i)) \in Nat /\ Cardinality(Below(j)) \in Nat
        /\ IsFiniteSet(Below(j))
    BY <1>4
  <2>4. Cardinality(Below(i)) <= Cardinality(Below(j)) /\ Cardinality(Below(i)) # Cardinality(Below(j))
    BY <2>1, <2>3, FS_Subset
  <2>5. Cardinality(Below(i)) <= n /\ Cardinality(Below(i)) # n
    BY <2>2, FS_Subset
  <2>6. QED BY <1>1, <2>3, <2>4, <2>5
<1>6. \A j \in I : Cardinality(Below(j)) < n
  <2>1. SUFFICES ASSUME NEW j \in I PROVE Cardinality(Below(j)) < n
    OBVIOUS
  <2>2. j \notin Below(j) /\ Below(j) \subseteq I
    OBVIOUS
  <2> HIDE DEF Below
  <2>3. Cardinality(Below(j)) <= n /\ Cardinality(Below(j)) # n
    BY <2>2, FS_Subset
  <2>4. Cardinality(Below(j)) \in Nat
    BY <1>4
  <2>5. QED BY <1>1, <2>3, <2>4
<1> HIDE DEF Below
<1>7. ASSUME NEW k \in 1 .. n, NEW l \in 1 .. n, k < l
      PROVE  pick(k) < pick(l)
  <2> DEFINE x == pick(k)
             y == pick(l)
  <2>1. /\ x \in I /\ Cardinality(Below(x)) = k - 1
        /\ y \in I /\ Cardinality(Below(y)) = l - 1
    BY <1>2
  <2> HIDE DEF x, y
  <2>2. ~(y < x)
    <3>1. SUFFICES ASSUME y < x PROVE FALSE
      OBVIOUS
    <3>2. Cardinality(Below(y)) < Cardinality(Below(x))
      BY <1>5, <2>1, <3>1
    <3>3. QED BY <1>1, <1>7, <2>1, <3>2
  <2>3. x # y
    BY <1>1, <1>7, <2>1
  <2>4. x < y
    BY <1>0, <2>1, <2>2, <2>3
  <2>5. QED BY <2>4 DEF x, y
<1>8. ASSUME NEW j \in I
      PROVE  \E k \in 1 .. n : pick(k) = j
  <2> DEFINE k == Cardinality(Below(j)) + 1
  <2>1. k \in 1 .. n /\ Cardinality(Below(j)) = k - 1
    BY <1>1, <1>4, <1>6
  <2> DEFINE x == pick(k)
  <2>2. x \in I /\ Cardinality(Below(x)) = k - 1
    BY <1>2, <2>1
  <2> HIDE DEF x
  <2>3. Cardinality(Below(j)) \in Nat
    BY <1>4
  <2>4. ~(j < x)
    <3>1. SUFFICES ASSUME j < x PROVE FALSE
      OBVIOUS
    <3>2. Cardinality(Below(j)) < Cardinality(Below(x))
      BY <1>5, <2>2, <3>1
    <3>3. QED BY <2>1, <2>2, <2>3, <3>2
  <2>5. ~(x < j)
    <3>1. SUFFICES ASSUME x < j PROVE FALSE
      OBVIOUS
    <3>2. Cardinality(Below(x)) < Cardinality(Below(j))
      BY <1>5, <2>2, <3>1
    <3>3. QED BY <2>1, <2>2, <2>3, <3>2
  <2>6. x = j
    BY <1>0, <2>2, <2>4, <2>5
  <2>7. QED BY <2>1, <2>6 DEF x
<1> HIDE DEF pick
<1> HIDE DEF f
<1>9. f \in [1 .. n -> I] /\ \A k \in 1 .. n : f[k] = pick(k)
  BY <1>2, <1>3
<1>10. \A k, l \in 1 .. n : k < l => f[k] < f[l]
  BY <1>7, <1>9
<1>11. \A j \in I : \E k \in 1 .. n : f[k] = j
  BY <1>8, <1>9
<1>12. QED BY <1>1, <1>9, <1>10, <1>11 DEF f

\* Every nonempty finite set of naturals has a greatest element.
LEMMA GreatestElement ==
  ASSUME NEW I, I \subseteq Nat, IsFiniteSet(I), I # {}
  PROVE  \E m \in I : \A i \in I : i <= m
<1>1. Cardinality(I) \in Nat /\ Cardinality(I) # 0
  BY FS_CardinalityType, FS_EmptySet
<1>2. PICK m \in I : Cardinality({i \in I : i < m}) = Cardinality(I) - 1
  <2>1. Cardinality(I) - 1 \in Nat /\ Cardinality(I) - 1 < Cardinality(I)
    BY <1>1
  <2>2. QED BY <2>1, NthElement
<1> DEFINE below == {i \in I : i < m}
<1>3. IsFiniteSet(below) /\ m \notin below /\ Cardinality(below) = Cardinality(I) - 1
  BY <1>2, FS_Subset
<1> HIDE DEF below
<1>4. Cardinality(below \cup {m}) = Cardinality(I)
  <2>1. Cardinality(below \cup {m}) = Cardinality(below) + 1
    BY <1>3, FS_AddElement
  <2>2. QED BY <1>1, <1>3, <2>1
<1>5. below \cup {m} = I
  <2>1. below \cup {m} \in SUBSET I
    BY DEF below
  <2>2. QED BY <1>4, <2>1, FS_Subset
<1>6. \A i \in I : i \in Nat /\ (i < m \/ i = m)
  BY <1>5 DEF below
<1>7. QED BY <1>6

\* Ascending lists every member of a finite set of naturals once (the iteration
\* over a map by its keys).
LEMMA AscendingLists ==
  ASSUME NEW P, P \subseteq Nat, IsFiniteSet(P)
  PROVE  /\ \A i \in 1 .. Cardinality(P) : Ascending(P)[i] \in P
         /\ \A p \in P : \E i \in 1 .. Cardinality(P) :
              /\ Ascending(P)[i] = p
              /\ \A j \in 1 .. Cardinality(P) : Ascending(P)[j] = p => j = i
  <1> DEFINE Below(p) == {q \in P : q < p}
             nth(i)   == CHOOSE p \in P : Cardinality(Below(p)) = i - 1
  <1>1. P \subseteq Nat /\ IsFiniteSet(P) /\ Cardinality(P) \in Nat
    BY FS_CardinalityType
  <1>2. Ascending(P) = [i \in 1 .. Cardinality(P) |-> nth(i)]
    BY DEF Ascending
  <1>3. ASSUME NEW i \in 1 .. Cardinality(P)
        PROVE  nth(i) \in P /\ Cardinality(Below(nth(i))) = i - 1
    <2>1. i - 1 \in Nat /\ i - 1 < Cardinality(P)
      BY <1>1
    <2>2. \E p \in P : Cardinality(Below(p)) = i - 1
      BY <1>1, <2>1, NthElement
    <2> QED BY <2>2
  <1>4. ASSUME NEW p \in P
        PROVE  /\ IsFiniteSet(Below(p)) /\ Cardinality(Below(p)) \in Nat
               /\ Cardinality(Below(p)) < Cardinality(P)
    <2>1. Below(p) \in SUBSET P /\ p \notin Below(p)
      BY <1>1
    <2>2. IsFiniteSet(Below(p)) /\ Cardinality(Below(p)) <= Cardinality(P)
      BY <1>1, <2>1, FS_Subset
    <2>3. Cardinality(Below(p)) # Cardinality(P)
      BY <1>1, <2>1, FS_Subset
    <2>4. Cardinality(Below(p)) \in Nat
      BY <2>2, FS_CardinalityType
    <2> QED BY <1>1, <2>2, <2>3, <2>4
  <1>5. ASSUME NEW p \in P, NEW q \in P, Cardinality(Below(p)) = Cardinality(Below(q)), p < q
        PROVE  FALSE
    <2>1. \A x \in P : x < p => x < q
      BY <1>1, <1>5
    <2>2. Below(p) \in SUBSET Below(q)
      BY <2>1
    <2>3. p \in Below(q) /\ p \notin Below(p)
      BY <1>1, <1>5
    <2> QED BY <1>4, <1>5, <2>2, <2>3, FS_Subset
  <1>6. ASSUME NEW p \in P, NEW q \in P, Cardinality(Below(p)) = Cardinality(Below(q))
        PROVE  p = q
    <2>1. ~(p < q) /\ ~(q < p)
      BY <1>5, <1>6
    <2> QED BY <1>1, <2>1
  <1> HIDE DEF Below, nth
  <1>7. ASSUME NEW p \in P
        PROVE  \E i \in 1 .. Cardinality(P) :
                 nth(i) = p /\ \A j \in 1 .. Cardinality(P) : nth(j) = p => j = i
    <2> DEFINE i == Cardinality(Below(p)) + 1
    <2>1. i \in 1 .. Cardinality(P) /\ i - 1 = Cardinality(Below(p))
      BY <1>1, <1>4
    <2>2. nth(i) = p
      BY <1>3, <1>6, <2>1
    <2>3. ASSUME NEW j \in 1 .. Cardinality(P), nth(j) = p
          PROVE  j = i
      <3>1. Cardinality(Below(p)) = j - 1
        BY <1>3, <2>3
      <3> QED BY <1>1, <2>1, <3>1
    <2> QED BY <2>1, <2>2, <2>3
  <1> QED BY <1>2, <1>3, <1>7

\* The quotient and the remainder of a number.
LEMMA RemainderIs ==
  ASSUME NEW m \in Nat \ {0}, NEW a \in Int, NEW q \in Int, NEW r \in 0 .. m - 1, a = m * q + r
  PROVE  a % m = r
<1> DEFINE q1 == a \div m
           r1 == a % m
<1>1. m \in Nat /\ m > 0 /\ r \in Int /\ 0 <= r /\ r < m
  OBVIOUS
<1>2. q1 \in Int /\ r1 \in Int /\ 0 <= r1 /\ r1 < m /\ a = m * q1 + r1
  BY <1>1
<1> HIDE DEF q1, r1
<1>3. CASE q1 >= q + 1
  <2>1. m * q1 >= m * (q + 1)
    BY <1>1, <1>2, <1>3
  <2>2. m * (q + 1) = m * q + m
    BY <1>1
  <2>3. QED BY <1>1, <1>2, <2>1, <2>2
<1>4. CASE q >= q1 + 1
  <2>1. m * q >= m * (q1 + 1)
    BY <1>1, <1>2, <1>4
  <2>2. m * (q1 + 1) = m * q1 + m
    BY <1>1, <1>2
  <2>3. QED BY <1>1, <1>2, <2>1, <2>2
<1>5. CASE q1 = q
  BY <1>1, <1>2, <1>5 DEF r1
<1>6. QED BY <1>2, <1>3, <1>4, <1>5

-----------------------------------------------------------------------------
(* Sums, as a fold adds them up.  The recursion is the library's own, over   *)
(* sets of indices, so that a fold over a sequence is a sum by definition.   *)


\* Induction, on the set of the numbers for which something holds.
LEMMA SetInduction ==
  ASSUME NEW P \in SUBSET Nat, 0 \in P, \A n \in P : n + 1 \in P
  PROVE  P = Nat
<1>1. SUFFICES ASSUME Nat \ P # {} PROVE FALSE
  OBVIOUS
<1>2. PICK m \in Nat \ P : \A i \in Nat \ P : m <= i
  BY <1>1, LeastElement
<1>3. m - 1 \in Nat /\ m - 1 \in P
  <2>1. m # 0 /\ m \in Nat
    BY <1>2
  <2>2. m - 1 \in Nat /\ ~(m <= m - 1)
    BY <2>1
  <2> QED BY <1>2, <2>2
<1>4. (m - 1) + 1 = m
  BY <1>2
<1> QED BY <1>2, <1>3, <1>4

Largest(t) == CHOOSE x \in t : \A y \in t : x >= y

\* f sums up v over the sets of numbers from 1 to n, from the largest down, as a
\* fold over a sequence does.
Sums(v, n, f) ==
  f = [t \in SUBSET (1 .. n) |-> IF t = {} THEN 0 ELSE f[t \ {Largest(t)}] + v[Largest(t)]]

\* v[1] + ... + v[n].
SumTo(v, n) == (CHOOSE f : Sums(v, n, f))[1 .. n]

\* What lemmas on sums assume of the elements: that they are naturals, the same,
\* the same from the m-th on, the same without the k-th, no greater.
NatTo(v, n) == \A i \in 1 .. n : v[i] \in Nat
SameTo(v, w, n) == \A i \in 1 .. n : v[i] = w[i]
GoesOn(v, m, w, n) == \A i \in 1 .. n : v[m + i] = w[i]
Without(v, w, n, k) == \A i \in 1 .. n - 1 : w[i] = IF i < k THEN v[i] ELSE v[i + 1]
LessTo(v, w, n) == \A i \in 1 .. n : v[i] <= w[i]

\* The largest of numbers from 1 to n.
LEMMA LargestIs ==
  ASSUME NEW n \in Nat, NEW t \in SUBSET (1 .. n), t # {}
  PROVE  Largest(t) \in t /\ \A y \in t : y <= Largest(t)
<1>1. t \subseteq Nat /\ \A y \in t : y \in Nat
  OBVIOUS
<1>2. IsFiniteSet(t)
  <2>1. 1 \in Int /\ n \in Int
    OBVIOUS
  <2>2. IsFiniteSet(1 .. n)
    BY <2>1, FS_Interval
  <2> QED BY <2>2, FS_Subset
<1>3. PICK m \in t : \A i \in t : i <= m
  BY <1>1, <1>2, GreatestElement
<1>4. \E x \in t : \A y \in t : x >= y
  BY <1>1, <1>3
<1>5. Largest(t) \in t /\ \A y \in t : Largest(t) >= y
  BY <1>4 DEF Largest
<1> QED BY <1>1, <1>5

\* The largest of a set with n in it is n.
LEMMA LargestWith ==
  ASSUME NEW n \in Nat, NEW t \in SUBSET (1 .. n + 1), n + 1 \in t
  PROVE  Largest(t) = n + 1
<1>1. n + 1 \in Nat
  OBVIOUS
<1>2. Largest(t) \in t /\ n + 1 <= Largest(t)
  BY <1>1, LargestIs
<1>3. Largest(t) \in 1 .. n + 1
  BY <1>2
<1> QED BY <1>2, <1>3

\* Some function sums up v: the recursion has a solution.
LEMMA SumsExist ==
  ASSUME NEW v, NEW m \in Nat
  PROVE  \E f : Sums(v, m, f)
<1> DEFINE P == {n \in Nat : \E f : Sums(v, n, f)}
<1>1. 0 \in P
  <2> DEFINE g == [t \in SUBSET (1 .. 0) |-> 0]
  <2>1. \A t \in SUBSET (1 .. 0) : t = {}
    OBVIOUS
  <2>2. Sums(v, 0, g)
    BY <2>1 DEF Sums
  <2> QED BY <2>2
<1>2. ASSUME NEW n \in P PROVE n + 1 \in P
  <2>1. PICK f : Sums(v, n, f)
    OBVIOUS
  <2> DEFINE g == [t \in SUBSET (1 .. n + 1) |->
                     IF n + 1 \in t THEN f[t \ {n + 1}] + v[n + 1] ELSE f[t]]
             h == [t \in SUBSET (1 .. n + 1) |->
                     IF t = {} THEN 0 ELSE g[t \ {Largest(t)}] + v[Largest(t)]]
  <2>2. n \in Nat /\ n + 1 \in Nat
    OBVIOUS
  <2>3. \A t \in SUBSET (1 .. n) :
          f[t] = IF t = {} THEN 0 ELSE f[t \ {Largest(t)}] + v[Largest(t)]
    BY <2>1 DEF Sums
  <2>4. ASSUME NEW t \in SUBSET (1 .. n + 1) PROVE g[t] = h[t]
    <3>1. CASE n + 1 \in t
      <4>1. Largest(t) = n + 1
        BY <2>2, <3>1, LargestWith
      <4>2. t \ {n + 1} \in SUBSET (1 .. n + 1) /\ n + 1 \notin t \ {n + 1} /\ t # {}
        BY <3>1
      <4>3. g[t \ {n + 1}] = f[t \ {n + 1}]
        BY <4>2
      <4>4. g[t] = f[t \ {n + 1}] + v[n + 1]
        BY <3>1
      <4>5. h[t] = g[t \ {n + 1}] + v[n + 1]
        BY <4>1, <4>2
      <4> QED BY <4>3, <4>4, <4>5
    <3>2. CASE n + 1 \notin t
      <4>1. t \in SUBSET (1 .. n)
        <5>1. \A i \in t : i \in 1 .. n
          BY <2>2, <3>2
        <5> QED BY <5>1
      <4>2. g[t] = f[t]
        BY <3>2
      <4>3. CASE t = {}
        BY <2>3, <4>1, <4>2, <4>3
      <4>4. CASE t # {}
        <5>1. t \ {Largest(t)} \in SUBSET (1 .. n + 1) /\ n + 1 \notin t \ {Largest(t)}
          BY <3>2
        <5>2. g[t \ {Largest(t)}] = f[t \ {Largest(t)}]
          BY <5>1
        <5>3. h[t] = g[t \ {Largest(t)}] + v[Largest(t)]
          BY <4>4
        <5>4. f[t] = f[t \ {Largest(t)}] + v[Largest(t)]
          BY <2>3, <4>1, <4>4
        <5> QED BY <4>2, <5>2, <5>3, <5>4
      <4> QED BY <4>3, <4>4
    <3> QED BY <3>1, <3>2
  <2>5. g = h
    <3>1. g = [t \in SUBSET (1 .. n + 1) |-> g[t]] /\ h = [t \in SUBSET (1 .. n + 1) |-> h[t]]
      OBVIOUS
    <3> HIDE DEF g, h
    <3>2. [t \in SUBSET (1 .. n + 1) |-> g[t]] = [t \in SUBSET (1 .. n + 1) |-> h[t]]
      BY <2>4
    <3> QED BY <3>1, <3>2
  <2>6. Sums(v, n + 1, g)
    BY <2>5 DEF Sums
  <2> QED BY <2>2, <2>6
<1> HIDE DEF P
<1>3. P \in SUBSET Nat
  BY DEF P
<1>4. P = Nat
  BY <1>1, <1>2, <1>3, SetInduction
<1> QED BY <1>4 DEF P

\* A function that adds an element or leaves it out has numbers for values.
SomeSums(v, n, f) ==
  \A t \in SUBSET (1 .. n) :
    IF t = {} THEN f[t] = 0
    ELSE f[t] \in {f[t \ {Largest(t)}], f[t \ {Largest(t)}] + v[Largest(t)]}

LEMMA SomeSumsNat ==
  ASSUME NEW v, NEW n \in Nat, NEW f, NatTo(v, n), SomeSums(v, n, f)
  PROVE  \A t \in SUBSET (1 .. n) : f[t] \in Nat
<1> DEFINE P == {k \in Nat : k <= n => \A t \in SUBSET (1 .. k) : f[t] \in Nat}
<1>1. 0 \in P
  <2>1. \A t \in SUBSET (1 .. 0) : t = {} /\ t \in SUBSET (1 .. n)
    OBVIOUS
  <2>2. \A t \in SUBSET (1 .. n) : t = {} => f[t] = 0
    BY DEF SomeSums
  <2>3. \A t \in SUBSET (1 .. 0) : f[t] = 0
    BY <2>1, <2>2
  <2> QED BY <2>3
<1>2. ASSUME NEW k \in P PROVE k + 1 \in P
  <2>1. SUFFICES ASSUME k + 1 <= n, NEW t \in SUBSET (1 .. k + 1) PROVE f[t] \in Nat
    OBVIOUS
  <2>2. k \in Nat /\ k + 1 \in 1 .. n /\ (\A s \in SUBSET (1 .. k) : f[s] \in Nat) /\ t \in SUBSET (1 .. n)
    BY <2>1
  <2>3. CASE k + 1 \in t
    <3>1. Largest(t) = k + 1
      BY <2>2, <2>3, LargestWith
    <3>2. t \ {k + 1} \in SUBSET (1 .. k)
      <4>1. \A i \in t \ {k + 1} : i \in 1 .. k
        BY <2>2
      <4> QED BY <4>1
    <3>3. v[k + 1] \in Nat
      BY <2>2 DEF NatTo
    <3>4. f[t] \in {f[t \ {k + 1}], f[t \ {k + 1}] + v[k + 1]}
      BY <2>2, <2>3, <3>1 DEF SomeSums
    <3>5. f[t \ {k + 1}] \in Nat
      BY <2>2, <3>2
    <3> QED BY <3>3, <3>4, <3>5
  <2>4. CASE k + 1 \notin t
    <3>1. \A i \in t : i \in 1 .. k
      BY <2>2, <2>4
    <3>2. t \in SUBSET (1 .. k)
      BY <3>1
    <3> QED BY <2>2, <3>2
  <2> QED BY <2>3, <2>4
<1> HIDE DEF P
<1>3. P \in SUBSET Nat
  BY DEF P
<1>4. P = Nat
  BY <1>1, <1>2, <1>3, SetInduction
<1>5. n \in P /\ n <= n
  BY <1>4
<1> QED BY <1>5 DEF P

\* And what it sums up is the same for all that agree with v.
LEMMA SumsAgree ==
  ASSUME NEW v, NEW w, NEW f, NEW g, NEW m \in Nat, NEW n \in Nat, Sums(v, m, f), Sums(w, n, g),
         n <= m, \A i \in 1 .. n : v[i] = w[i]
  PROVE  f[1 .. n] = g[1 .. n]
<1> DEFINE P == {j \in Nat : j <= n => \A t \in SUBSET (1 .. j) : f[t] = g[t]}
<1>0. /\ \A t \in SUBSET (1 .. m) : f[t] = IF t = {} THEN 0 ELSE f[t \ {Largest(t)}] + v[Largest(t)]
      /\ \A t \in SUBSET (1 .. n) : g[t] = IF t = {} THEN 0 ELSE g[t \ {Largest(t)}] + w[Largest(t)]
  BY DEF Sums
<1>1. 0 \in P
  <2>1. \A t \in SUBSET (1 .. 0) : t = {} /\ t \in SUBSET (1 .. m) /\ t \in SUBSET (1 .. n)
    OBVIOUS
  <2> QED BY <1>0, <2>1
<1>2. ASSUME NEW j \in P PROVE j + 1 \in P
  <2>1. SUFFICES ASSUME j + 1 <= n, NEW t \in SUBSET (1 .. j + 1) PROVE f[t] = g[t]
    OBVIOUS
  <2>2. j \in Nat /\ j <= n /\ \A s \in SUBSET (1 .. j) : f[s] = g[s]
    BY <2>1
  <2>3. t \in SUBSET (1 .. m) /\ t \in SUBSET (1 .. n)
    BY <2>1, <2>2
  <2>4. CASE j + 1 \in t
    <3>1. Largest(t) = j + 1
      BY <2>2, <2>4, LargestWith
    <3>2. t \ {j + 1} \in SUBSET (1 .. j) /\ t # {}
      <4>1. \A i \in t \ {j + 1} : i \in 1 .. j
        BY <2>2
      <4> QED BY <2>4, <4>1
    <3>3. v[j + 1] = w[j + 1]
      BY <2>1, <2>2
    <3>4. f[t] = f[t \ {j + 1}] + v[j + 1] /\ g[t] = g[t \ {j + 1}] + w[j + 1]
      BY <1>0, <2>3, <3>1, <3>2
    <3> QED BY <2>2, <3>2, <3>3, <3>4
  <2>5. CASE j + 1 \notin t
    <3>1. \A i \in t : i \in 1 .. j
      BY <2>2, <2>5
    <3> QED BY <2>2, <3>1
  <2> QED BY <2>4, <2>5
<1> HIDE DEF P
<1>3. P \in SUBSET Nat
  BY DEF P
<1>4. P = Nat
  BY <1>1, <1>2, <1>3, SetInduction
<1>5. n \in P /\ n <= n /\ 1 .. n \in SUBSET (1 .. n)
  BY <1>4
<1> QED BY <1>5 DEF P

\* A function that sums up v gives its sum.
LEMMA SumIs ==
  ASSUME NEW v, NEW m \in Nat, NEW f, Sums(v, m, f), NEW n \in Nat, n <= m
  PROVE  f[1 .. n] = SumTo(v, n)
<1> DEFINE g == CHOOSE g : Sums(v, n, g)
<1>1. Sums(v, n, g)
  BY SumsExist
<1>2. SumTo(v, n) = g[1 .. n]
  BY DEF SumTo
<1> HIDE DEF g
<1>3. \A i \in 1 .. n : v[i] = v[i]
  OBVIOUS
<1>4. f[1 .. n] = g[1 .. n]
  <2>1. \A w, h : Sums(w, n, h) /\ (\A i \in 1 .. n : v[i] = w[i]) => f[1 .. n] = h[1 .. n]
    BY SumsAgree
  <2> QED BY <1>1, <1>3, <2>1
<1> QED BY <1>2, <1>4

\* The sum of no elements.
LEMMA SumZero ==
  ASSUME NEW v
  PROVE  SumTo(v, 0) = 0
<1> DEFINE f == CHOOSE f : Sums(v, 0, f)
<1>1. Sums(v, 0, f)
  BY SumsExist
<1>2. SumTo(v, 0) = f[1 .. 0]
  BY DEF SumTo
<1> HIDE DEF f
<1>3. 1 .. 0 = {}
  OBVIOUS
<1> QED BY <1>1, <1>2, <1>3 DEF Sums

\* One element more.
LEMMA SumNext ==
  ASSUME NEW v, NEW n \in Nat
  PROVE  SumTo(v, n + 1) = SumTo(v, n) + v[n + 1]
<1> DEFINE f == CHOOSE f : Sums(v, n + 1, f)
<1>1. Sums(v, n + 1, f)
  BY SumsExist
<1>2. SumTo(v, n + 1) = f[1 .. n + 1]
  BY DEF SumTo
<1> HIDE DEF f
<1>3. n + 1 \in Nat /\ n <= n + 1
  OBVIOUS
<1>4. f[1 .. n] = SumTo(v, n)
  BY <1>1, <1>3, SumIs
<1> DEFINE t == 1 .. n + 1
<1>5. t \in SUBSET (1 .. n + 1) /\ n + 1 \in t /\ t # {} /\ t \ {n + 1} = 1 .. n
  BY <1>3
<1>6. Largest(t) = n + 1
  BY <1>5, LargestWith
<1>7. f[t] = IF t = {} THEN 0 ELSE f[t \ {Largest(t)}] + v[Largest(t)]
  BY <1>1, <1>5 DEF Sums
<1> QED BY <1>2, <1>4, <1>5, <1>6, <1>7

\* Elements that are the same have the same sum.
LEMMA SumSame ==
  ASSUME NEW v, NEW w, NEW n \in Nat, SameTo(v, w, n)
  PROVE  SumTo(v, n) = SumTo(w, n)
<1> DEFINE f == CHOOSE f : Sums(v, n, f)
           g == CHOOSE g : Sums(w, n, g)
<1>1. Sums(v, n, f) /\ Sums(w, n, g)
  BY SumsExist
<1>2. SumTo(v, n) = f[1 .. n] /\ SumTo(w, n) = g[1 .. n]
  BY DEF SumTo
<1> HIDE DEF f, g
<1>3. n <= n /\ \A i \in 1 .. n : v[i] = w[i]
  BY DEF SameTo
<1>4. f[1 .. n] = g[1 .. n]
  BY <1>1, <1>3, SumsAgree
<1> QED BY <1>2, <1>4

\* A sum of naturals is a natural, and grows.
LEMMA SumNat ==
  ASSUME NEW v, NEW n \in Nat, NatTo(v, n)
  PROVE  SumTo(v, n) \in Nat
<1> DEFINE P == {k \in Nat : k <= n => SumTo(v, k) \in Nat}
<1>1. 0 \in P
  BY SumZero
<1>2. ASSUME NEW k \in P PROVE k + 1 \in P
  <2>1. SUFFICES ASSUME k + 1 <= n PROVE SumTo(v, k + 1) \in Nat
    OBVIOUS
  <2>2. k \in Nat /\ SumTo(v, k) \in Nat /\ v[k + 1] \in Nat
    BY <2>1 DEF NatTo
  <2>3. SumTo(v, k + 1) = SumTo(v, k) + v[k + 1]
    BY <2>2, SumNext
  <2> QED BY <2>2, <2>3
<1> HIDE DEF P
<1>3. P \in SUBSET Nat
  BY DEF P
<1>4. P = Nat
  BY <1>1, <1>2, <1>3, SetInduction
<1> QED BY <1>4 DEF P

\* Elements that go on add their sum.
LEMMA SumSplit ==
  ASSUME NEW v, NEW w, NEW m \in Nat, NEW n \in Nat, NatTo(v, m), NatTo(w, n), GoesOn(v, m, w, n)
  PROVE  SumTo(v, m + n) = SumTo(v, m) + SumTo(w, n)
<1> DEFINE P == {k \in Nat : k <= n => SumTo(v, m + k) = SumTo(v, m) + SumTo(w, k)}
<1>0. SumTo(v, m) \in Nat
  BY SumNat
<1>1. 0 \in P
  BY <1>0, SumZero
<1>2. ASSUME NEW k \in P PROVE k + 1 \in P
  <2>1. SUFFICES ASSUME k + 1 <= n PROVE SumTo(v, m + (k + 1)) = SumTo(v, m) + SumTo(w, k + 1)
    OBVIOUS
  <2>2. k \in Nat /\ k + 1 \in 1 .. n /\ SumTo(v, m + k) = SumTo(v, m) + SumTo(w, k)
    BY <2>1
  <2>3. /\ SumTo(v, (m + k) + 1) = SumTo(v, m + k) + v[(m + k) + 1]
        /\ SumTo(w, k + 1) = SumTo(w, k) + w[k + 1]
    BY <2>2, SumNext
  <2>4. (m + k) + 1 = m + (k + 1) /\ v[m + (k + 1)] = w[k + 1] /\ w[k + 1] \in Nat
    BY <2>2 DEF NatTo, GoesOn
  <2>5. SumTo(w, k) \in Nat
    <3>1. NatTo(w, k)
      BY <2>2 DEF NatTo
    <3> QED BY <2>2, <3>1, SumNat
  <2> QED BY <1>0, <2>2, <2>3, <2>4, <2>5
<1> HIDE DEF P
<1>3. P \in SUBSET Nat
  BY DEF P
<1>4. P = Nat
  BY <1>1, <1>2, <1>3, SetInduction
<1>5. n \in P /\ n <= n
  BY <1>4
<1> QED BY <1>5 DEF P

\* More elements, a greater sum.
LEMMA SumGrows ==
  ASSUME NEW v, NEW n \in Nat, NEW m \in 0 .. n, NatTo(v, n)
  PROVE  SumTo(v, m) \in Nat /\ SumTo(v, n) \in Nat /\ SumTo(v, m) <= SumTo(v, n)
<1> DEFINE k == n - m
           w == [i \in 1 .. k |-> v[m + i]]
<1>1. m \in Nat /\ k \in Nat /\ m + k = n
  OBVIOUS
<1>2. NatTo(v, m) /\ GoesOn(v, m, w, k)
  BY DEF NatTo, GoesOn
<1>3. NatTo(w, k)
  <2>1. \A i \in 1 .. k : m + i \in 1 .. n
    BY <1>1
  <2> QED BY <2>1 DEF NatTo
<1> HIDE DEF k, w
<1>4. SumTo(v, m + k) = SumTo(v, m) + SumTo(w, k)
  BY <1>1, <1>2, <1>3, SumSplit
<1>5. SumTo(v, m) \in Nat /\ SumTo(w, k) \in Nat
  BY <1>1, <1>2, <1>3, SumNat
<1> QED BY <1>1, <1>4, <1>5

\* Without its k-th element.
LEMMA SumRemoved ==
  ASSUME NEW v, NEW w, NEW n \in Nat, NEW k \in 1 .. n, NatTo(v, n), Without(v, w, n, k),
         NEW j \in 0 .. n - 1
  PROVE  SumTo(w, j) = IF j < k THEN SumTo(v, j) ELSE SumTo(v, j + 1) - v[k]
<1>1. CASE j < k
  <2>1. j \in Nat /\ SameTo(v, w, j)
    BY <1>1 DEF Without, SameTo
  <2> QED BY <1>1, <2>1, SumSame
<1>2. CASE ~(j < k)
  <2> DEFINE l == j + 1 - k
             u == [i \in 1 .. l |-> v[k + i]]
             h == k - 1
  <2>1. h \in Nat /\ k \in Nat /\ l \in Nat /\ h + l = j /\ k + l = j + 1 /\ h + 1 = k /\ v[k] \in Nat
    BY <1>2 DEF NatTo
  <2>2. ASSUME NEW i \in 1 .. l
        PROVE  w[h + i] = u[i] /\ v[k + i] = u[i] /\ u[i] \in Nat
    <3>1. k + i \in 1 .. n /\ h + i \in 1 .. n - 1 /\ ~(h + i < k) /\ (h + i) + 1 = k + i
      BY <1>2
    <3> QED BY <3>1 DEF NatTo, Without
  <2>3. NatTo(w, h) /\ NatTo(v, h) /\ NatTo(v, k) /\ SameTo(v, w, h)
    BY DEF NatTo, Without, SameTo
  <2>4. NatTo(u, l) /\ GoesOn(w, h, u, l) /\ GoesOn(v, k, u, l)
    BY <2>2 DEF NatTo, GoesOn
  <2> HIDE DEF l, u, h
  <2>5. SumTo(w, h + l) = SumTo(w, h) + SumTo(u, l) /\ SumTo(v, k + l) = SumTo(v, k) + SumTo(u, l)
    BY <2>1, <2>3, <2>4, SumSplit
  <2>6. SumTo(v, h + 1) = SumTo(v, h) + v[h + 1]
    BY <2>1, SumNext
  <2>7. SumTo(v, h) = SumTo(w, h)
    BY <2>1, <2>3, SumSame
  <2>8. SumTo(w, h) \in Nat /\ SumTo(u, l) \in Nat
    BY <2>1, <2>3, <2>4, SumNat
  <2>9. /\ SumTo(w, j) = SumTo(w, h) + SumTo(u, l)
        /\ SumTo(v, j + 1) = SumTo(v, k) + SumTo(u, l)
        /\ SumTo(v, k) = SumTo(v, h) + v[k]
    BY <2>1, <2>5, <2>6
  <2>10. SumTo(w, j) = SumTo(v, j + 1) - v[k]
    BY <2>1, <2>7, <2>8, <2>9
  <2> QED BY <1>2, <2>10
<1> QED BY <1>1, <1>2

\* Sums compare as their elements do.
LEMMA SumLess ==
  ASSUME NEW v, NEW w, NEW n \in Nat, NatTo(v, n), NatTo(w, n), LessTo(v, w, n)
  PROVE  SumTo(v, n) <= SumTo(w, n)
<1> DEFINE P == {k \in Nat : k <= n => SumTo(v, k) <= SumTo(w, k)}
<1>1. 0 \in P
  BY SumZero
<1>2. ASSUME NEW k \in P PROVE k + 1 \in P
  <2>1. SUFFICES ASSUME k + 1 <= n PROVE SumTo(v, k + 1) <= SumTo(w, k + 1)
    OBVIOUS
  <2>2. k \in Nat /\ k + 1 \in 1 .. n /\ SumTo(v, k) <= SumTo(w, k)
    BY <2>1
  <2>3. SumTo(v, k + 1) = SumTo(v, k) + v[k + 1] /\ SumTo(w, k + 1) = SumTo(w, k) + w[k + 1]
    BY <2>2, SumNext
  <2>4. NatTo(v, k) /\ NatTo(w, k)
    BY <2>2 DEF NatTo
  <2>5. SumTo(v, k) \in Nat /\ SumTo(w, k) \in Nat
    BY <2>2, <2>4, SumNat
  <2>6. v[k + 1] \in Nat /\ w[k + 1] \in Nat /\ v[k + 1] <= w[k + 1]
    BY <2>2 DEF NatTo, LessTo
  <2> QED BY <2>2, <2>3, <2>5, <2>6
<1> HIDE DEF P
<1>3. P \in SUBSET Nat
  BY DEF P
<1>4. P = Nat
  BY <1>1, <1>2, <1>3, SetInduction
<1>5. n \in P /\ n <= n
  BY <1>4
<1> QED BY <1>5 DEF P

\* A multiple of the elements, a multiple of the sum.
Times(v, w, n, c) == \A i \in 1 .. n : w[i] = c * v[i]

LEMMA SumTimes ==
  ASSUME NEW v, NEW w, NEW n \in Nat, NEW c \in Nat, NatTo(v, n), Times(v, w, n, c)
  PROVE  SumTo(w, n) = c * SumTo(v, n)
<1> DEFINE P == {k \in Nat : k <= n => SumTo(w, k) = c * SumTo(v, k)}
<1>1. 0 \in P
  BY SumZero
<1>2. ASSUME NEW k \in P PROVE k + 1 \in P
  <2>1. SUFFICES ASSUME k + 1 <= n PROVE SumTo(w, k + 1) = c * SumTo(v, k + 1)
    OBVIOUS
  <2>2. k \in Nat /\ k + 1 \in 1 .. n /\ SumTo(w, k) = c * SumTo(v, k)
    BY <2>1
  <2>3. SumTo(v, k + 1) = SumTo(v, k) + v[k + 1] /\ SumTo(w, k + 1) = SumTo(w, k) + w[k + 1]
    BY <2>2, SumNext
  <2>4. NatTo(v, k)
    BY <2>2 DEF NatTo
  <2>5. SumTo(v, k) \in Nat /\ v[k + 1] \in Nat /\ w[k + 1] = c * v[k + 1]
    BY <2>2, <2>4, SumNat DEF NatTo, Times
  <2>6. \A a, b \in Nat : c * (a + b) = c * a + c * b
    OBVIOUS
  <2> QED BY <2>2, <2>3, <2>5, <2>6
<1> HIDE DEF P
<1>3. P \in SUBSET Nat
  BY DEF P
<1>4. P = Nat
  BY <1>1, <1>2, <1>3, SetInduction
<1>5. n \in P /\ n <= n
  BY <1>4
<1> QED BY <1>5 DEF P

-----------------------------------------------------------------------------
(* Sequences: how often an element occurs, where the members of a set are,   *)
(* and what concatenation makes of both.                                     *)

\* A function on 1 .. n is a sequence of length n.
LEMMA SequenceOfFunction ==
  ASSUME NEW S, NEW n \in Nat, NEW f \in [1 .. n -> S]
  PROVE  f \in Seq(S) /\ Len(f) = n
  OBVIOUS

\* How often x occurs in s.
Count(s, x) == Cardinality({i \in 1 .. Len(s) : s[i] = x})

\* A count is a natural number.
LEMMA CountType ==
  ASSUME NEW S, NEW s \in Seq(S), NEW x
  PROVE  Count(s, x) \in Nat /\ IsFiniteSet({i \in 1 .. Len(s) : s[i] = x})
<1>1. IsFiniteSet(1 .. Len(s))
  <2>1. 1 \in Int /\ Len(s) \in Int
    OBVIOUS
  <2> QED BY <2>1, FS_Interval
<1>2. IsFiniteSet({i \in 1 .. Len(s) : s[i] = x})
  BY <1>1, FS_Subset
<1> QED BY <1>2, FS_CardinalityType DEF Count

\* Counting goes through concatenation.
LEMMA CountConcat ==
  ASSUME NEW S, NEW s \in Seq(S), NEW t \in Seq(S), NEW x
  PROVE  Count(s \o t, x) = Count(s, x) + Count(t, x)
<1> DEFINE A == {i \in 1 .. Len(s) : s[i] = x}
           B == {i \in 1 .. Len(t) : t[i] = x}
           C == {i \in 1 .. Len(s \o t) : (s \o t)[i] = x}
           D == {i \in C : i > Len(s)}
           shift == [i \in B |-> i + Len(s)]
<1>0. Len(s) \in Nat /\ Len(t) \in Nat
  OBVIOUS
<1>1. /\ Len(s \o t) = Len(s) + Len(t)
      /\ \A i \in 1 .. Len(s) + Len(t) :
           (s \o t)[i] = IF i <= Len(s) THEN s[i] ELSE t[i - Len(s)]
  BY ConcatProperties
<1>2. C = A \cup D /\ A \cap D = {}
  <2>1. ASSUME NEW i \in C PROVE i \in A \/ i \in D
    BY <1>0, <1>1
  <2>2. ASSUME NEW i \in A PROVE i \in C /\ i \notin D
    BY <1>0, <1>1
  <2> QED BY <2>1, <2>2
<1>3. shift \in Bijection(B, D)
  <2>1. ASSUME NEW i \in B PROVE i + Len(s) \in D
    BY <1>0, <1>1
  <2>2. ASSUME NEW j \in D PROVE j - Len(s) \in B
    BY <1>0, <1>1
  <2>3. shift \in [B -> D]
    BY <2>1
  <2>4. \A i, j \in B : shift[i] = shift[j] => i = j
    BY <1>0
  <2>5. \A j \in D : \E i \in B : shift[i] = j
    <3> TAKE j \in D
    <3>1. j - Len(s) \in B /\ shift[j - Len(s)] = j
      BY <1>0, <2>2
    <3> QED BY <3>1
  <2> HIDE DEF shift, B, D
  <2> QED BY <2>3, <2>4, <2>5 DEF Bijection, Injection, Surjection, IsInjective
<1>4. IsFiniteSet(A) /\ IsFiniteSet(B)
  BY CountType
<1> HIDE DEF A, B, C, D, shift
<1>5. ExistsBijection(B, D)
  BY <1>3 DEF ExistsBijection
<1>6. IsFiniteSet(D) /\ Cardinality(D) = Cardinality(B)
  BY <1>4, <1>5, FS_Bijection
<1>7. Cardinality(C) = Cardinality(A) + Cardinality(D)
  <2>1. Cardinality(A \cup D) = Cardinality(A) + Cardinality(D) - Cardinality(A \cap D)
    BY <1>4, <1>6, FS_Union
  <2>2. Cardinality(A \cap D) = 0
    BY <1>2, FS_EmptySet
  <2>3. Cardinality(A) \in Nat /\ Cardinality(D) \in Nat
    BY <1>4, <1>6, FS_CardinalityType
  <2> QED BY <1>2, <2>1, <2>2, <2>3
<1> QED BY <1>6, <1>7 DEF Count, A, B, C

\* Nothing occurs in the empty sequence.
LEMMA CountEmpty ==
  ASSUME NEW x
  PROVE  Count(<<>>, x) = 0
<1>1. {i \in 1 .. Len(<<>>) : <<>>[i] = x} = {}
  OBVIOUS
<1> QED BY <1>1, FS_EmptySet DEF Count

\* What occurs in a sequence of one.
LEMMA CountSingle ==
  ASSUME NEW e, NEW x
  PROVE  Count(<<e>>, x) = IF e = x THEN 1 ELSE 0
<1> DEFINE I == {i \in 1 .. Len(<<e>>) : <<e>>[i] = x}
<1>1. I = IF e = x THEN {1} ELSE {}
  OBVIOUS
<1> HIDE DEF I
<1>2. Cardinality(I) = IF e = x THEN 1 ELSE 0
  BY <1>1, FS_EmptySet, FS_Singleton
<1> QED BY <1>2 DEF Count, I

\* A sequence that is not empty is its head and then its tail.
LEMMA HeadAndTail ==
  ASSUME NEW S, NEW s \in Seq(S), s # <<>>
  PROVE  Head(s) \in S /\ Tail(s) \in Seq(S) /\ s = <<Head(s)>> \o Tail(s)
<1>1. Head(s) \in S /\ Tail(s) \in Seq(S) /\ <<Head(s)>> \in Seq(S)
  BY HeadTailProperties
<1>2. Len(s) \in Nat /\ Len(Tail(s)) = Len(s) - 1
      /\ \A i \in 1 .. Len(Tail(s)) : Tail(s)[i] = s[i+1]
  BY HeadTailProperties, LenProperties
<1>3. Head(s) = s[1]
  OBVIOUS
<1>4. /\ Len(<<Head(s)>> \o Tail(s)) = Len(s)
      /\ \A i \in 1 .. Len(s) : (<<Head(s)>> \o Tail(s))[i] = s[i]
      /\ <<Head(s)>> \o Tail(s) \in Seq(S)
  <2>1. Len(<<Head(s)>>) = 1 /\ <<Head(s)>>[1] = Head(s)
    OBVIOUS
  <2> DEFINE h == <<Head(s)>>
             t == Tail(s)
  <2>2. /\ Len(h \o t) = Len(h) + Len(t) /\ h \o t \in Seq(S)
        /\ \A i \in 1 .. Len(h) + Len(t) : (h \o t)[i] = IF i <= Len(h) THEN h[i] ELSE t[i - Len(h)]
    BY <1>1, ConcatProperties
  <2>3. Len(h) = 1 /\ h[1] = s[1] /\ Len(t) = Len(s) - 1 /\ Len(s) \in Nat
        /\ \A i \in 1 .. Len(t) : t[i] = s[i+1]
    BY <1>2, <1>3, <2>1
  <2> HIDE DEF h, t
  <2>4. \A i \in 1 .. Len(s) : i <= 1 => i = 1
    BY <2>3
  <2>5. \A i \in 1 .. Len(s) : i > 1 => i - 1 \in 1 .. Len(t) /\ t[i-1] = s[i]
    BY <2>3
  <2>6. \A i \in 1 .. Len(s) : (h \o t)[i] = s[i]
    BY <2>2, <2>3, <2>4, <2>5
  <2>7. Len(h \o t) = Len(s) /\ h \o t \in Seq(S)
    BY <2>2, <2>3
  <2> QED BY <2>6, <2>7 DEF h, t
<1> QED BY <1>1, <1>4, SeqEqual

\* A sequence is its first n elements and then the others.
LEMMA ConcatSplit ==
  ASSUME NEW S, NEW s \in Seq(S), NEW n \in 0 .. Len(s)
  PROVE  /\ SubSeq(s, 1, n) \in Seq(S) /\ SubSeq(s, n+1, Len(s)) \in Seq(S)
         /\ Len(SubSeq(s, 1, n)) = n
         /\ s = SubSeq(s, 1, n) \o SubSeq(s, n+1, Len(s))
<1>1. 1 \in 1 .. Len(s) + 1 /\ n \in 1 - 1 .. Len(s) /\ Len(s) \in n .. Len(s) /\ Len(s) \in Nat
  OBVIOUS
<1>2. SubSeq(s, 1, n) \o SubSeq(s, n+1, Len(s)) = SubSeq(s, 1, Len(s))
  BY <1>1, ConcatAdjacentSubSeq
<1>3. SubSeq(s, 1, Len(s)) = s
  BY SubSeqFull
<1>4. /\ SubSeq(s, 1, n) \in Seq(S) /\ Len(SubSeq(s, 1, n)) = n
      /\ SubSeq(s, n+1, Len(s)) \in Seq(S)
  BY <1>1, SubSeqProperties
<1> QED BY <1>2, <1>3, <1>4

\* What is put behind a sequence, behind what it follows.
LEMMA ConcatIs ==
  ASSUME NEW S, NEW s \in Seq(S), NEW t \in Seq(S)
  PROVE  /\ s \o t \in Seq(S)
         /\ Len(s \o t) = Len(s) + Len(t) /\ Len(s) \in Nat /\ Len(t) \in Nat
         /\ \A i \in 1 .. Len(s) + Len(t) :
              (s \o t)[i] = IF i <= Len(s) THEN s[i] ELSE t[i - Len(s)]
  BY ConcatProperties

\* A set of indices without gaps is the interval of its size.
LEMMA PrefixCount ==
  ASSUME NEW L \in Nat, NEW S \in SUBSET (1 .. L), \A i \in S : \A j \in 1 .. i : j \in S
  PROVE  Cardinality(S) \in 0 .. L /\ S = 1 .. Cardinality(S)
<1>1. IsFiniteSet(1 .. L) /\ Cardinality(1 .. L) = L
  BY FS_Interval
<1>2. IsFiniteSet(S) /\ Cardinality(S) \in Nat /\ Cardinality(S) <= L
  BY <1>1, FS_Subset, FS_CardinalityType
<1>3. CASE S = {}
  <2>1. Cardinality(S) = 0
    BY <1>3, FS_EmptySet
  <2>2. QED BY <1>3, <2>1
<1>4. CASE S # {}
  <2>1. S \subseteq Nat
    OBVIOUS
  <2>2. PICK m \in S : \A i \in S : i <= m
    BY <1>2, <1>4, <2>1, GreatestElement
  <2>3. m \in 1 .. L /\ \A i \in S : i \in 1 .. m
    BY <2>2
  <2>6. S = 1 .. m /\ m \in Nat /\ m <= L
    <3>1. \A j \in 1 .. m : j \in S
      BY <2>2
    <3>2. S \subseteq 1 .. m
      BY <2>3
    <3>3. m \in Nat /\ m <= L
      BY <2>3
    <3>4. QED BY <3>1, <3>2, <3>3
  <2>4. Cardinality(1 .. m) = m
    BY <2>6, FS_Interval
  <2>5. QED BY <2>6, <2>4
<1>5. QED BY <1>3, <1>4

\* A set of places has at most one.
Once(I) == \A i, j \in I : i = j

\* The places of s at which it has a member of T.
At(s, T) == {i \in 1 .. Len(s) : s[i] \in T}

Places == SUBSET (Nat \ {0})

\* The places of a sequence's tail.
Shifted(I, J) ==
  /\ \A j \in J : j + 1 \in I
  /\ \A i \in I : i # 1 => i - 1 \in J

\* What of a set of places its shift keeps.
LEMMA ShiftedIs ==
  ASSUME NEW I \in Places, NEW J \in Places, Shifted(I, J)
  PROVE  /\ Once(I) => Once(J)
         /\ Once(I) /\ 1 \in I => J = {}
         /\ 1 \notin I => (J = {} <=> I = {})
<1>1. ASSUME Once(I) PROVE Once(J)
  <2>1. ASSUME NEW i \in J, NEW j \in J PROVE i = j
    <3>1. i + 1 \in I /\ j + 1 \in I /\ i \in Nat /\ j \in Nat
      BY DEF Shifted, Places
    <3>2. i + 1 = j + 1
      BY <1>1, <3>1 DEF Once
    <3> QED BY <3>1, <3>2
  <2> QED BY <2>1 DEF Once
<1>2. ASSUME Once(I), 1 \in I, NEW j \in J PROVE FALSE
  <2>1. j + 1 \in I /\ j \in Nat \ {0}
    BY DEF Shifted, Places
  <2>2. j + 1 = 1
    BY <1>2, <2>1 DEF Once
  <2> QED BY <2>1, <2>2
<1>3. ASSUME 1 \notin I PROVE J = {} <=> I = {}
  <2>1. ASSUME NEW j \in J PROVE I # {}
    BY <2>1 DEF Shifted
  <2>2. ASSUME NEW i \in I PROVE J # {}
    BY <1>3, <2>2 DEF Shifted
  <2> QED BY <2>1, <2>2
<1> QED BY <1>1, <1>2, <1>3

\* The places of a sequence's members, of its tail, and of what is added to it.
LEMMA AtType ==
  ASSUME NEW S, NEW s \in Seq(S), NEW T
  PROVE  At(s, T) \in Places /\ \A i \in At(s, T) : i <= Len(s)
  BY DEF At, Places

\* The places in a tail,
LEMMA AtTail ==
  ASSUME NEW S, NEW s \in Seq(S), s # <<>>, NEW T
  PROVE  /\ Shifted(At(s, T), At(Tail(s), T))
         /\ 1 \in At(s, T) <=> Head(s) \in T
<1>1. /\ Len(Tail(s)) = Len(s) - 1 /\ Len(s) \in Nat /\ 1 \in 1 .. Len(s) /\ Head(s) = s[1]
      /\ \A i \in 1 .. Len(Tail(s)) : Tail(s)[i] = s[i+1]
  OBVIOUS
<1> DEFINE r == Tail(s)
<1> HIDE DEF r
<1>2. /\ Len(r) = Len(s) - 1 /\ \A i \in 1 .. Len(r) : r[i] = s[i+1]
  BY <1>1 DEF r
<1>3. \A j \in At(r, T) : j + 1 \in At(s, T)
  BY <1>1, <1>2 DEF At
<1>4. \A i \in At(s, T) : i # 1 => i - 1 \in At(r, T)
  <2>1. ASSUME NEW i \in At(s, T), i # 1 PROVE i - 1 \in At(r, T)
    <3>1. i \in 1 .. Len(s) /\ s[i] \in T
      BY DEF At
    <3>2. i - 1 \in 1 .. Len(r) /\ r[i-1] = s[(i-1)+1] /\ (i-1)+1 = i
      BY <1>1, <1>2, <2>1, <3>1
    <3> QED BY <3>1, <3>2 DEF At
  <2> QED BY <2>1
<1> QED BY <1>1, <1>3, <1>4 DEF Shifted, r, At

\* with one element more,
LEMMA AtAppend ==
  ASSUME NEW S, NEW s \in Seq(S), NEW e \in S, NEW T
  PROVE  At(Append(s, e), T) = IF e \in T THEN At(s, T) \cup {Len(s) + 1} ELSE At(s, T)
<1>1. /\ Len(Append(s, e)) = Len(s) + 1 /\ Len(s) \in Nat /\ Append(s, e)[Len(s) + 1] = e
      /\ \A i \in 1 .. Len(s) : Append(s, e)[i] = s[i]
  OBVIOUS
<1> QED BY <1>1 DEF At

\* in a concatenation,
LEMMA AtConcat ==
  ASSUME NEW S, NEW s \in Seq(S), NEW t \in Seq(S), NEW T
  PROVE  At(s \o t, T) = At(s, T) \cup {Len(s) + i : i \in At(t, T)}
<1> DEFINE r == s \o t
           I == {Len(s) + i : i \in At(t, T)}
<1>1. /\ Len(r) = Len(s) + Len(t) /\ Len(s) \in Nat /\ Len(t) \in Nat
      /\ \A i \in 1 .. Len(s) + Len(t) : r[i] = IF i <= Len(s) THEN s[i] ELSE t[i - Len(s)]
  BY ConcatIs
<1> HIDE DEF r
<1>2. ASSUME NEW i \in At(r, T) PROVE i \in At(s, T) \cup I
  <2>1. i \in 1 .. Len(s) + Len(t) /\ r[i] \in T
    BY <1>1 DEF At
  <2>2. CASE i <= Len(s)
    BY <1>1, <2>1, <2>2 DEF At
  <2>3. CASE ~(i <= Len(s))
    <3>1. i - Len(s) \in 1 .. Len(t) /\ t[i - Len(s)] \in T /\ i = Len(s) + (i - Len(s))
      BY <1>1, <2>1, <2>3
    <3>2. i - Len(s) \in At(t, T)
      BY <3>1 DEF At
    <3> QED BY <3>1, <3>2
  <2> QED BY <2>2, <2>3
<1>3. ASSUME NEW i \in At(s, T) PROVE i \in At(r, T)
  BY <1>1 DEF At
<1>4. ASSUME NEW i \in At(t, T) PROVE Len(s) + i \in At(r, T)
  <2>1. i \in 1 .. Len(t) /\ t[i] \in T
    BY DEF At
  <2>2. Len(s) + i \in 1 .. Len(r) /\ ~(Len(s) + i <= Len(s)) /\ (Len(s) + i) - Len(s) = i
    BY <1>1, <2>1
  <2>3. r[Len(s) + i] = t[i]
    BY <1>1, <2>2
  <2> QED BY <2>1, <2>2, <2>3 DEF At
<1> QED BY <1>2, <1>3, <1>4 DEF r

\* and in nothing.
LEMMA AtNone ==
  ASSUME NEW T
  PROVE  At(<<>>, T) = {}
  BY DEF At
=============================================================================
