--------------------------- MODULE CatalogProofs ---------------------------
(***************************************************************************)
(* Proofs about Catalog, for any number of products, administrators and     *)
(* changes.                                                                 *)
(*                                                                          *)
(* First what the helpers on sequences do: At and Sorted move records and    *)
(* lose none.  Then the types, what every record keeps about its locks, and  *)
(* last the photos: PhotoStep says what a step may do to them, every action  *)
(* is one, and a photo that is shown then stays on the disk.                 *)
(***************************************************************************)
EXTENDS Catalog, FiniteSetTheorems, SequenceTheorems, TLAPS

---------------------------------------------------------------------------
(* Positions *)

\* A set of numbers has a least one.
LEMMA Least ==
  ASSUME NEW S \in SUBSET Nat, S # {}
  PROVE  \E n \in S : \A m \in S : n <= m
  <1> DEFINE Before == {ss \in Nat \X Nat : ss[1] < ss[2]}
  <1>1. IsWellFoundedOn(Before, Nat)
    BY NatLessThanWellFounded DEF OpToRel
  <1>2. PICK n \in S : \A m \in S : ~(<<m, n>> \in Before)
    BY <1>1, WFMin, Zenon
  <1>3. \A x, y \in Nat : x < y => <<x, y>> \in Before
    OBVIOUS
  <1>4. n \in Nat /\ \A m \in S : m \in Nat /\ ~(m < n)
    BY <1>2, <1>3, Zenon
  <1>5. \A m \in S : n <= m
    BY <1>4
  <1>6. QED BY <1>5

\* The position of i among those of I, and back.
Rank(I, i) == Cardinality({j \in I : j < i})
Place(I, n) == CHOOSE i \in I : Cardinality({j \in I : j < i}) = n - 1

\* A position is less than the number of those that are less than a later one.
LEMMA RankLess ==
  ASSUME NEW I, IsFiniteSet(I), I \subseteq Nat
  PROVE  /\ Cardinality(I) \in Nat
         /\ \A i \in I : Rank(I, i) \in Nat /\ Rank(I, i) < Cardinality(I)
         /\ \A i, j \in I : i < j => Rank(I, i) < Rank(I, j)
  <1> DEFINE Lower(i) == {j \in I : j < i}
  <1> HIDE DEF Lower
  <1>1. ASSUME NEW J, IsFiniteSet(J), NEW i \in J, Lower(i) \subseteq J \ {i}
        PROVE  /\ Cardinality(J) \in Nat /\ Cardinality(Lower(i)) \in Nat
               /\ Cardinality(Lower(i)) < Cardinality(J)
    <2>1. IsFiniteSet(J \ {i}) /\ Cardinality(J \ {i}) = Cardinality(J) - 1 /\ Cardinality(J) \in Nat
      BY <1>1, FS_RemoveElement, FS_CardinalityType
    <2>2. IsFiniteSet(Lower(i)) /\ Cardinality(Lower(i)) <= Cardinality(J \ {i})
      BY <1>1, <2>1, FS_Subset
    <2>3. Cardinality(Lower(i)) \in Nat
      BY <2>2, FS_CardinalityType
    <2>4. QED BY <2>1, <2>2, <2>3
  <1>2. ASSUME NEW i \in I PROVE Lower(i) \subseteq I \ {i} /\ IsFiniteSet(Lower(i))
    <2>1. Lower(i) \subseteq I \ {i}
      BY DEF Lower
    <2>2. QED BY <2>1, FS_Subset
  <1>3. ASSUME NEW i \in I, NEW j \in I, i < j
        PROVE  i \in Lower(j) /\ Lower(i) \subseteq Lower(j) \ {i}
    <2>1. i \in Lower(j)
      BY <1>3 DEF Lower
    <2>2. ASSUME NEW k \in Lower(i) PROVE k \in Lower(j) /\ k # i
      <3>1. k \in I /\ k < i /\ {i, j, k} \subseteq Nat
        BY DEF Lower
      <3>2. k < j /\ k # i
        BY <1>3, <3>1
      <3>3. QED BY <3>1, <3>2 DEF Lower
    <2>3. QED BY <2>1, <2>2
  <1>4. Cardinality(I) \in Nat
    BY FS_CardinalityType
  <1>5. \A i \in I : Cardinality(Lower(i)) \in Nat /\ Cardinality(Lower(i)) < Cardinality(I)
    BY <1>1, <1>2
  <1>6. \A i, j \in I : i < j => Cardinality(Lower(i)) < Cardinality(Lower(j))
    BY <1>1, <1>2, <1>3
  <1>7. \A i : Rank(I, i) = Cardinality(Lower(i))
    BY DEF Rank, Lower
  <1>8. QED BY <1>4, <1>5, <1>6, <1>7

\* The positions are counted without gaps.
LEMMA Ranks ==
  ASSUME NEW I, IsFiniteSet(I), I \subseteq Nat
  PROVE  /\ Cardinality(I) \in Nat
         /\ \A i \in I : Rank(I, i) \in Nat /\ Rank(I, i) < Cardinality(I)
         /\ \A i, j \in I : Rank(I, i) = Rank(I, j) => i = j
         /\ \A n \in 1..Cardinality(I) : \E i \in I : Rank(I, i) = n - 1
  <1> DEFINE N == Cardinality(I)
             f == [i \in I |-> Rank(I, i) + 1]
  <1>1. N \in Nat /\ \A i \in I : Rank(I, i) \in Nat /\ Rank(I, i) < N
    BY RankLess
  <1>2. \A i, j \in I : i < j => Rank(I, i) < Rank(I, j)
    BY RankLess
  <1>3. ASSUME NEW i \in I, NEW j \in I, Rank(I, i) = Rank(I, j) PROVE i = j
    <2>1. i \in Nat /\ j \in Nat /\ Rank(I, i) \in Nat
      BY <1>1
    <2>2. ~(i < j) /\ ~(j < i)
      BY <1>2, <1>3, <2>1
    <2>3. QED BY <2>1, <2>2
  <1> HIDE DEF N
  <1>4. f \in Injection(I, 1..N)
    <2>1. f \in [I -> 1..N]
      BY <1>1
    <2>2. \A i, j \in I : f[i] = f[j] => i = j
      BY <1>1, <1>3
    <2>3. QED BY <2>1, <2>2 DEF Injection, IsInjective
  <1>5. IsFiniteSet(1..N) /\ Cardinality(1..N) = N
    BY <1>1, FS_Interval
  <1>6. f \in Surjection(I, 1..N)
    BY <1>4, <1>5, FS_Injection DEF N
  <1>7. ASSUME NEW n \in 1..N PROVE \E i \in I : Rank(I, i) = n - 1
    <2>1. PICK i \in I : f[i] = n
      BY <1>6 DEF Surjection
    <2>2. QED BY <2>1, <1>1
  <1>8. QED BY <1>1, <1>3, <1>7 DEF N

\* Places are positions of their own, all of them.
LEMMA Places ==
  ASSUME NEW I, IsFiniteSet(I), I \subseteq Nat
  PROVE  /\ Cardinality(I) \in Nat
         /\ \A n \in 1..Cardinality(I) : Place(I, n) \in I
         /\ \A n, m \in 1..Cardinality(I) : Place(I, n) = Place(I, m) => n = m
         /\ \A i \in I : \E n \in 1..Cardinality(I) : Place(I, n) = i
  <1> DEFINE N == Cardinality(I)
  <1>1. N \in Nat
    BY Ranks
  <1>2. ASSUME NEW n \in 1..N PROVE Place(I, n) \in I /\ Rank(I, Place(I, n)) = n - 1
    <2>1. \E i \in I : Rank(I, i) = n - 1
      BY Ranks
    <2>2. Place(I, n) = CHOOSE i \in I : Rank(I, i) = n - 1
      BY DEF Place, Rank
    <2>3. QED BY <2>1, <2>2
  <1>3. \A n, m \in 1..N : Place(I, n) = Place(I, m) => n = m
    BY <1>1, <1>2
  <1>4. ASSUME NEW i \in I PROVE \E n \in 1..N : Place(I, n) = i
    <2>1. Rank(I, i) \in Nat /\ Rank(I, i) < N
      BY Ranks
    <2>2. Rank(I, i) + 1 \in 1..N /\ (Rank(I, i) + 1) - 1 = Rank(I, i)
      BY <1>1, <2>1
    <2>3. Rank(I, Place(I, Rank(I, i) + 1)) = Rank(I, i) /\ Place(I, Rank(I, i) + 1) \in I
      BY <1>2, <2>2
    <2>4. Place(I, Rank(I, i) + 1) = i
      BY <2>3, Ranks
    <2>5. QED BY <2>2, <2>4
  <1>5. QED BY <1>1, <1>2, <1>3, <1>4

\* What At returns: the elements at the positions of I, each once.
LEMMA AtFacts ==
  ASSUME NEW T, NEW s \in Seq(T), NEW I \in SUBSET (DOMAIN s)
  PROVE  /\ At(s, I) \in Seq(T) /\ Len(At(s, I)) = Cardinality(I)
         /\ Cardinality(I) \in Nat
         /\ \A n \in 1..Cardinality(I) : Place(I, n) \in I /\ At(s, I)[n] = s[Place(I, n)]
         /\ \A n, m \in 1..Cardinality(I) : Place(I, n) = Place(I, m) => n = m
         /\ \A i \in I : \E n \in 1..Cardinality(I) : Place(I, n) = i
  <1>1. IsFiniteSet(I) /\ I \subseteq Nat
    <2>1. DOMAIN s = 1..Len(s) /\ Len(s) \in Nat
      OBVIOUS
    <2>2. IsFiniteSet(1..Len(s))
      BY <2>1, FS_Interval
    <2>3. QED BY <2>1, <2>2, FS_Subset
  <1>2. /\ Cardinality(I) \in Nat
        /\ \A n \in 1..Cardinality(I) : Place(I, n) \in I
        /\ \A n, m \in 1..Cardinality(I) : Place(I, n) = Place(I, m) => n = m
        /\ \A i \in I : \E n \in 1..Cardinality(I) : Place(I, n) = i
    BY <1>1, Places
  <1>3. At(s, I) = [n \in 1..Cardinality(I) |-> s[Place(I, n)]]
    BY DEF At, Place
  <1>4. \A i \in I : s[i] \in T
    OBVIOUS
  <1>5. At(s, I) \in [1..Cardinality(I) -> T]
    BY <1>2, <1>3, <1>4
  <1>6. At(s, I) \in Seq(T)
    BY <1>2, <1>5, SeqDef
  <1>7. Len(At(s, I)) = Cardinality(I)
    BY <1>2, <1>5, <1>6
  <1>8. QED BY <1>2, <1>3, <1>6, <1>7

\* t has the elements of s at the positions in I, each once, in some order.
Moves(t, s, I) ==
  \E o \in [DOMAIN t -> I] :
    /\ \A n, m \in DOMAIN t : o[n] = o[m] => n = m
    /\ \A i \in I : \E n \in DOMAIN t : o[n] = i
    /\ \A n \in DOMAIN t : t[n] = s[o[n]]

LEMMA AtMoves ==
  ASSUME NEW T, NEW s \in Seq(T), NEW I \in SUBSET (DOMAIN s)
  PROVE  At(s, I) \in Seq(T) /\ Moves(At(s, I), s, I)
  <1> DEFINE o == [n \in 1..Cardinality(I) |-> Place(I, n)]
  <1>1. At(s, I) \in Seq(T) /\ DOMAIN At(s, I) = 1..Cardinality(I)
    BY AtFacts
  <1>2. /\ o \in [1..Cardinality(I) -> I]
        /\ \A n, m \in 1..Cardinality(I) : o[n] = o[m] => n = m
        /\ \A i \in I : \E n \in 1..Cardinality(I) : o[n] = i
        /\ \A n \in 1..Cardinality(I) : At(s, I)[n] = s[o[n]]
    BY AtFacts
  <1> HIDE DEF o
  <1>3. /\ o \in [DOMAIN At(s, I) -> I]
        /\ \A n, m \in DOMAIN At(s, I) : o[n] = o[m] => n = m
        /\ \A i \in I : \E n \in DOMAIN At(s, I) : o[n] = i
        /\ \A n \in DOMAIN At(s, I) : At(s, I)[n] = s[o[n]]
    BY <1>1, <1>2, Zenon
  <1>4. QED BY <1>1, <1>3, Zenon DEF Moves

LEMMA ConcatMoves ==
  ASSUME NEW T, NEW s \in Seq(T), NEW t \in Seq(T), NEW u \in Seq(T), NEW I, NEW J,
         I \cap J = {}, Moves(t, s, I), Moves(u, s, J)
  PROVE  t \o u \in Seq(T) /\ Moves(t \o u, s, I \cup J)
  <1>1. PICK o \in [DOMAIN t -> I] :
          /\ \A n, m \in DOMAIN t : o[n] = o[m] => n = m
          /\ \A i \in I : \E n \in DOMAIN t : o[n] = i
          /\ \A n \in DOMAIN t : t[n] = s[o[n]]
    BY DEF Moves
  <1>2. PICK q \in [DOMAIN u -> J] :
          /\ \A n, m \in DOMAIN u : q[n] = q[m] => n = m
          /\ \A i \in J : \E n \in DOMAIN u : q[n] = i
          /\ \A n \in DOMAIN u : u[n] = s[q[n]]
    BY DEF Moves
  <1> DEFINE a == Len(t)
             b == Len(u)
             r == [n \in 1..(a + b) |-> IF n <= a THEN o[n] ELSE q[n - a]]
  <1>3. /\ a \in Nat /\ b \in Nat /\ DOMAIN t = 1..a /\ DOMAIN u = 1..b
        /\ t \o u \in Seq(T) /\ DOMAIN (t \o u) = 1..(a + b)
        /\ \A n \in 1..(a + b) : (t \o u)[n] = IF n <= a THEN t[n] ELSE u[n - a]
    BY ConcatProperties, LenProperties
  <1> HIDE DEF a, b
  <1>4. \A n \in 1..(a + b) : (n <= a => n \in 1..a) /\ (n > a => n - a \in 1..b)
    BY <1>3
  <1>5. r \in [1..(a + b) -> I \cup J]
    BY <1>3, <1>4
  <1>6. ASSUME NEW n \in 1..(a + b), NEW m \in 1..(a + b), r[n] = r[m] PROVE n = m
    <2>1. CASE n <= a /\ m <= a
      BY <2>1, <1>1, <1>3, <1>4, <1>6
    <2>2. CASE n > a /\ m > a
      <3>1. q[n - a] = q[m - a] /\ n - a \in 1..b /\ m - a \in 1..b
        BY <2>2, <1>3, <1>4, <1>6
      <3>2. n - a = m - a
        BY <3>1, <1>2, <1>3
      <3>3. QED BY <3>2, <1>3
    <2>3. CASE n <= a /\ m > a
      <3>1. o[n] = q[m - a] /\ o[n] \in I /\ q[m - a] \in J
        BY <2>3, <1>3, <1>4, <1>6
      <3>2. QED BY <3>1
    <2>4. CASE n > a /\ m <= a
      <3>1. q[n - a] = o[m] /\ q[n - a] \in J /\ o[m] \in I
        BY <2>4, <1>3, <1>4, <1>6
      <3>2. QED BY <3>1
    <2>5. n \in Int /\ m \in Int /\ a \in Int
      BY <1>3
    <2>6. QED BY <2>5, <2>4, <2>3, <2>2, <2>1
  <1>7. ASSUME NEW i \in I \cup J PROVE \E n \in 1..(a + b) : r[n] = i
    <2>1. CASE i \in I
      <3>1. PICK n \in 1..a : o[n] = i
        BY <2>1, <1>1, <1>3
      <3>2. n \in 1..(a + b) /\ n <= a
        BY <1>3
      <3>3. QED BY <3>1, <3>2
    <2>2. CASE i \in J
      <3>1. PICK n \in 1..b : q[n] = i
        BY <2>2, <1>2, <1>3
      <3>2. n + a \in 1..(a + b) /\ ~(n + a <= a) /\ (n + a) - a = n
        BY <1>3
      <3>3. r[n + a] = q[n]
        BY <3>2
      <3>4. QED BY <3>1, <3>2, <3>3
    <2>3. QED BY <2>1, <2>2
  <1>8. ASSUME NEW n \in 1..(a + b) PROVE (t \o u)[n] = s[r[n]]
    <2>1. CASE n <= a
      <3>1. n \in DOMAIN t /\ (t \o u)[n] = t[n] /\ r[n] = o[n]
        BY <2>1, <1>3, <1>4
      <3>2. QED BY <3>1, <1>1
    <2>2. CASE ~(n <= a)
      <3>1. n \in Int /\ a \in Int
        BY <1>3
      <3>2. n - a \in DOMAIN u /\ (t \o u)[n] = u[n - a] /\ r[n] = q[n - a]
        BY <2>2, <3>1, <1>3, <1>4
      <3>3. QED BY <3>2, <1>2
    <2>3. QED BY <2>1, <2>2
  <1> HIDE DEF r
  <1>9. /\ r \in [DOMAIN (t \o u) -> I \cup J]
        /\ \A n, m \in DOMAIN (t \o u) : r[n] = r[m] => n = m
        /\ \A i \in I \cup J : \E n \in DOMAIN (t \o u) : r[n] = i
        /\ \A n \in DOMAIN (t \o u) : (t \o u)[n] = s[r[n]]
    <2>1. DOMAIN (t \o u) = 1..(a + b)
      BY <1>3
    <2>2. QED BY <2>1, <1>5, <1>6, <1>7, <1>8, Zenon
  <1>10. QED BY <1>3, <1>9, Zenon DEF Moves

\* Sorting moves every record.
LEMMA SortedMoves ==
  ASSUME NEW T, NEW s \in Seq(T), \A i \in DOMAIN s : s[i].sort \in 0..2
  PROVE  Sorted(s) \in Seq(T) /\ Moves(Sorted(s), s, DOMAIN s)
  <1> DEFINE I(n) == {i \in DOMAIN s : s[i].sort = n}
  <1>1. \A n : At(s, I(n)) \in Seq(T) /\ Moves(At(s, I(n)), s, I(n))
    <2>1. \A n : I(n) \in SUBSET (DOMAIN s)
      OBVIOUS
    <2> HIDE DEF I
    <2>2. QED BY <2>1, AtMoves
  <1>2. I(0) \cap I(1) = {} /\ (I(0) \cup I(1)) \cap I(2) = {} /\ (I(0) \cup I(1)) \cup I(2) = DOMAIN s
    <2>1. \A i \in DOMAIN s : s[i].sort = 0 \/ s[i].sort = 1 \/ s[i].sort = 2
      OBVIOUS
    <2>2. DOMAIN s \subseteq (I(0) \cup I(1)) \cup I(2)
      BY <2>1
    <2>3. \A n : I(n) \subseteq DOMAIN s
      OBVIOUS
    <2>4. I(0) \cap I(1) = {} /\ I(0) \cap I(2) = {} /\ I(1) \cap I(2) = {}
      OBVIOUS
    <2> HIDE DEF I
    <2>5. QED BY <2>2, <2>3, <2>4
  <1>3. Sorted(s) = (At(s, I(0)) \o At(s, I(1))) \o At(s, I(2))
    BY DEF Sorted
  <1> HIDE DEF I
  <1>4. At(s, I(0)) \o At(s, I(1)) \in Seq(T) /\ Moves(At(s, I(0)) \o At(s, I(1)), s, I(0) \cup I(1))
    BY <1>1, <1>2, ConcatMoves
  <1>5. /\ (At(s, I(0)) \o At(s, I(1))) \o At(s, I(2)) \in Seq(T)
        /\ Moves((At(s, I(0)) \o At(s, I(1))) \o At(s, I(2)), s, (I(0) \cup I(1)) \cup I(2))
    BY <1>1, <1>2, <1>4, ConcatMoves
  <1>6. QED BY <1>2, <1>3, <1>5

\* Removing one moves all others.
LEMMA RemoveMoves ==
  ASSUME NEW T, NEW s \in Seq(T), NEW i \in DOMAIN s
  PROVE  RemoveAt(s, i) \in Seq(T) /\ Moves(RemoveAt(s, i), s, DOMAIN s \ {i})
  <1> DEFINE t == SubSeq(s, 1, i - 1)
             u == SubSeq(s, i + 1, Len(s))
             I == 1..(i - 1)
             J == (i + 1)..Len(s)
  <1>1. /\ Len(s) \in Nat /\ DOMAIN s = 1..Len(s) /\ i \in 1..Len(s)
        /\ \A j \in DOMAIN s : s[j] \in T
    OBVIOUS
  <1>2. /\ t \in Seq(T) /\ DOMAIN t = I
        /\ \A n \in I : t[n] = s[n]
    <2>1. /\ t \in Seq(T) /\ Len(t) = IF 1 <= i - 1 THEN (i - 1) - 1 + 1 ELSE 0
          /\ \A n \in 1..((i - 1) - 1 + 1) : t[n] = s[1 + n - 1]
      <3>1. 1 \in Int /\ i - 1 \in Int /\ \A j \in 1..(i - 1) : s[j] \in T
        BY <1>1
      <3>2. QED BY <3>1, SubSeqProperties
    <2>2. Len(t) = i - 1
      BY <1>1, <2>1
    <2>3. QED BY <1>1, <2>1, <2>2
  <1>3. /\ u \in Seq(T) /\ DOMAIN u = 1..(Len(s) - i)
        /\ \A n \in 1..(Len(s) - i) : u[n] = s[n + i]
    <2>1. /\ u \in Seq(T) /\ Len(u) = IF i + 1 <= Len(s) THEN Len(s) - (i + 1) + 1 ELSE 0
          /\ \A n \in 1..(Len(s) - (i + 1) + 1) : u[n] = s[(i + 1) + n - 1]
      <3>1. i + 1 \in Int /\ Len(s) \in Int /\ \A j \in (i + 1)..Len(s) : s[j] \in T
        BY <1>1
      <3>2. QED BY <3>1, SubSeqProperties
    <2>2. i + 1 <= Len(s) \/ i = Len(s)
      BY <1>1
    <2>3. Len(u) = Len(s) - i
      <3>1. CASE i + 1 <= Len(s)
        BY <3>1, <1>1, <2>1
      <3>2. CASE i = Len(s)
        BY <3>2, <1>1, <2>1
      <3>3. QED BY <3>1, <3>2, <2>2
    <2>4. \A n \in 1..(Len(s) - i) : n \in 1..(Len(s) - (i + 1) + 1) /\ (i + 1) + n - 1 = n + i
      BY <1>1
    <2>5. u \in Seq(T) /\ DOMAIN u = 1..(Len(s) - i)
      BY <2>1, <2>3
    <2>6. \A n \in 1..(Len(s) - i) : u[n] = s[n + i]
      BY <2>1, <2>4
    <2>7. QED BY <2>5, <2>6
  <1>4. Moves(t, s, I)
    <2> DEFINE o == [n \in I |-> n]
    <2>1. o \in [DOMAIN t -> I] /\ \A n \in I : o[n] = n
      BY <1>2
    <2> HIDE DEF o, t, I
    <2>2. QED BY <2>1, <1>2 DEF Moves
  <1>5. Moves(u, s, J)
    <2> DEFINE o == [n \in 1..(Len(s) - i) |-> n + i]
    <2>1. o \in [DOMAIN u -> J] /\ \A n \in DOMAIN u : o[n] = n + i
      BY <1>1, <1>3
    <2>2. \A n, m \in DOMAIN u : o[n] = o[m] => n = m
      BY <1>1, <1>3
    <2>3. ASSUME NEW j \in J PROVE \E n \in DOMAIN u : o[n] = j
      <3>1. j - i \in 1..(Len(s) - i) /\ (j - i) + i = j
        BY <1>1
      <3>2. QED BY <3>1, <1>3
    <2>4. \A n \in DOMAIN u : u[n] = s[o[n]]
      BY <1>1, <1>3
    <2> HIDE DEF o, u, J
    <2>5. QED BY <2>1, <2>2, <2>3, <2>4 DEF Moves
  <1>6. I \cap J = {} /\ I \cup J = DOMAIN s \ {i}
    BY <1>1
  <1>7. RemoveAt(s, i) = t \o u
    BY DEF RemoveAt
  <1> HIDE DEF t, u, I, J
  <1>8. QED BY <1>2, <1>3, <1>4, <1>5, <1>6, <1>7, ConcatMoves

---------------------------------------------------------------------------
(* Records *)

Keys == Fields \cup {"images"}
Anything == UNION {[D -> Value \cup Seq(Value)] : D \in SUBSET Keys}
Product == [id : Ids, value : Listing, images : Seq(Value), sort : 0..2, locks : SUBSET Keys, kept : Anything]

\* What an administrator wrote is locked (but for the category, which no lock protects), and
\* still there.
Keeps(p) ==
  /\ DOMAIN p.kept \subseteq p.locks \cup {"category"}
  /\ \A f \in DOMAIN p.kept :
       \/ p.id \in canonical /\ f \in {"imageUrl", "images"}
       \/ p.kept[f] = IF f = "images" THEN p.images ELSE p.value[f]

LEMMA FieldFacts ==
  /\ Fields = {"basePriceCents", "variants", "imageUrl", "name", "category", "imageScale"}
  /\ Keys = {"basePriceCents", "variants", "imageUrl", "name", "category", "imageScale", "images"}
  /\ PricingMedia = {"basePriceCents", "variants", "imageUrl"}
  /\ Full = {"basePriceCents", "variants", "imageUrl", "name", "category"}
  /\ Comparable = {"basePriceCents", "variants", "imageUrl", "name", "imageScale"}
  BY DEF Fields, Keys, PricingMedia, Full, Comparable, Price

LEMMA ValueFacts ==
  /\ {Missing, Default, Typed, Uploaded} \subseteq Value
  /\ changes \in 0..MaxChanges => Stamp \in Nat
  /\ changes \in 0..MaxChanges /\ changes < MaxChanges => Stamp \in Value
  /\ NotListed \in Listing
  BY CatalogAssumption DEF Missing, Default, Typed, Uploaded, Value, Stamp, NotListed, Listing

\* Locks reach the whole group of a field.
LEMMA LockFacts ==
  ASSUME NEW S \in SUBSET Keys
  PROVE  /\ ExpandSyncOverrides(S) \in SUBSET Keys /\ S \subseteq ExpandSyncOverrides(S)
         /\ "imageUrl" \in S => "images" \in ExpandSyncOverrides(S)
  <1>1. \A f \in Keys : LockGroup(f) \in SUBSET Keys /\ f \in LockGroup(f)
    BY FieldFacts DEF LockGroup, Price
  <1>2. "images" \in LockGroup("imageUrl")
    BY DEF LockGroup, Price
  <1>3. QED BY <1>1, <1>2 DEF ExpandSyncOverrides

LEMMA ToSetOne ==
  ASSUME NEW x
  PROVE  ToSet(<<x>>) = {x}
  BY DEF ToSet

LEMMA RepairedFacts ==
  ASSUME NEW p \in Product
  PROVE  /\ Repaired(p) \in Product
         /\ Repaired(p).id = p.id /\ Repaired(p).sort = p.sort
         /\ Repaired(p).locks = p.locks /\ Repaired(p).kept = p.kept
         /\ p.id \notin canonical => Repaired(p) = p
         /\ p.id \in canonical => Repaired(p).value["imageUrl"] = Default
         /\ \A f \in Fields \ {"imageUrl"} : Repaired(p).value[f] = p.value[f]
         /\ Photos(Repaired(p)) \subseteq Photos(p) \cup {Default}
         /\ Keeps(p) => Keeps(Repaired(p))
  <1>1. CASE p.id \notin canonical \/ p.value["imageUrl"] = Default
    <2>1. Repaired(p) = p
      BY <1>1 DEF Repaired
    <2>2. QED BY <1>1, <2>1
  <1>2. CASE ~(p.id \notin canonical \/ p.value["imageUrl"] = Default)
    <2> DEFINE q == Repaired(p)
               images == IF p.images = <<>> THEN <<Default>> ELSE [p.images EXCEPT ![1] = Default]
    <2>1. q = [p EXCEPT !.value["imageUrl"] = Default, !.images = images]
      BY <1>2 DEF Repaired
    <2>2. p.images \in Seq(Value) /\ Default \in Value /\ "imageUrl" \in Fields
      BY ValueFacts, FieldFacts DEF Product
    <2>3. images \in Seq(Value) /\ ToSet(images) \subseteq ToSet(p.images) \cup {Default}
      <3>1. CASE p.images = <<>>
        <4>1. images = <<Default>>
          BY <3>1
        <4>2. QED BY <4>1, <2>2 DEF ToSet
      <3>2. CASE p.images # <<>>
        <4>1. images = [p.images EXCEPT ![1] = Default] /\ 1 \in DOMAIN p.images
          BY <3>2, <2>2
        <4>2. images \in Seq(Value) /\ DOMAIN images = DOMAIN p.images
          BY <4>1, <2>2
        <4>3. \A i \in DOMAIN images : images[i] \in ToSet(p.images) \cup {Default}
          BY <4>1, <4>2 DEF ToSet
        <4>4. QED BY <4>2, <4>3 DEF ToSet
      <3>3. QED BY <3>1, <3>2
    <2> HIDE DEF images
    <2>4. /\ q.id = p.id /\ q.sort = p.sort /\ q.locks = p.locks /\ q.kept = p.kept
          /\ q.images = images /\ q.value = [p.value EXCEPT !["imageUrl"] = Default]
      BY <2>1 DEF Product
    <2>5. q.value \in Listing /\ q.value["imageUrl"] = Default
          /\ \A f \in Fields \ {"imageUrl"} : q.value[f] = p.value[f]
      BY <2>2, <2>4 DEF Product, Listing
    <2>6. q \in Product
      BY <2>1, <2>2, <2>3, <2>5, <2>4 DEF Product
    <2>7. Photos(q) \subseteq Photos(p) \cup {Default}
      BY <2>3, <2>4, <2>5 DEF Photos
    <2>8. ASSUME Keeps(p) PROVE Keeps(q)
      <3>1. \A f \in DOMAIN p.kept : f \in Keys
        BY DEF Product, Anything
      <3>2. QED BY <1>2, <2>4, <2>5, <2>8, <3>1 DEF Keeps, Keys
    <2> HIDE DEF q
    <2>9. QED BY <1>2, <2>4, <2>5, <2>6, <2>7, <2>8 DEF q
  <1>3. QED BY <1>1, <1>2

LEMMA OverFacts ==
  ASSUME NEW new \in Anything, NEW old \in Anything
  PROVE  /\ Over(new, old) \in Anything /\ DOMAIN Over(new, old) = DOMAIN new \cup DOMAIN old
         /\ \A f \in DOMAIN new : Over(new, old)[f] = new[f]
         /\ \A f \in DOMAIN old \ DOMAIN new : Over(new, old)[f] = old[f]
  <1>1. PICK D \in SUBSET Keys : new \in [D -> Value \cup Seq(Value)]
    BY DEF Anything
  <1>2. PICK E \in SUBSET Keys : old \in [E -> Value \cup Seq(Value)]
    BY DEF Anything
  <1>3. Over(new, old) \in [D \cup E -> Value \cup Seq(Value)]
    BY <1>1, <1>2 DEF Over
  <1>4. QED BY <1>1, <1>2, <1>3 DEF Over, Anything

\* What may be written: values, and a list of images.
Writable(new) ==
  /\ new \in Anything
  /\ \A f \in DOMAIN new \cap Fields : new[f] \in Value
  /\ "images" \in DOMAIN new => new["images"] \in Seq(Value)

LEMMA WrittenFacts ==
  ASSUME NEW p \in Product, NEW new, Writable(new), NEW locked \in SUBSET Keys
  PROVE  LET q == Written(p, new, locked) IN
         /\ q \in Product /\ q.id = p.id /\ q.sort = p.sort
         /\ q.images = IF "images" \in DOMAIN new THEN new["images"] ELSE p.images
         /\ \A f \in Fields : q.value[f] = IF f \in DOMAIN new THEN new[f] ELSE p.value[f]
         /\ Keeps(p) /\ DOMAIN new \subseteq locked \cup {"category"}
              \cup (IF "imageUrl" \in locked THEN {"images"} ELSE {}) => Keeps(q)
  <1> DEFINE q == Written(p, new, locked)
             locks == ExpandSyncOverrides(p.locks \cup locked)
             images == IF "images" \in DOMAIN new THEN new["images"] ELSE p.images
             value == [f \in Fields |-> IF f \in DOMAIN new THEN new[f] ELSE p.value[f]]
  <1>1. /\ p.id \in Ids /\ p.value \in Listing /\ p.images \in Seq(Value) /\ p.sort \in 0..2
        /\ p.locks \in SUBSET Keys /\ p.kept \in Anything
    BY DEF Product
  <1>2. /\ locks \in SUBSET Keys /\ p.locks \cup locked \subseteq locks
        /\ "imageUrl" \in locked => "images" \in locks
    <2>1. p.locks \cup locked \in SUBSET Keys
      BY <1>1
    <2>2. QED BY <2>1, LockFacts
  <1>3. images \in Seq(Value)
    BY <1>1 DEF Writable
  <1>4. value \in Listing
    BY <1>1 DEF Writable, Listing
  <1>5. /\ Over(new, p.kept) \in Anything /\ DOMAIN Over(new, p.kept) = DOMAIN new \cup DOMAIN p.kept
        /\ \A f \in DOMAIN new : Over(new, p.kept)[f] = new[f]
        /\ \A f \in DOMAIN p.kept \ DOMAIN new : Over(new, p.kept)[f] = p.kept[f]
    BY <1>1, OverFacts DEF Writable
  <1>6. q = [p EXCEPT !.locks = locks, !.kept = Over(new, p.kept), !.images = images, !.value = value]
    BY DEF Written
  <1>7. \A f \in DOMAIN new \cup DOMAIN p.kept : f \in Keys
    BY <1>1 DEF Writable, Anything
  <1>8. \A f \in Fields : value[f] = IF f \in DOMAIN new THEN new[f] ELSE p.value[f]
    OBVIOUS
  <1> HIDE DEF q, locks, value
  <1>9. /\ q.id = p.id /\ q.sort = p.sort /\ q.locks = locks /\ q.kept = Over(new, p.kept)
        /\ q.images = images /\ q.value = value
    BY <1>6 DEF Product
  <1>10. q \in Product
    BY <1>1, <1>2, <1>3, <1>4, <1>5, <1>6 DEF Product
  <1>11. ASSUME Keeps(p), DOMAIN new \subseteq locked \cup {"category"}
                 \cup (IF "imageUrl" \in locked THEN {"images"} ELSE {})
         PROVE  Keeps(q)
    <2>1. DOMAIN q.kept \subseteq q.locks \cup {"category"}
      BY <1>2, <1>5, <1>9, <1>11 DEF Keeps
    <2>2. ASSUME NEW f \in DOMAIN q.kept
          PROVE  \/ q.id \in canonical /\ f \in {"imageUrl", "images"}
                 \/ q.kept[f] = IF f = "images" THEN q.images ELSE q.value[f]
      <3>1. f \in Keys /\ f \in DOMAIN new \cup DOMAIN p.kept
        BY <1>5, <1>7, <1>9
      <3>2. CASE f \in DOMAIN new
        BY <3>1, <3>2, <1>5, <1>8, <1>9 DEF Keys
      <3>3. CASE f \notin DOMAIN new
        BY <3>1, <3>3, <1>5, <1>8, <1>9, <1>11 DEF Keys, Keeps
      <3>4. QED BY <3>2, <3>3
    <2>3. QED BY <2>1, <2>2 DEF Keeps
  <1>12. QED BY <1>8, <1>9, <1>10, <1>11 DEF q

\* A record that is created: nothing in it is locked, and nobody wrote it.
LEMMA RecordFacts ==
  ASSUME NEW id \in Ids, NEW value \in Listing, NEW images \in Seq(Value), NEW sort \in 0..2
  PROVE  Record(id, value, images, sort) \in Product /\ Keeps(Record(id, value, images, sort))
  <1> DEFINE r == Record(id, value, images, sort)
  <1>1. <<>> \in Anything /\ DOMAIN <<>> = {}
    <2>1. <<>> \in [{} -> Value \cup Seq(Value)]
      OBVIOUS
    <2>2. {} \in SUBSET Keys
      OBVIOUS
    <2>3. QED BY <2>1, <2>2 DEF Anything
  <1>2. r \in Product
    BY <1>1 DEF Record, Product
  <1>3. r.kept = <<>>
    BY DEF Record
  <1> HIDE DEF r
  <1>4. Keeps(r)
    BY <1>1, <1>3 DEF Keeps
  <1>5. QED BY <1>2, <1>4 DEF r

\* A sync takes what is not locked, so what somebody wrote stays.
LEMMA MergeFacts ==
  ASSUME NEW p \in Product, NEW s \in Listing, NEW mode \in {PricingMedia, Full}
  PROVE  LET q == MergeSites(p, s, mode) IN
         /\ q \in Product /\ q.id = p.id /\ q.sort = p.sort
         /\ Photos(q) \subseteq Photos(p) \cup {s["imageUrl"]}
         /\ Keeps(p) => Keeps(q)
  <1> DEFINE q == MergeSites(p, s, mode)
             taken == (mode \ p.locks) \cup IF mode = Full THEN {"imageScale"} ELSE {}
             images == IF "images" \in p.locks THEN p.images ELSE <<s["imageUrl"]>>
             value == [f \in Fields |-> IF f \in taken THEN s[f] ELSE p.value[f]]
             kept == IF mode = Full THEN [f \in DOMAIN p.kept \ TakenByFull |-> p.kept[f]] ELSE p.kept
  <1>1. /\ p.id \in Ids /\ p.value \in Listing /\ p.images \in Seq(Value) /\ p.sort \in 0..2
        /\ p.locks \in SUBSET Keys /\ p.kept \in Anything
    BY DEF Product
  <1>2. s["imageUrl"] \in Value /\ "imageUrl" \in Fields
    BY FieldFacts DEF Listing
  <1>3. images \in Seq(Value) /\ ToSet(images) \subseteq ToSet(p.images) \cup {s["imageUrl"]}
    <2>1. CASE "images" \in p.locks
      BY <2>1, <1>1
    <2>2. CASE "images" \notin p.locks
      <3>1. images = <<s["imageUrl"]>>
        BY <2>2
      <3>2. <<s["imageUrl"]>> \in Seq(Value)
        BY <1>2
      <3>3. QED BY <3>1, <3>2, ToSetOne
    <2>3. QED BY <2>1, <2>2
  <1>4. value \in Listing
    BY <1>1 DEF Listing
  <1>5. /\ kept \in Anything /\ DOMAIN kept \subseteq DOMAIN p.kept
        /\ \A f \in DOMAIN kept : kept[f] = p.kept[f]
        /\ mode = Full => DOMAIN kept \cap TakenByFull = {}
    <2>1. PICK D \in SUBSET Keys : p.kept \in [D -> Value \cup Seq(Value)]
      BY <1>1 DEF Anything
    <2>2. CASE mode = Full
      <3>1. kept = [f \in D \ TakenByFull |-> p.kept[f]]
        BY <2>1, <2>2
      <3>2. D \ TakenByFull \in SUBSET Keys
        BY <2>1
      <3>3. kept \in [D \ TakenByFull -> Value \cup Seq(Value)]
        BY <2>1, <3>1
      <3>4. QED BY <2>1, <3>1, <3>2, <3>3 DEF Anything
    <2>3. CASE mode # Full
      BY <2>3, <1>1
    <2>4. QED BY <2>2, <2>3
  <1>6. q = [p EXCEPT !.value = value, !.images = images, !.kept = kept]
    BY DEF MergeSites
  <1>7. \A f \in Fields : value[f] = IF f \in taken THEN s[f] ELSE p.value[f]
    OBVIOUS
  <1>8. \A f \in p.locks \cup {"category"} :
          ~(mode = Full /\ f \in TakenByFull) => f \notin taken
    BY FieldFacts DEF TakenByFull
  <1>9. "images" \in p.locks => images = p.images
    OBVIOUS
  <1> HIDE DEF q, value, images, kept, taken
  <1>10. /\ q.id = p.id /\ q.sort = p.sort /\ q.locks = p.locks
         /\ q.value = value /\ q.images = images /\ q.kept = kept
    BY <1>6 DEF Product
  <1>11. q \in Product
    BY <1>1, <1>3, <1>4, <1>5, <1>6 DEF Product
  <1>12. Photos(q) \subseteq Photos(p) \cup {s["imageUrl"]}
    BY <1>2, <1>3, <1>7, <1>10 DEF Photos
  <1>13. ASSUME Keeps(p) PROVE Keeps(q)
    <2>1. DOMAIN q.kept \subseteq q.locks \cup {"category"}
      BY <1>5, <1>10, <1>13 DEF Keeps
    <2>2. ASSUME NEW f \in DOMAIN q.kept
          PROVE  \/ q.id \in canonical /\ f \in {"imageUrl", "images"}
                 \/ q.kept[f] = IF f = "images" THEN q.images ELSE q.value[f]
      <3>1. f \in DOMAIN p.kept /\ f \in Keys /\ q.kept[f] = p.kept[f] /\ f \in p.locks \cup {"category"}
        BY <1>1, <1>5, <1>10, <1>13 DEF Keeps, Anything
      <3>2. f \notin taken
        BY <1>5, <1>8, <1>10, <3>1
      <3>3. CASE f = "images"
        BY <3>1, <3>3, <1>9, <1>10, <1>13 DEF Keeps
      <3>4. CASE f # "images"
        <4>1. f \in Fields
          BY <3>1, <3>4 DEF Keys
        <4>2. QED BY <4>1, <3>1, <3>2, <3>4, <1>7, <1>10, <1>13 DEF Keeps
      <3>5. QED BY <3>3, <3>4
    <2>3. QED BY <2>1, <2>2 DEF Keeps
  <1>14. QED BY <1>10, <1>11, <1>12, <1>13 DEF q

\* The gallery has the new photo, and no longer the one it replaces.
LEMMA GalleryFacts ==
  ASSUME NEW p \in Product, NEW new \in Value
  PROVE  /\ Gallery(p, new) \in Seq(Value)
         /\ ToSet(Gallery(p, new)) \subseteq {new} \cup (ToSet(p.images) \ {p.value["imageUrl"]})
  <1> DEFINE I == {i \in DOMAIN p.images : p.images[i] # p.value["imageUrl"]}
             t == At(p.images, I)
  <1>1. p.images \in Seq(Value)
    BY DEF Product
  <1>2. t \in Seq(Value) /\ Moves(t, p.images, I)
    <2>1. I \in SUBSET (DOMAIN p.images)
      OBVIOUS
    <2> HIDE DEF I
    <2>2. QED BY <1>1, <2>1, AtMoves
  <1>3. ToSet(t) \subseteq ToSet(p.images) \ {p.value["imageUrl"]}
    <2>1. PICK o \in [DOMAIN t -> I] : \A n \in DOMAIN t : t[n] = p.images[o[n]]
      BY <1>2 DEF Moves
    <2>2. \A i \in I : p.images[i] \in ToSet(p.images) \ {p.value["imageUrl"]}
      BY DEF ToSet
    <2>3. \A n \in DOMAIN t : t[n] \in ToSet(p.images) \ {p.value["imageUrl"]}
      <3> HIDE DEF t, I
      <3>1. QED BY <2>1, <2>2
    <2>4. QED BY <2>3 DEF ToSet
  <1>4. Gallery(p, new) = <<new>> \o t
    BY DEF Gallery
  <1> HIDE DEF t
  <1>5. /\ <<new>> \o t \in Seq(Value)
        /\ \A n \in DOMAIN (<<new>> \o t) : (<<new>> \o t)[n] = new \/ (<<new>> \o t)[n] \in ToSet(t)
    <2>1. <<new>> \in Seq(Value) /\ Len(<<new>>) = 1 /\ <<new>>[1] = new
      OBVIOUS
    <2>2. /\ <<new>> \o t \in Seq(Value) /\ DOMAIN (<<new>> \o t) = 1..(1 + Len(t)) /\ Len(t) \in Nat
          /\ \A n \in 1..(1 + Len(t)) : (<<new>> \o t)[n] = IF n <= 1 THEN <<new>>[n] ELSE t[n - 1]
      BY <1>2, <2>1, ConcatProperties, LenProperties
    <2>3. ASSUME NEW n \in 1..(1 + Len(t))
          PROVE  (<<new>> \o t)[n] = new \/ (<<new>> \o t)[n] \in ToSet(t)
      <3>1. n = 1 \/ n - 1 \in 1..Len(t)
        BY <2>2
      <3>2. DOMAIN t = 1..Len(t)
        BY <1>2
      <3>3. \A m \in DOMAIN t : t[m] \in ToSet(t)
        BY DEF ToSet
      <3>4. QED BY <2>1, <2>2, <3>1, <3>2, <3>3
    <2>4. QED BY <2>2, <2>3
  <1>6. QED BY <1>3, <1>4, <1>5 DEF ToSet

---------------------------------------------------------------------------
(* The file *)

Desk == {Idle} \cup [doing : {"edit"}, id : Ids, copy : Listing]
               \cup [doing : {"sync"}, id : {NoId}, copy : [Ids -> Listing]]

TypeInv ==
  /\ canonical \subseteq Ids
  /\ products \in Seq(Product)
  /\ sites \in [Ids -> Listing]
  /\ files \subseteq uploads /\ uploads \subseteq Value
  /\ featured \subseteq Ids /\ popular \subseteq Ids /\ excused \subseteq Ids
  /\ desk \in [Admins -> Desk]
  /\ changes \in 0..MaxChanges

LEMMA DeskFacts ==
  ASSUME TypeInv, NEW a \in Admins
  PROVE  /\ desk[a].doing = "edit" => desk[a].id \in Ids /\ desk[a].copy \in Listing
         /\ desk[a].doing = "sync" => desk[a].copy \in [Ids -> Listing]
         /\ desk[a] = Idle => desk[a].doing = "nothing"
  BY DEF TypeInv, Desk, Idle

LEMMA AllFacts ==
  ASSUME TypeInv
  PROVE  /\ All \in Seq(Product) /\ DOMAIN All = DOMAIN products
         /\ \A i \in DOMAIN products : products[i] \in Product /\ All[i] = Repaired(products[i])
         /\ \A i \in DOMAIN products : All[i] \in Product /\ All[i].id = products[i].id
         /\ IdsOf(All) = IdsOf(products)
  <1>1. products \in Seq(Product) /\ DOMAIN products = 1..Len(products) /\ Len(products) \in Nat
    BY DEF TypeInv
  <1>2. \A i \in DOMAIN products : products[i] \in Product
    BY <1>1
  <1>3. \A i \in DOMAIN products : Repaired(products[i]) \in Product /\ Repaired(products[i]).id = products[i].id
    BY <1>2, RepairedFacts
  <1>4. All = [i \in DOMAIN products |-> Repaired(products[i])]
    BY DEF All
  <1>5. All \in [1..Len(products) -> Product]
    BY <1>1, <1>3, <1>4
  <1>6. All \in Seq(Product)
    BY <1>1, <1>5, SeqDef
  <1>7. DOMAIN All = DOMAIN products /\ \A i \in DOMAIN products : All[i] = Repaired(products[i])
    BY <1>4
  <1>8. IdsOf(All) = IdsOf(products)
    BY <1>3, <1>7 DEF IdsOf
  <1>9. QED BY <1>2, <1>3, <1>6, <1>7, <1>8

\* The first record with an id, if there is one.
LEMMA FirstFacts ==
  ASSUME NEW s \in Seq(Product), NEW id \in IdsOf(s)
  PROVE  /\ FirstIn(s, id) \in DOMAIN s /\ s[FirstIn(s, id)].id = id
  <1> DEFINE S == {i \in DOMAIN s : s[i].id = id}
  <1>1. DOMAIN s = 1..Len(s) /\ Len(s) \in Nat
    OBVIOUS
  <1>2. S \in SUBSET Nat /\ S # {}
    BY <1>1 DEF IdsOf
  <1>3. PICK n \in S : \A m \in S : n <= m
    BY <1>2, Least
  <1>4. n \in DOMAIN s /\ s[n].id = id /\ \A j \in DOMAIN s : s[j].id = id => n <= j
    BY <1>3
  <1>5. QED BY <1>4 DEF FirstIn

\* One record is written, and all are repaired.
LEMMA OneWritten ==
  ASSUME TypeInv, NEW i \in DOMAIN products, NEW q \in Product, products' = [All EXCEPT ![i] = q]
  PROVE  /\ products' \in Seq(Product) /\ DOMAIN products' = DOMAIN products
         /\ products'[i] = q
         /\ \A j \in DOMAIN products : j # i => products'[j] = Repaired(products[j])
  <1>1. All \in Seq(Product) /\ i \in 1..Len(All) /\ DOMAIN All = DOMAIN products /\ DOMAIN All = 1..Len(All)
    BY AllFacts, LenProperties
  <1>2. /\ products' \in Seq(Product) /\ Len(products') = Len(All)
        /\ \A j \in 1..Len(All) : products'[j] = IF j = i THEN q ELSE All[j]
    BY <1>1, ExceptSeq
  <1>3. DOMAIN products' = DOMAIN products
    BY <1>1, <1>2, LenProperties
  <1>4. QED BY <1>1, <1>2, <1>3, AllFacts

---------------------------------------------------------------------------
(* Photos *)

\* A photo is held by an id: a record with the id shows it, or a form has it.
Holds(u, id) ==
  \/ \E i \in DOMAIN products : products[i].id = id /\ u \in Photos(products[i])
  \/ \E a \in Admins : desk[a].doing = "edit" /\ desk[a].id = id /\ desk[a].copy["imageUrl"] = u

OneOwner == \A u \in uploads, x, y \in Ids : Holds(u, x) /\ Holds(u, y) => x = y

Apart ==
  \A i, j \in DOMAIN products :
    i # j /\ products[i].id \notin excused /\ products[j].id \notin excused =>
      \A u \in uploads : ~(u \in Photos(products[i]) /\ u \in Photos(products[j]))

OnDisk ==
  \A i \in DOMAIN products :
    products[i].id \in excused \/ uploads \cap Photos(products[i]) \subseteq files

\* What is published or uploaded next has a new name.
Known == 0..(changes + 3)
Stamps ==
  /\ uploads \subseteq Known \ {Missing, Default, Typed}
  /\ \A i \in DOMAIN products : Photos(products[i]) \subseteq Known
  /\ \A id \in Ids : sites[id]["imageUrl"] \in Known \ uploads
  /\ \A a \in Admins : desk[a].doing = "edit" => desk[a].copy["imageUrl"] \in Known
  /\ \A a \in Admins : desk[a].doing = "sync" =>
       \A id \in Ids : desk[a].copy[id]["imageUrl"] \in Known \ uploads

PhotoInv == Stamps /\ OneOwner /\ Apart /\ OnDisk

\* What a step may do to the photos: a record comes from the record o[i], or is new (0); the
\* record k (if not 0) gets the photo that is uploaded and gives up the files R; a form that is
\* out of date may bring back a photo, and then its id is excused.
PhotoStep(o, k, R) ==
  /\ o \in [DOMAIN products' -> {0} \cup DOMAIN products] /\ k \in {0} \cup DOMAIN products
  /\ \A i, j \in DOMAIN products' : o[i] = o[j] /\ o[i] # 0 => i = j
  /\ \A i \in DOMAIN products' : o[i] # 0 => products'[i].id = products[o[i]].id
  /\ \A i \in DOMAIN products' : \A u \in Photos(products'[i]) \cap uploads' :
       \/ u = Stamp /\ k # 0 /\ o[i] = k
       \/ o[i] # 0 /\ u \in Photos(products[o[i]]) /\ (o[i] = k => u \notin R)
       \/ o[i] # 0 /\ Holds(u, products[o[i]].id) /\ products[o[i]].id \in excused'
  /\ \A a \in Admins : desk'[a].doing = "edit" /\ desk'[a].copy["imageUrl"] \in uploads' =>
       \/ Holds(desk'[a].copy["imageUrl"], desk'[a].id)
       \/ desk'[a].copy["imageUrl"] = Stamp /\ k # 0 /\ desk'[a].id = products[k].id
  /\ uploads' = uploads \/ uploads' = uploads \cup {Stamp}
  /\ (files \ R) \cup (uploads' \ uploads) \subseteq files'
  /\ \A u \in R \cap uploads : k # 0 /\ u \in Photos(products[k])
  /\ excused \subseteq excused'

LEMMA PhotosKept ==
  ASSUME TypeInv, TypeInv', PhotoInv, NEW o, NEW k, NEW R, PhotoStep(o, k, R)
  PROVE  OneOwner' /\ Apart' /\ OnDisk'
  <1>1. Stamp \notin Known /\ Stamp \notin uploads
    BY DEF TypeInv, PhotoInv, Stamps, Known, Stamp
  <1>2. \A i \in DOMAIN products : products[i].id \in Ids /\ Stamp \notin Photos(products[i])
    <2>1. \A i \in DOMAIN products : products[i] \in Product
      BY DEF TypeInv
    <2>2. QED BY <2>1, <1>1 DEF PhotoInv, Stamps, Product
  <1>3. \A id : ~Holds(Stamp, id)
    BY <1>1, <1>2 DEF Holds, PhotoInv, Stamps
  <1>4. \A u \in uploads' : u # Stamp => u \in uploads
    BY DEF PhotoStep
  <1>5. ASSUME NEW u \in uploads', NEW x, Holds(u, x)'
        PROVE  \/ u # Stamp /\ Holds(u, x)
               \/ u = Stamp /\ k # 0 /\ x = products[k].id
    <2>1. ASSUME NEW i \in DOMAIN products', products'[i].id = x, u \in Photos(products'[i])
          PROVE  \/ u # Stamp /\ Holds(u, x)
                 \/ u = Stamp /\ k # 0 /\ x = products[k].id
      <3>1. CASE u = Stamp /\ k # 0 /\ o[i] = k
        BY <3>1, <2>1 DEF PhotoStep
      <3>2. CASE o[i] # 0 /\ u \in Photos(products[o[i]])
        <4>1. o[i] \in DOMAIN products /\ products[o[i]].id = x
          BY <3>2, <2>1 DEF PhotoStep
        <4>2. QED BY <4>1, <3>2, <1>2 DEF Holds
      <3>3. CASE o[i] # 0 /\ Holds(u, products[o[i]].id)
        <4>1. products[o[i]].id = x
          BY <3>3, <2>1 DEF PhotoStep
        <4>2. QED BY <4>1, <3>3, <1>3
      <3>4. QED BY <3>1, <3>2, <3>3, <2>1 DEF PhotoStep
    <2>2. ASSUME NEW a \in Admins, desk'[a].doing = "edit", desk'[a].id = x, desk'[a].copy["imageUrl"] = u
          PROVE  \/ u # Stamp /\ Holds(u, x)
                 \/ u = Stamp /\ k # 0 /\ x = products[k].id
      BY <2>2, <1>3 DEF PhotoStep
    <2>3. QED BY <1>5, <2>1, <2>2 DEF Holds
  <1>6. OneOwner'
    <2>1. SUFFICES ASSUME NEW u \in uploads', NEW x \in Ids, NEW y \in Ids, Holds(u, x)', Holds(u, y)'
                   PROVE  x = y
      BY DEF OneOwner
    <2>2. CASE u = Stamp
      BY <2>1, <2>2, <1>5
    <2>3. CASE u # Stamp
      <3>1. u \in uploads /\ Holds(u, x) /\ Holds(u, y)
        BY <2>1, <2>3, <1>4, <1>5
      <3>2. QED BY <3>1 DEF PhotoInv, OneOwner
    <2>4. QED BY <2>2, <2>3
  \* Where a photo of a record that is not excused was before.
  <1>7. ASSUME NEW i \in DOMAIN products', products'[i].id \notin excused', NEW u \in uploads',
               u \in Photos(products'[i])
        PROVE  \/ u = Stamp /\ k # 0 /\ o[i] = k
               \/ /\ u # Stamp /\ u \in uploads /\ o[i] \in DOMAIN products /\ o[i] # 0
                  /\ products[o[i]].id = products'[i].id /\ products[o[i]].id \notin excused
                  /\ u \in Photos(products[o[i]]) /\ (o[i] = k => u \notin R)
    <2>1. CASE u = Stamp /\ k # 0 /\ o[i] = k
      BY <2>1
    <2>2. CASE o[i] # 0 /\ u \in Photos(products[o[i]]) /\ (o[i] = k => u \notin R)
      <3>1. o[i] \in DOMAIN products /\ products[o[i]].id = products'[i].id
        BY <2>2 DEF PhotoStep
      <3>2. u # Stamp /\ u \in uploads
        BY <2>2, <3>1, <1>2, <1>4
      <3>3. products[o[i]].id \notin excused
        BY <3>1, <1>7 DEF PhotoStep
      <3>4. QED BY <2>2, <3>1, <3>2, <3>3
    <2>3. CASE o[i] # 0 /\ products[o[i]].id \in excused'
      BY <2>3, <1>7 DEF PhotoStep
    <2>4. QED BY <1>7, <2>1, <2>2, <2>3 DEF PhotoStep
  <1>8. Apart'
    <2>1. SUFFICES ASSUME NEW i \in DOMAIN products', NEW j \in DOMAIN products', i # j,
                          products'[i].id \notin excused', products'[j].id \notin excused',
                          NEW u \in uploads', u \in Photos(products'[i]), u \in Photos(products'[j])
                   PROVE  FALSE
      BY DEF Apart, Photos
    <2>2. CASE u = Stamp
      <3>1. k # 0 /\ o[i] = k /\ o[j] = k
        BY <2>1, <2>2, <1>7
      <3>2. QED BY <2>1, <3>1 DEF PhotoStep
    <2>3. CASE u # Stamp
      <3>1. /\ u \in uploads /\ o[i] \in DOMAIN products /\ o[j] \in DOMAIN products /\ o[i] # 0
            /\ products[o[i]].id \notin excused /\ products[o[j]].id \notin excused
            /\ u \in Photos(products[o[i]]) /\ u \in Photos(products[o[j]])
        BY <2>1, <2>3, <1>7
      <3>2. o[i] = o[j]
        BY <3>1 DEF PhotoInv, Apart
      <3>3. QED BY <2>1, <3>1, <3>2 DEF PhotoStep
    <2>4. QED BY <2>2, <2>3
  <1>9. OnDisk'
    <2>1. SUFFICES ASSUME NEW i \in DOMAIN products', products'[i].id \notin excused',
                          NEW u \in uploads', u \in Photos(products'[i])
                   PROVE  u \in files'
      BY DEF OnDisk, Photos
    <2>2. CASE u = Stamp
      BY <2>1, <2>2, <1>1 DEF PhotoStep
    <2>3. CASE u # Stamp
      <3>1. /\ u \in uploads /\ o[i] \in DOMAIN products /\ o[i] # 0
            /\ products[o[i]].id \notin excused
            /\ u \in Photos(products[o[i]]) /\ (o[i] = k => u \notin R)
        BY <2>1, <2>3, <1>7
      <3>2. u \in files
        BY <3>1 DEF PhotoInv, OnDisk
      <3>3. u \notin R
        <4>1. SUFFICES ASSUME u \in R PROVE FALSE
          OBVIOUS
        <4>2. k \in DOMAIN products /\ u \in Photos(products[k]) /\ o[i] # k
          BY <3>1, <4>1 DEF PhotoStep
        <4>3. Holds(u, products[k].id) /\ Holds(u, products[o[i]].id)
          BY <3>1, <4>2 DEF Holds
        <4>4. products[k].id = products[o[i]].id
          BY <3>1, <4>2, <4>3, <1>2 DEF PhotoInv, OneOwner
        <4>5. QED BY <3>1, <4>2, <4>4 DEF PhotoInv, Apart
      <3>4. QED BY <3>2, <3>3 DEF PhotoStep
    <2>4. QED BY <2>2, <2>3
  <1>10. QED BY <1>6, <1>8, <1>9

---------------------------------------------------------------------------
(* What the records of the file keep, and what every step keeps *)

KeepsInv == \A i \in DOMAIN products : Keeps(products[i])
Listed == featured \cup popular \subseteq IdsOf(products)
CatalogInv == TypeInv /\ KeepsInv /\ PhotoInv /\ Listed

\* Every record stays at its place.
InPlace ==
  /\ products' \in Seq(Product) /\ DOMAIN products' = DOMAIN products
  /\ \A j \in DOMAIN products : products'[j].id = products[j].id /\ Keeps(products'[j])

\* Only a fixed photo comes back.
Calm(j) == Photos(products'[j]) \subseteq Photos(products[j]) \cup {Default}

LEMMA AllInPlace ==
  ASSUME CatalogInv, products' = All
  PROVE  InPlace /\ \A j \in DOMAIN products : Calm(j)
  <1>1. TypeInv /\ KeepsInv
    BY DEF CatalogInv
  <1>2. \A j \in DOMAIN products : products[j] \in Product /\ Keeps(products[j]) /\ All[j] = Repaired(products[j])
    BY <1>1, AllFacts DEF KeepsInv
  <1>3. All \in Seq(Product) /\ DOMAIN All = DOMAIN products
    BY <1>1, AllFacts
  <1>4. ASSUME NEW j \in DOMAIN products
        PROVE  /\ All[j].id = products[j].id /\ Keeps(All[j])
               /\ Photos(All[j]) \subseteq Photos(products[j]) \cup {Default}
    BY <1>2, RepairedFacts
  <1>5. QED BY <1>3, <1>4, Zenon DEF InPlace, Calm

LEMMA SameInPlace ==
  ASSUME CatalogInv, products' = products
  PROVE  InPlace /\ \A j \in DOMAIN products : Calm(j)
  <1>1. products \in Seq(Product) /\ \A j \in DOMAIN products : Keeps(products[j])
    BY DEF CatalogInv, TypeInv, KeepsInv
  <1>2. \A j \in DOMAIN products : Photos(products[j]) \subseteq Photos(products[j]) \cup {Default}
    OBVIOUS
  <1>3. QED BY <1>1, <1>2, Zenon DEF InPlace, Calm

LEMMA OneInPlace ==
  ASSUME CatalogInv, NEW i \in DOMAIN products, NEW q \in Product, q.id = products[i].id, Keeps(q),
         products' = [All EXCEPT ![i] = q]
  PROVE  InPlace /\ products'[i] = q /\ \A j \in DOMAIN products : j # i => Calm(j)
  <1>1. TypeInv /\ KeepsInv
    BY DEF CatalogInv
  <1>2. /\ products' \in Seq(Product) /\ DOMAIN products' = DOMAIN products
        /\ products'[i] = q
        /\ \A j \in DOMAIN products : j # i => products'[j] = Repaired(products[j])
    BY <1>1, OneWritten
  <1>3. \A j \in DOMAIN products : products[j] \in Product /\ Keeps(products[j])
    BY <1>1, AllFacts DEF KeepsInv
  <1>4. ASSUME NEW j \in DOMAIN products, j # i
        PROVE  /\ products'[j].id = products[j].id /\ Keeps(products'[j])
               /\ Photos(products'[j]) \subseteq Photos(products[j]) \cup {Default}
    <2>1. products'[j] = Repaired(products[j])
      BY <1>2, <1>4
    <2>2. QED BY <2>1, <1>3, RepairedFacts
  <1>5. QED BY <1>2, <1>4 DEF InPlace, Calm

\* The records keep what they kept, and the lists of the home page name them.
LEMMA InPlaceKept ==
  ASSUME CatalogInv, InPlace, canonical' = canonical
  PROVE  KeepsInv' /\ IdsOf(products)' = IdsOf(products)
  <1>2. KeepsInv'
    <2>1. \A j \in DOMAIN products' : Keeps(products'[j])
      BY DEF InPlace
    <2>2. QED BY <2>1 DEF KeepsInv, Keeps
  <1>3. IdsOf(products') = IdsOf(products)
    BY DEF InPlace, IdsOf
  <1>4. QED BY <1>2, <1>3 DEF IdsOf

\* The photos of a step that leaves every record at its place.
LEMMA InPlacePhotos ==
  ASSUME CatalogInv, InPlace, NEW k \in {0} \cup DOMAIN products, NEW R,
         \A j \in DOMAIN products : \A u \in Photos(products'[j]) \cap uploads' :
           \/ u = Stamp /\ k # 0 /\ j = k
           \/ u \in Photos(products[j]) /\ (j = k => u \notin R)
           \/ Holds(u, products[j].id) /\ products[j].id \in excused',
         \A a \in Admins : desk'[a].doing = "edit" /\ desk'[a].copy["imageUrl"] \in uploads' =>
           \/ Holds(desk'[a].copy["imageUrl"], desk'[a].id)
           \/ desk'[a].copy["imageUrl"] = Stamp /\ k # 0 /\ desk'[a].id = products[k].id,
         uploads' = uploads \/ uploads' = uploads \cup {Stamp},
         (files \ R) \cup (uploads' \ uploads) \subseteq files',
         \A u \in R \cap uploads : k # 0 /\ u \in Photos(products[k]),
         excused \subseteq excused'
  PROVE  \E o : PhotoStep(o, k, R)
  <1> DEFINE o == [j \in DOMAIN products |-> j]
  <1>1. DOMAIN products = 1..Len(products) /\ Len(products) \in Nat
    BY DEF CatalogInv, TypeInv
  <1>2. /\ o \in [DOMAIN products -> {0} \cup DOMAIN products]
        /\ \A j \in DOMAIN products : o[j] = j /\ o[j] # 0
    BY <1>1
  <1>3. DOMAIN products' = DOMAIN products /\ \A j \in DOMAIN products : products'[j].id = products[j].id
    BY DEF InPlace
  <1> HIDE DEF o
  <1>4. /\ o \in [DOMAIN products' -> {0} \cup DOMAIN products]
        /\ \A i, j \in DOMAIN products' : o[i] = o[j] /\ o[i] # 0 => i = j
        /\ \A i \in DOMAIN products' : o[i] # 0 => products'[i].id = products[o[i]].id
    BY <1>2, <1>3
  <1>5. \A i \in DOMAIN products' : \A u \in Photos(products'[i]) \cap uploads' :
          \/ u = Stamp /\ k # 0 /\ o[i] = k
          \/ o[i] # 0 /\ u \in Photos(products[o[i]]) /\ (o[i] = k => u \notin R)
          \/ o[i] # 0 /\ Holds(u, products[o[i]].id) /\ products[o[i]].id \in excused'
    BY <1>2, <1>3
  <1>6. PhotoStep(o, k, R)
    BY <1>4, <1>5 DEF PhotoStep
  <1>7. QED BY <1>6

\* What is new has a new name.
LEMMA StampsKept ==
  ASSUME TypeInv, Stamps, changes' = changes \/ changes' = changes + 1,
         \/ uploads' = uploads
         \/ uploads' = uploads \cup {Stamp} /\ changes' = changes + 1 /\ sites' = sites,
         \A i \in DOMAIN products' : Photos(products'[i]) \subseteq Known',
         \A id \in Ids :
           \/ sites'[id]["imageUrl"] \in Known \ uploads
           \/ sites'[id]["imageUrl"] = Stamp /\ uploads' = uploads /\ changes' = changes + 1,
         \A a \in Admins : desk'[a].doing = "edit" => desk'[a].copy["imageUrl"] \in Known',
         \A a \in Admins : desk'[a].doing = "sync" =>
           \A id \in Ids : desk'[a].copy[id]["imageUrl"] \in Known \ uploads
  PROVE  Stamps'
  <1>1. changes \in Nat
    BY DEF TypeInv
  <1>2. /\ Known \subseteq Known' /\ Stamp \notin Known /\ Stamp \notin {Missing, Default, Typed}
        /\ changes' = changes + 1 => Stamp \in Known'
    BY <1>1 DEF Known, Stamp, Missing, Default, Typed
  <1>3. Known \ uploads \subseteq Known' \ uploads'
    BY <1>2
  <1>4. uploads' \subseteq Known' \ {Missing, Default, Typed}
    BY <1>2 DEF Stamps
  <1>5. \A id \in Ids : sites'[id]["imageUrl"] \in Known' \ uploads'
    <2>1. TAKE id \in Ids
    <2>2. CASE sites'[id]["imageUrl"] \in Known \ uploads
      BY <2>2, <1>3
    <2>3. CASE sites'[id]["imageUrl"] = Stamp /\ uploads' = uploads /\ changes' = changes + 1
      BY <2>3, <1>2 DEF Stamps
    <2>4. QED BY <2>2, <2>3
  <1>6. QED BY <1>3, <1>4, <1>5 DEF Stamps

\* How the changes are counted.
LEMMA ChangeFacts ==
  ASSUME TypeInv, Change
  PROVE  /\ changes' = changes + 1 /\ changes' \in 0..MaxChanges
         /\ Stamp \in Value /\ Known \subseteq Known' /\ Stamp \in Known'
         /\ Stamp \notin Known /\ Stamp \notin {Missing, Default, Typed}
  <1>1. MaxChanges \in Nat /\ changes \in 0..MaxChanges /\ changes < MaxChanges /\ changes' = changes + 1
    BY CatalogAssumption DEF TypeInv, Change
  <1>2. Stamp \in Value
    BY <1>1, ValueFacts
  <1>3. QED BY <1>1, <1>2 DEF Known, Stamp, Missing, Default, Typed

\* The photos of a record are known, and values.
LEMMA PhotoFacts ==
  ASSUME CatalogInv
  PROVE  /\ Default \notin uploads /\ {Missing, Default, Typed} \subseteq Known
         /\ \A j \in DOMAIN products :
              /\ Photos(All[j]) \subseteq Known
              /\ Photos(All[j]) \cap uploads \subseteq Photos(products[j])
              /\ \A u \in Photos(products[j]) : Holds(u, products[j].id)
  <1>1. TypeInv /\ Stamps
    BY DEF CatalogInv, PhotoInv
  <1>2. Default \notin uploads /\ {Missing, Default, Typed} \subseteq Known
    <2>1. changes \in Nat
      BY <1>1 DEF TypeInv
    <2>2. QED BY <1>1, <2>1 DEF Stamps, Known, Missing, Default, Typed
  <1>3. ASSUME NEW j \in DOMAIN products
        PROVE  /\ Photos(products[j]) \subseteq Known
               /\ Photos(All[j]) \subseteq Photos(products[j]) \cup {Default}
               /\ \A u \in Photos(products[j]) : Holds(u, products[j].id)
    <2>1. products[j] \in Product /\ All[j] = Repaired(products[j])
      BY <1>1, AllFacts
    <2>2. Photos(All[j]) \subseteq Photos(products[j]) \cup {Default}
      BY <2>1, RepairedFacts
    <2>3. Photos(products[j]) \subseteq Known
      BY <1>1 DEF Stamps
    <2>4. QED BY <2>2, <2>3 DEF Holds
  <1>4. QED BY <1>2, <1>3

\* A step in place that uploads nothing, and that removes and brings back no photo.
LEMMA CalmStep ==
  ASSUME CatalogInv, InPlace, \A j \in DOMAIN products : Calm(j),
         TypeInv', canonical' = canonical, changes' = changes \/ changes' = changes + 1,
         uploads' = uploads, files' = files, excused' = excused,
         \A id \in Ids :
           \/ sites'[id]["imageUrl"] = sites[id]["imageUrl"] \/ sites'[id]["imageUrl"] = Missing
           \/ sites'[id]["imageUrl"] = Stamp /\ changes' = changes + 1,
         \A a \in Admins :
           \/ desk'[a] = desk[a] \/ desk'[a].doing \notin {"edit", "sync"}
           \/ desk'[a].doing = "sync" /\ desk'[a].copy = sites
           \/ /\ desk'[a].doing = "edit"
              /\ \E j \in DOMAIN products :
                   products[j].id = desk'[a].id /\ desk'[a].copy["imageUrl"] \in Photos(All[j]),
         featured' \cup popular' \subseteq IdsOf(products)
  PROVE  CatalogInv'
  <1>1. TypeInv /\ PhotoInv /\ Stamps
    BY DEF CatalogInv, PhotoInv
  <1>2. KeepsInv' /\ IdsOf(products)' = IdsOf(products)
    BY InPlaceKept
  <1>3. /\ Default \notin uploads /\ {Missing, Default, Typed} \subseteq Known
        /\ \A j \in DOMAIN products :
             /\ Photos(All[j]) \subseteq Known
             /\ Photos(All[j]) \cap uploads \subseteq Photos(products[j])
             /\ \A u \in Photos(products[j]) : Holds(u, products[j].id)
    BY PhotoFacts
  <1>4. Known \subseteq Known'
    <2>1. changes \in Nat
      BY <1>1 DEF TypeInv
    <2>2. QED BY <2>1 DEF Known
  <1>5. Stamps'
    <2>1. \A i \in DOMAIN products' : Photos(products'[i]) \subseteq Known'
      BY <1>1, <1>3, <1>4 DEF InPlace, Calm, Stamps
    <2>2. \A id \in Ids :
            \/ sites'[id]["imageUrl"] \in Known \ uploads
            \/ sites'[id]["imageUrl"] = Stamp /\ uploads' = uploads /\ changes' = changes + 1
      BY <1>1, <1>3 DEF Stamps
    <2>3. \A a \in Admins : desk'[a].doing = "edit" => desk'[a].copy["imageUrl"] \in Known'
      BY <1>1, <1>3, <1>4 DEF Stamps
    <2>4. \A a \in Admins : desk'[a].doing = "sync" =>
            \A id \in Ids : desk'[a].copy[id]["imageUrl"] \in Known \ uploads
      BY <1>1 DEF Stamps
    <2>5. QED BY <1>1, <2>1, <2>2, <2>3, <2>4, StampsKept
  <1>6. \E o : PhotoStep(o, 0, {})
    <2>1. \A j \in DOMAIN products : \A u \in Photos(products'[j]) \cap uploads' : u \in Photos(products[j])
      BY <1>3 DEF Calm
    <2>2. \A a \in Admins : desk'[a].doing = "edit" /\ desk'[a].copy["imageUrl"] \in uploads' =>
            Holds(desk'[a].copy["imageUrl"], desk'[a].id)
      <3>1. TAKE a \in Admins
      <3>2. HAVE desk'[a].doing = "edit" /\ desk'[a].copy["imageUrl"] \in uploads'
      <3>3. CASE desk'[a] = desk[a]
        BY <3>2, <3>3 DEF Holds
      <3>4. CASE \E j \in DOMAIN products :
                   products[j].id = desk'[a].id /\ desk'[a].copy["imageUrl"] \in Photos(All[j])
        BY <3>2, <3>4, <1>3
      <3>5. QED BY <3>2, <3>3, <3>4
    <2>3. (files \ {}) \cup (uploads' \ uploads) \subseteq files'
      OBVIOUS
    <2>4. QED BY <2>1, <2>2, <2>3, InPlacePhotos
  <1>7. PICK o : PhotoStep(o, 0, {})
    BY <1>6
  <1>8. OneOwner' /\ Apart' /\ OnDisk'
    BY <1>1, <1>7, PhotosKept
  <1>9. Listed'
    BY <1>2 DEF Listed
  <1>10. QED BY <1>2, <1>5, <1>8, <1>9 DEF CatalogInv, PhotoInv

---------------------------------------------------------------------------
(* The actions, one by one *)

\* What an administrator does next.
LEMMA DeskStep ==
  ASSUME TypeInv, NEW a \in Admins, NEW d \in Desk, desk' = [desk EXCEPT ![a] = d]
  PROVE  /\ desk' \in [Admins -> Desk] /\ desk'[a] = d
         /\ \A b \in Admins : b # a => desk'[b] = desk[b]
  BY DEF TypeInv

LEMMA ReadKeeps ==
  ASSUME CatalogInv, Read
  PROVE  CatalogInv'
  <1>1. InPlace /\ \A j \in DOMAIN products : Calm(j)
    BY AllInPlace DEF Read
  <1>2. TypeInv'
    BY <1>1 DEF Read, CatalogInv, TypeInv, InPlace
  <1>3. QED BY <1>1, <1>2, CalmStep DEF Read, CatalogInv, Listed

LEMMA OpenFormKeeps ==
  ASSUME CatalogInv, NEW a \in Admins, NEW id \in Ids, OpenForm(a, id)
  PROVE  CatalogInv'
  <1> DEFINE s == Sorted(All)
             copy == s[FirstIn(s, id)].value
             d == [doing |-> "edit", id |-> id, copy |-> copy]
  <1>1. InPlace /\ \A j \in DOMAIN products : Calm(j)
    BY AllInPlace DEF OpenForm
  <1>2. TypeInv /\ All \in Seq(Product) /\ DOMAIN All = DOMAIN products
        /\ \A j \in DOMAIN products : All[j] \in Product /\ All[j].id = products[j].id
    BY AllFacts DEF CatalogInv
  <1>3. s \in Seq(Product) /\ Moves(s, All, DOMAIN All)
    <2>1. \A i \in DOMAIN All : All[i].sort \in 0..2
      BY <1>2 DEF Product
    <2>2. QED BY <1>2, <2>1, SortedMoves
  <1>4. PICK o \in [DOMAIN s -> DOMAIN All] :
          /\ \A j \in DOMAIN All : \E n \in DOMAIN s : o[n] = j
          /\ \A n \in DOMAIN s : s[n] = All[o[n]]
    BY <1>3 DEF Moves
  <1> HIDE DEF s
  <1>5. PICK j \in DOMAIN products : products[j].id = id
    BY DEF OpenForm, IsProduct, IdsOf
  <1>6. id \in IdsOf(s)
    <2>1. PICK n \in DOMAIN s : o[n] = j
      BY <1>2, <1>4
    <2>2. s[n].id = id
      BY <1>2, <1>4, <1>5, <2>1
    <2>3. QED BY <2>2 DEF IdsOf
  <1>7. FirstIn(s, id) \in DOMAIN s /\ s[FirstIn(s, id)].id = id
    BY <1>3, <1>6, FirstFacts
  <1>8. PICK m \in DOMAIN products : s[FirstIn(s, id)] = All[m]
    BY <1>2, <1>4, <1>7
  <1>9. products[m].id = id /\ copy["imageUrl"] \in Photos(All[m]) /\ copy \in Listing
    BY <1>2, <1>7, <1>8 DEF Photos, Product
  <1> HIDE DEF copy
  <1>10. desk' = [desk EXCEPT ![a] = d]
    BY DEF OpenForm, s, copy
  <1>11. d \in Desk /\ d.doing = "edit" /\ d.id = id /\ d.copy = copy
    BY <1>9 DEF Desk
  <1> HIDE DEF d
  <1>12. desk' \in [Admins -> Desk] /\ desk'[a] = d /\ \A b \in Admins : b # a => desk'[b] = desk[b]
    BY <1>2, <1>10, <1>11, DeskStep
  <1>13. TypeInv'
    BY <1>1, <1>2, <1>12 DEF OpenForm, TypeInv, InPlace
  <1>14. \A b \in Admins :
           \/ desk'[b] = desk[b]
           \/ /\ desk'[b].doing = "edit"
              /\ \E i \in DOMAIN products :
                   products[i].id = desk'[b].id /\ desk'[b].copy["imageUrl"] \in Photos(All[i])
    BY <1>9, <1>11, <1>12
  <1>15. QED BY <1>1, <1>13, <1>14, CalmStep DEF OpenForm, CatalogInv, Listed

LEMMA CloseFormKeeps ==
  ASSUME CatalogInv, NEW a \in Admins, CloseForm(a)
  PROVE  CatalogInv'
  <1>1. InPlace /\ \A j \in DOMAIN products : Calm(j)
    BY SameInPlace DEF CloseForm
  <1>2. Idle \in Desk /\ Idle.doing = "nothing"
    BY DEF Desk, Idle
  <1>3. desk' \in [Admins -> Desk] /\ desk'[a] = Idle /\ \A b \in Admins : b # a => desk'[b] = desk[b]
    BY <1>2, DeskStep DEF CloseForm, CatalogInv
  <1>4. TypeInv'
    BY <1>3 DEF CloseForm, CatalogInv, TypeInv
  <1>5. \A b \in Admins : desk'[b] = desk[b] \/ desk'[b].doing \notin {"edit", "sync"}
    BY <1>2, <1>3
  <1>6. QED BY <1>1, <1>4, <1>5, CalmStep DEF CloseForm, CatalogInv, Listed

LEMMA LoadSitesCatalogKeeps ==
  ASSUME CatalogInv, NEW a \in Admins, LoadSitesCatalog(a)
  PROVE  CatalogInv'
  <1> DEFINE d == [doing |-> "sync", id |-> NoId, copy |-> sites]
  <1>1. InPlace /\ \A j \in DOMAIN products : Calm(j)
    BY SameInPlace DEF LoadSitesCatalog
  <1>2. d \in Desk /\ d.doing = "sync" /\ d.copy = sites
    BY DEF Desk, CatalogInv, TypeInv
  <1>3. desk' = [desk EXCEPT ![a] = d]
    BY DEF LoadSitesCatalog
  <1> HIDE DEF d
  <1>4. desk' \in [Admins -> Desk] /\ desk'[a] = d /\ \A b \in Admins : b # a => desk'[b] = desk[b]
    BY <1>2, <1>3, DeskStep DEF CatalogInv
  <1>5. TypeInv'
    BY <1>4 DEF LoadSitesCatalog, CatalogInv, TypeInv
  <1>6. \A b \in Admins : desk'[b] = desk[b] \/ (desk'[b].doing = "sync" /\ desk'[b].copy = sites)
    BY <1>2, <1>4
  <1>7. QED BY <1>1, <1>5, <1>6, CalmStep DEF LoadSitesCatalog, CatalogInv, Listed

\* Both lists keep only ids of products.
LEMMA SetLayoutKeeps ==
  ASSUME CatalogInv, NEW S \in SUBSET Ids, SetLayout(S)
  PROVE  CatalogInv'
  <1>1. InPlace /\ \A j \in DOMAIN products : Calm(j)
    BY AllInPlace DEF SetLayout
  <1>2. changes' = changes + 1 /\ changes' \in 0..MaxChanges
    BY ChangeFacts DEF SetLayout, CatalogInv
  <1>3. featured' = S \cap IdsOf(products)
    BY AllFacts DEF SetLayout, Pruned, CatalogInv
  <1>4. TypeInv'
    BY <1>1, <1>2, <1>3 DEF SetLayout, CatalogInv, TypeInv, InPlace
  <1>5. featured' \cup popular' \subseteq IdsOf(products)
    BY <1>3 DEF SetLayout, CatalogInv, Listed
  <1>6. QED BY <1>1, <1>2, <1>4, <1>5, CalmStep DEF SetLayout

LEMMA SetPopularConfigKeeps ==
  ASSUME CatalogInv, NEW S \in SUBSET Ids, SetPopularConfig(S)
  PROVE  CatalogInv'
  <1>1. InPlace /\ \A j \in DOMAIN products : Calm(j)
    BY AllInPlace DEF SetPopularConfig
  <1>2. changes' = changes + 1 /\ changes' \in 0..MaxChanges
    BY ChangeFacts DEF SetPopularConfig, CatalogInv
  <1>3. popular' = S \cap IdsOf(products)
    BY AllFacts DEF SetPopularConfig, Pruned, CatalogInv
  <1>4. TypeInv'
    BY <1>1, <1>2, <1>3 DEF SetPopularConfig, CatalogInv, TypeInv, InPlace
  <1>5. featured' \cup popular' \subseteq IdsOf(products)
    BY <1>3 DEF SetPopularConfig, CatalogInv, Listed
  <1>6. QED BY <1>1, <1>2, <1>4, <1>5, CalmStep DEF SetPopularConfig

LEMMA PublishKeeps ==
  ASSUME CatalogInv, NEW id \in Ids, NEW without \in SUBSET {"variants"}, Publish(id, without)
  PROVE  CatalogInv'
  <1> DEFINE s == [f \in Fields |-> IF f \in without \cup {"imageScale"} THEN Missing ELSE Stamp]
  <1>1. InPlace /\ \A j \in DOMAIN products : Calm(j)
    BY SameInPlace DEF Publish
  <1>2. changes' = changes + 1 /\ changes' \in 0..MaxChanges /\ Stamp \in Value
    BY ChangeFacts DEF Publish, CatalogInv
  <1>3. s \in Listing /\ s["imageUrl"] = Stamp
    BY <1>2, ValueFacts, FieldFacts DEF Listing
  <1>4. sites' = [sites EXCEPT ![id] = s] /\ sites \in [Ids -> Listing]
    BY DEF Publish, CatalogInv, TypeInv
  <1> HIDE DEF s
  <1>5. sites' \in [Ids -> Listing] /\ \A j \in Ids : sites'[j] = IF j = id THEN s ELSE sites[j]
    BY <1>3, <1>4
  <1>6. TypeInv'
    BY <1>2, <1>5 DEF Publish, CatalogInv, TypeInv
  <1>7. \A j \in Ids : sites'[j]["imageUrl"] = sites[j]["imageUrl"] \/ sites'[j]["imageUrl"] = Stamp
    BY <1>3, <1>5
  <1>8. QED BY <1>1, <1>2, <1>6, <1>7, CalmStep DEF Publish, CatalogInv, Listed

LEMMA ResetKeeps ==
  ASSUME CatalogInv, NEW a \in Admins, ResetProductSyncOverrides(a)
  PROVE  CatalogInv'
  <1> DEFINE id == desk[a].id
             i == FirstIn(products, id)
             q == [All[i] EXCEPT !.locks = {}, !.kept = <<>>]
  <1>1. TypeInv /\ changes' = changes + 1 /\ changes' \in 0..MaxChanges
    BY ChangeFacts DEF ResetProductSyncOverrides, CatalogInv
  <1>2. i \in DOMAIN products /\ products[i].id = id
    BY <1>1, FirstFacts DEF ResetProductSyncOverrides, IsProduct, TypeInv
  <1> HIDE DEF i
  <1>3. All \in Seq(Product) /\ DOMAIN All = DOMAIN products /\ All[i] \in Product /\ All[i].id = id
    BY <1>1, <1>2, AllFacts
  <1>4. <<>> \in Anything /\ DOMAIN <<>> = {}
    <2>1. <<>> \in [{} -> Value \cup Seq(Value)] /\ {} \in SUBSET Keys
      OBVIOUS
    <2>2. QED BY <2>1 DEF Anything
  <1>5. q \in Product
    BY <1>3, <1>4 DEF Product
  <1>6. q.id = id /\ q.kept = <<>> /\ q.value = All[i].value /\ q.images = All[i].images
    BY <1>3 DEF Product
  <1>7. products' = [All EXCEPT ![i] = q]
    <2>1. products' = [All EXCEPT ![i].locks = {}, ![i].kept = <<>>]
      BY DEF ResetProductSyncOverrides, i
    <2>2. QED BY <1>3, <2>1
  <1> HIDE DEF q
  <1>8. Keeps(q) /\ Photos(q) = Photos(All[i])
    BY <1>4, <1>6 DEF Keeps, Photos
  <1>9. InPlace /\ products'[i] = q /\ \A j \in DOMAIN products : j # i => Calm(j)
    BY <1>2, <1>5, <1>6, <1>7, <1>8, OneInPlace
  <1>10. Calm(i)
    <2>1. Photos(All[i]) \subseteq Photos(products[i]) \cup {Default}
      BY <1>1, <1>2, AllFacts, RepairedFacts
    <2>2. QED BY <1>8, <1>9, <2>1 DEF Calm
  <1>11. TypeInv'
    BY <1>1, <1>9 DEF ResetProductSyncOverrides, TypeInv, InPlace
  <1>12. QED BY <1>1, <1>9, <1>10, <1>11, CalmStep DEF ResetProductSyncOverrides, CatalogInv, Listed

\* A photo that a form brings back excuses its id.
LEMMA UpdateProductKeeps ==
  ASSUME CatalogInv, NEW a \in Admins, NEW edit \in Edits, UpdateProduct(a, edit)
  PROVE  CatalogInv'
  <1> DEFINE id == desk[a].id
             i == FirstIn(products, id)
             copy == desk[a].copy
             before == All[i].value
             over == Over(edit, copy)
             next == Sent(over)
             touched == {f \in Fields : next[f] # before[f]}
             new == [f \in touched |-> next[f]]
             locked == DetectChangedFields(before, next)
             q == Written(All[i], new, locked)
  <1>1. TypeInv /\ Stamps /\ changes' = changes + 1 /\ changes' \in 0..MaxChanges /\ Known \subseteq Known'
    BY ChangeFacts DEF UpdateProduct, CatalogInv, PhotoInv
  <1>2. i \in DOMAIN products /\ products[i].id = id /\ id \in Ids
    <2>1. products \in Seq(Product)
      BY <1>1 DEF TypeInv
    <2>2. i \in DOMAIN products /\ products[i].id = id
      BY <2>1, FirstFacts DEF UpdateProduct, IsProduct
    <2>3. products[i] \in Product
      BY <2>1, <2>2
    <2>4. QED BY <2>2, <2>3 DEF Product
  <1>3. desk[a].doing = "edit" /\ copy \in Listing /\ copy["imageUrl"] \in Known
    BY <1>1, DeskFacts DEF UpdateProduct, Stamps
  <1>4. products' = [All EXCEPT ![i] = q]
    BY DEF UpdateProduct
  <1>5. excused' = IF "imageUrl" \in touched \ DOMAIN edit THEN excused \cup {id} ELSE excused
    BY DEF UpdateProduct
  <1>6. desk' = [desk EXCEPT ![a] = Idle] /\ canonical' = canonical /\ sites' = sites /\ files' = files
        /\ uploads' = uploads /\ featured' = featured /\ popular' = popular
    BY DEF UpdateProduct
  <1> HIDE DEF i, id, copy
  <1>7. All[i] \in Product /\ All[i].id = id /\ Keeps(All[i]) /\ before \in Listing
    <2>1. products[i] \in Product /\ All[i] = Repaired(products[i]) /\ Keeps(products[i])
      BY <1>1, <1>2, AllFacts DEF CatalogInv, KeepsInv
    <2>2. All[i] \in Product /\ All[i].id = id /\ Keeps(All[i])
      BY <1>2, <2>1, RepairedFacts
    <2>3. QED BY <2>2 DEF Product
  <1>8. /\ over \in Listing
        /\ over["imageUrl"] = IF "imageUrl" \in DOMAIN edit THEN edit["imageUrl"] ELSE copy["imageUrl"]
        /\ "imageUrl" \in DOMAIN edit => edit["imageUrl"] \in {Missing, Typed}
    <2>1. edit = <<>> \/ edit = [imageUrl |-> Missing] \/ \E g \in Fields : edit = [h \in {g} |-> Typed]
      BY DEF Edits
    <2>2. DOMAIN edit \in SUBSET Fields /\ \A f \in DOMAIN edit : edit[f] \in {Missing, Typed}
      <3>1. CASE edit = <<>>
        BY <3>1
      <3>2. CASE edit = [imageUrl |-> Missing]
        BY <3>2, FieldFacts
      <3>3. CASE \E g \in Fields : edit = [h \in {g} |-> Typed]
        BY <3>3
      <3>4. QED BY <2>1, <3>1, <3>2, <3>3
    <2>3. {Missing, Typed} \subseteq Value /\ "imageUrl" \in Fields
      BY ValueFacts, FieldFacts
    <2>4. DOMAIN edit \cup DOMAIN copy = Fields
      BY <1>3, <2>2 DEF Listing
    <2>5. over = [f \in Fields |-> IF f \in DOMAIN edit THEN edit[f] ELSE copy[f]]
      BY <2>4 DEF Over
    <2>6. QED BY <1>3, <2>2, <2>3, <2>5 DEF Listing
  <1> HIDE DEF over
  <1>9. next \in Listing /\ next["imageUrl"] = over["imageUrl"]
    <2>1. "imageUrl" \notin Defaulted /\ "imageUrl" \in Fields /\ Default \in Value
      BY FieldFacts, ValueFacts DEF Defaulted
    <2>2. QED BY <1>8, <2>1 DEF Sent, Listing
  <1> HIDE DEF next, before
  <1>10. touched \in SUBSET Fields /\ locked \in SUBSET Keys /\ touched \subseteq locked \cup {"category"}
    BY FieldFacts DEF DetectChangedFields, Keys, Comparable
  <1> HIDE DEF touched, locked
  <1>11. DOMAIN new = touched /\ (\A f \in touched : new[f] = next[f]) /\ "images" \notin DOMAIN new
    BY <1>10, FieldFacts
  <1>12. Writable(new)
    <2>1. \A f \in touched : next[f] \in Value
      BY <1>9, <1>10 DEF Listing
    <2>2. new \in [touched -> Value \cup Seq(Value)] /\ touched \in SUBSET Keys
      BY <1>10, <2>1 DEF Keys
    <2>3. QED BY <1>11, <2>1, <2>2 DEF Writable, Anything
  <1> HIDE DEF new
  <1>13. /\ q \in Product /\ q.id = id /\ q.images = All[i].images /\ Keeps(q)
         /\ \A f \in Fields : q.value[f] = IF f \in touched THEN next[f] ELSE before[f]
    BY <1>7, <1>10, <1>11, <1>12, WrittenFacts DEF before
  <1> HIDE DEF q
  <1>14. InPlace /\ products'[i] = q /\ \A j \in DOMAIN products : j # i => Calm(j)
    BY <1>2, <1>4, <1>13, OneInPlace
  <1>15. \A u \in Photos(q) : u \in Photos(All[i]) \/ (u = next["imageUrl"] /\ "imageUrl" \in touched)
    BY <1>13, FieldFacts DEF Photos, before
  <1>16. Idle \in Desk /\ Idle.doing = "nothing"
    BY DEF Desk, Idle
  <1>17. desk' \in [Admins -> Desk] /\ desk'[a] = Idle /\ \A b \in Admins : b # a => desk'[b] = desk[b]
    BY <1>1, <1>6, <1>16, DeskStep
  <1>18. TypeInv'
    BY <1>1, <1>2, <1>5, <1>6, <1>14, <1>17 DEF TypeInv, InPlace
  <1>19. /\ Default \notin uploads /\ {Missing, Default, Typed} \subseteq Known
         /\ \A j \in DOMAIN products :
              /\ Photos(All[j]) \subseteq Known
              /\ Photos(All[j]) \cap uploads \subseteq Photos(products[j])
    BY PhotoFacts
  <1>20. Stamps'
    <2>1. next["imageUrl"] \in Known
      BY <1>3, <1>8, <1>9, <1>19
    <2>2. \A j \in DOMAIN products : Photos(products[j]) \subseteq Known
      BY <1>1 DEF Stamps
    <2>3. \A j \in DOMAIN products' : Photos(products'[j]) \subseteq Known
      BY <1>2, <1>14, <1>15, <1>19, <2>1, <2>2 DEF InPlace, Calm
    <2>4. \A b \in Admins : desk'[b].doing = "edit" => desk'[b].copy["imageUrl"] \in Known'
      BY <1>1, <1>16, <1>17 DEF Stamps
    <2>5. \A b \in Admins : desk'[b].doing = "sync" =>
            \A x \in Ids : desk'[b].copy[x]["imageUrl"] \in Known \ uploads
      BY <1>1, <1>16, <1>17 DEF Stamps
    <2>6. \A x \in Ids : sites'[x]["imageUrl"] \in Known \ uploads
      BY <1>1, <1>6 DEF Stamps
    <2>7. \A j \in DOMAIN products' : Photos(products'[j]) \subseteq Known'
      BY <1>1, <2>3
    <2>8. QED BY <1>1, <1>6, <2>4, <2>5, <2>6, <2>7, StampsKept
  <1>21. \E o : PhotoStep(o, 0, {})
    <2>1. ASSUME NEW u \in Photos(q), u \in uploads
          PROVE  u \in Photos(products[i]) \/ (Holds(u, id) /\ id \in excused')
      <3>1. CASE u \in Photos(All[i])
        BY <1>2, <1>19, <2>1, <3>1
      <3>2. CASE u = next["imageUrl"] /\ "imageUrl" \in touched
        <4>1. u \notin {Missing, Typed}
          BY <1>1, <2>1 DEF Stamps
        <4>2. CASE "imageUrl" \in DOMAIN edit
          BY <1>8, <1>9, <3>2, <4>1, <4>2
        <4>3. CASE "imageUrl" \notin DOMAIN edit
          <5>1. u = copy["imageUrl"]
            BY <1>8, <1>9, <3>2, <4>3
          <5>2. Holds(u, id)
            BY <1>3, <5>1 DEF Holds, copy, id
          <5>3. id \in excused'
            BY <1>5, <3>2, <4>3
          <5>4. QED BY <5>2, <5>3
        <4>4. QED BY <4>2, <4>3
      <3>3. QED BY <1>15, <2>1, <3>1, <3>2
    <2>2. \A j \in DOMAIN products : \A u \in Photos(products'[j]) \cap uploads' :
            \/ u \in Photos(products[j])
            \/ Holds(u, products[j].id) /\ products[j].id \in excused'
      BY <1>2, <1>6, <1>14, <1>19, <2>1 DEF Calm
    <2>3. \A b \in Admins : desk'[b].doing = "edit" /\ desk'[b].copy["imageUrl"] \in uploads' =>
            Holds(desk'[b].copy["imageUrl"], desk'[b].id)
      BY <1>16, <1>17 DEF Holds
    <2>4. (files \ {}) \cup (uploads' \ uploads) \subseteq files' /\ excused \subseteq excused'
      BY <1>5, <1>6
    <2>5. QED BY <1>6, <1>14, <2>2, <2>3, <2>4, InPlacePhotos
  <1>22. PICK o : PhotoStep(o, 0, {})
    BY <1>21
  <1>23. OneOwner' /\ Apart' /\ OnDisk'
    BY <1>1, <1>18, <1>22, PhotosKept DEF CatalogInv
  <1>24. KeepsInv' /\ Listed'
    BY <1>6, <1>14, InPlaceKept DEF CatalogInv, Listed
  <1>25. QED BY <1>18, <1>20, <1>23, <1>24 DEF CatalogInv, PhotoInv

\* Whose photo is attached or removed.
LEMMA FormFacts ==
  ASSUME CatalogInv, NEW a \in Admins, desk[a].doing = "edit", IsProduct(desk[a].id)
  PROVE  LET i == FirstIn(products, desk[a].id) IN
         /\ desk[a].id \in Ids /\ desk[a].copy \in Listing /\ desk[a].copy["imageUrl"] \in Known
         /\ i \in DOMAIN products /\ products[i].id = desk[a].id
         /\ All[i] \in Product /\ All[i].id = desk[a].id /\ Keeps(All[i])
         /\ \A url \in Value :
              LET d == [desk[a] EXCEPT !.copy["imageUrl"] = url] IN
              d \in Desk /\ d.doing = "edit" /\ d.id = desk[a].id /\ d.copy["imageUrl"] = url
  <1> DEFINE i == FirstIn(products, desk[a].id)
  <1>1. TypeInv /\ KeepsInv /\ Stamps
    BY DEF CatalogInv, PhotoInv
  <1>2. desk[a].id \in Ids /\ desk[a].copy \in Listing /\ desk[a].copy["imageUrl"] \in Known
    BY <1>1, DeskFacts DEF Stamps
  <1>3. i \in DOMAIN products /\ products[i].id = desk[a].id
    BY <1>1, FirstFacts DEF IsProduct, TypeInv
  <1> HIDE DEF i
  <1>4. All[i] \in Product /\ All[i].id = desk[a].id /\ Keeps(All[i])
    <2>1. products[i] \in Product /\ All[i] = Repaired(products[i]) /\ Keeps(products[i])
      BY <1>1, <1>3, AllFacts DEF KeepsInv
    <2>2. QED BY <1>3, <2>1, RepairedFacts
  <1>5. ASSUME NEW url \in Value
        PROVE  LET d == [desk[a] EXCEPT !.copy["imageUrl"] = url] IN
               d \in Desk /\ d.doing = "edit" /\ d.id = desk[a].id /\ d.copy["imageUrl"] = url
    <2>1. desk[a] \in [doing : {"edit"}, id : Ids, copy : Listing]
      BY <1>1 DEF TypeInv, Desk, Idle
    <2>2. "imageUrl" \in Fields
      BY FieldFacts
    <2>3. [desk[a].copy EXCEPT !["imageUrl"] = url] \in Listing
      BY <1>2 DEF Listing
    <2>4. QED BY <1>2, <2>1, <2>2, <2>3 DEF Desk, Listing
  <1>6. QED BY <1>2, <1>3, <1>4, <1>5 DEF i

\* The photo that is replaced is removed, and nobody else has it.
LEMMA AttachProductImageKeeps ==
  ASSUME CatalogInv, NEW a \in Admins, AttachProductImage(a)
  PROVE  CatalogInv'
  <1> DEFINE id == desk[a].id
             i == FirstIn(products, id)
             old == All[i].value["imageUrl"]
             gallery == Gallery(All[i], Stamp)
             new == [imageUrl |-> Stamp, images |-> gallery]
             q == Written(All[i], new, {"imageUrl"})
             d == [desk[a] EXCEPT !.copy["imageUrl"] = Stamp]
  <1>1. /\ TypeInv /\ Stamps /\ changes' = changes + 1 /\ changes' \in 0..MaxChanges /\ Known \subseteq Known'
        /\ Stamp \in Value /\ Stamp \in Known' /\ Stamp \notin Known
    BY ChangeFacts DEF AttachProductImage, CatalogInv, PhotoInv
  <1>2. /\ id \in Ids /\ i \in DOMAIN products /\ products[i].id = id
        /\ All[i] \in Product /\ All[i].id = id /\ Keeps(All[i])
        /\ d \in Desk /\ d.doing = "edit" /\ d.id = id /\ d.copy["imageUrl"] = Stamp
    BY <1>1, FormFacts DEF AttachProductImage
  <1>3. products' = [All EXCEPT ![i] = q]
    BY DEF AttachProductImage
  <1>4. /\ files' = (files \ {old}) \cup {Stamp} /\ uploads' = uploads \cup {Stamp}
        /\ desk' = [desk EXCEPT ![a] = d]
        /\ canonical' = canonical /\ sites' = sites /\ excused' = excused
        /\ featured' = featured /\ popular' = popular
    <2>1. desk' = [desk EXCEPT ![a].copy["imageUrl"] = Stamp]
      BY DEF AttachProductImage
    <2>2. QED BY <1>1, <2>1 DEF AttachProductImage, TypeInv
  <1> HIDE DEF i, d
  <1>5. gallery \in Seq(Value) /\ ToSet(gallery) \subseteq {Stamp} \cup (ToSet(All[i].images) \ {old})
    BY <1>1, <1>2, GalleryFacts
  <1> HIDE DEF gallery
  <1>6. new \in Anything /\ DOMAIN new = {"imageUrl", "images"} /\ new["imageUrl"] = Stamp /\ new["images"] = gallery
    <2>1. new \in [{"imageUrl", "images"} -> Value \cup Seq(Value)]
      BY <1>1, <1>5
    <2>2. {"imageUrl", "images"} \in SUBSET Keys
      BY FieldFacts
    <2>3. QED BY <2>1, <2>2 DEF Anything
  <1> HIDE DEF new
  <1>7. Writable(new)
    BY <1>1, <1>5, <1>6, FieldFacts DEF Writable
  <1>8. q \in Product /\ q.id = id /\ q.images = gallery /\ q.value["imageUrl"] = Stamp /\ Keeps(q)
    <2>1. {"imageUrl"} \in SUBSET Keys /\ "imageUrl" \in Fields
      BY FieldFacts
    <2>2. QED BY <1>2, <1>6, <1>7, <2>1, WrittenFacts
  <1> HIDE DEF q
  <1>9. InPlace /\ products'[i] = q /\ \A j \in DOMAIN products : j # i => Calm(j)
    BY <1>2, <1>3, <1>8, OneInPlace
  <1>10. Photos(q) \subseteq {Stamp} \cup (Photos(All[i]) \ {old})
    BY <1>5, <1>8 DEF Photos
  <1>11. desk' \in [Admins -> Desk] /\ desk'[a] = d /\ \A b \in Admins : b # a => desk'[b] = desk[b]
    BY <1>1, <1>2, <1>4, DeskStep
  <1>12. TypeInv'
    <2>1. files' \subseteq uploads' /\ uploads' \subseteq Value
      BY <1>1, <1>4 DEF TypeInv
    <2>2. QED BY <1>1, <1>4, <1>9, <1>11, <2>1 DEF TypeInv, InPlace
  <1>13. /\ Default \notin uploads /\ {Missing, Default, Typed} \subseteq Known
         /\ \A j \in DOMAIN products :
              /\ Photos(All[j]) \subseteq Known
              /\ Photos(All[j]) \cap uploads \subseteq Photos(products[j])
    BY PhotoFacts
  <1>14. old \in Photos(All[i])
    BY DEF Photos
  <1>15. Stamps'
    <2>1. \A j \in DOMAIN products' : Photos(products'[j]) \subseteq Known'
      BY <1>1, <1>2, <1>9, <1>10, <1>13 DEF InPlace, Calm, Stamps
    <2>2. \A b \in Admins : desk'[b].doing = "edit" => desk'[b].copy["imageUrl"] \in Known'
      BY <1>1, <1>2, <1>11 DEF Stamps
    <2>3. \A b \in Admins : desk'[b].doing = "sync" =>
            \A x \in Ids : desk'[b].copy[x]["imageUrl"] \in Known \ uploads
      BY <1>1, <1>2, <1>11 DEF Stamps
    <2>4. \A x \in Ids : sites'[x]["imageUrl"] \in Known \ uploads
      BY <1>1, <1>4 DEF Stamps
    <2>5. QED BY <1>1, <1>4, <2>1, <2>2, <2>3, <2>4, StampsKept
  <1>16. \E o : PhotoStep(o, i, {old})
    <2>1. ASSUME NEW u \in Photos(q), u \in uploads'
          PROVE  u = Stamp \/ (u \in Photos(products[i]) /\ u # old)
      BY <1>2, <1>4, <1>10, <1>13, <2>1
    <2>2. i # 0
      BY <1>1, <1>2 DEF TypeInv
    <2>3. Default # Stamp
      BY <1>1, <1>13
    <2>4. \A j \in DOMAIN products : \A u \in Photos(products'[j]) \cap uploads' :
            \/ u = Stamp /\ i # 0 /\ j = i
            \/ u \in Photos(products[j]) /\ (j = i => u \notin {old})
      BY <1>2, <1>4, <1>9, <1>13, <2>1, <2>2, <2>3 DEF Calm
    <2>5. \A b \in Admins : desk'[b].doing = "edit" /\ desk'[b].copy["imageUrl"] \in uploads' =>
            \/ Holds(desk'[b].copy["imageUrl"], desk'[b].id)
            \/ desk'[b].copy["imageUrl"] = Stamp /\ i # 0 /\ desk'[b].id = products[i].id
      BY <1>2, <1>11, <2>2 DEF Holds
    <2>6. (files \ {old}) \cup (uploads' \ uploads) \subseteq files' /\ excused \subseteq excused'
      BY <1>4
    <2>7. \A u \in {old} \cap uploads : i # 0 /\ u \in Photos(products[i])
      BY <1>2, <1>13, <1>14, <2>2
    <2>8. QED BY <1>2, <1>4, <1>9, <2>4, <2>5, <2>6, <2>7, InPlacePhotos
  <1>17. PICK o : PhotoStep(o, i, {old})
    BY <1>16
  <1>18. OneOwner' /\ Apart' /\ OnDisk'
    BY <1>1, <1>12, <1>17, PhotosKept DEF CatalogInv
  <1>19. KeepsInv' /\ Listed'
    BY <1>4, <1>9, InPlaceKept DEF CatalogInv, Listed
  <1>20. QED BY <1>12, <1>15, <1>18, <1>19 DEF CatalogInv, PhotoInv

\* When the write fails, the record shows a photo that is gone: its id is excused.
LEMMA ClearProductImageKeeps ==
  ASSUME CatalogInv, NEW a \in Admins, NEW fails \in BOOLEAN, ClearProductImage(a, fails)
  PROVE  CatalogInv'
  <1> DEFINE id == desk[a].id
             i == FirstIn(products, id)
             old == All[i].value["imageUrl"]
             none == <<>>
             new == [imageUrl |-> Missing, images |-> none]
             q == Written(All[i], new, {"imageUrl"})
             d == [desk[a] EXCEPT !.copy["imageUrl"] = Missing]
  <1>1. /\ TypeInv /\ Stamps /\ changes' = changes + 1 /\ changes' \in 0..MaxChanges /\ Known \subseteq Known'
    BY ChangeFacts DEF ClearProductImage, CatalogInv, PhotoInv
  <1>2. /\ id \in Ids /\ i \in DOMAIN products /\ products[i].id = id
        /\ All[i] \in Product /\ All[i].id = id /\ Keeps(All[i])
        /\ d \in Desk /\ d.doing = "edit" /\ d.id = id /\ d.copy["imageUrl"] = Missing
    BY <1>1, FormFacts, ValueFacts DEF ClearProductImage
  <1>3. products' = IF fails THEN All ELSE [All EXCEPT ![i] = q]
    BY DEF ClearProductImage
  <1>4. /\ files' = files \ {old} /\ uploads' = uploads
        /\ desk' = IF fails THEN desk ELSE [desk EXCEPT ![a] = d]
        /\ canonical' = canonical /\ sites' = sites
        /\ excused' = IF fails THEN excused \cup {id} ELSE excused
        /\ featured' = featured /\ popular' = popular
    <2>1. desk' = IF fails THEN desk ELSE [desk EXCEPT ![a].copy["imageUrl"] = Missing]
      BY DEF ClearProductImage
    <2>2. QED BY <1>1, <2>1 DEF ClearProductImage, TypeInv
  <1> HIDE DEF i, d
  <1>5. new \in Anything /\ DOMAIN new = {"imageUrl", "images"} /\ new["imageUrl"] = Missing /\ new["images"] = <<>>
    <2>1. Missing \in Value /\ none \in Seq(Value)
      BY ValueFacts
    <2>2. DOMAIN new = {"imageUrl", "images"} /\ new["imageUrl"] = Missing /\ new["images"] = <<>>
      OBVIOUS
    <2> HIDE DEF none
    <2>3. new \in [{"imageUrl", "images"} -> Value \cup Seq(Value)]
      BY <2>1
    <2>4. {"imageUrl", "images"} \in SUBSET Keys
      BY FieldFacts
    <2>5. QED BY <2>2, <2>3, <2>4 DEF Anything
  <1> HIDE DEF new
  <1>6. Writable(new)
    BY <1>5, FieldFacts, ValueFacts DEF Writable
  <1>7. q \in Product /\ q.id = id /\ q.images = <<>> /\ q.value["imageUrl"] = Missing /\ Keeps(q)
    <2>1. {"imageUrl"} \in SUBSET Keys /\ "imageUrl" \in Fields
      BY FieldFacts
    <2>2. QED BY <1>2, <1>5, <1>6, <2>1, WrittenFacts
  <1> HIDE DEF q
  <1>8. Photos(q) = {Missing}
    BY <1>7 DEF Photos, ToSet
  <1>9. /\ InPlace /\ (\A j \in DOMAIN products : j # i => Calm(j))
        /\ IF fails THEN Calm(i) ELSE products'[i] = q
    <2>1. CASE fails
      BY <1>2, <1>3, <2>1, AllInPlace
    <2>2. CASE ~fails
      BY <1>2, <1>3, <1>7, <2>2, OneInPlace
    <2>3. QED BY <2>1, <2>2
  <1>10. /\ desk' \in [Admins -> Desk] /\ desk'[a] = IF fails THEN desk[a] ELSE d
         /\ \A b \in Admins : b # a => desk'[b] = desk[b]
    <2>1. CASE fails
      BY <1>1, <1>4, <2>1 DEF TypeInv
    <2>2. CASE ~fails
      BY <1>1, <1>2, <1>4, <2>2, DeskStep
    <2>3. QED BY <2>1, <2>2
  <1>11. TypeInv'
    BY <1>1, <1>2, <1>4, <1>9, <1>10 DEF TypeInv, InPlace
  <1>12. /\ Default \notin uploads /\ {Missing, Default, Typed} \subseteq Known
         /\ \A j \in DOMAIN products :
              /\ Photos(All[j]) \subseteq Known
              /\ Photos(All[j]) \cap uploads \subseteq Photos(products[j])
              /\ \A u \in Photos(products[j]) : Holds(u, products[j].id)
    BY PhotoFacts
  <1>13. old \in Photos(All[i]) /\ Missing \notin uploads /\ Missing \in Known'
    BY <1>1, <1>12 DEF Photos, Stamps
  <1>14. Stamps'
    <2>1. \A j \in DOMAIN products' : Photos(products'[j]) \subseteq Known'
      BY <1>1, <1>2, <1>8, <1>9, <1>12, <1>13 DEF InPlace, Calm, Stamps
    <2>2. \A b \in Admins : desk'[b].doing = "edit" => desk'[b].copy["imageUrl"] \in Known'
      BY <1>1, <1>2, <1>10, <1>13 DEF Stamps
    <2>3. \A b \in Admins : desk'[b].doing = "sync" =>
            \A x \in Ids : desk'[b].copy[x]["imageUrl"] \in Known \ uploads
      BY <1>1, <1>2, <1>10 DEF Stamps
    <2>4. \A x \in Ids : sites'[x]["imageUrl"] \in Known \ uploads
      BY <1>1, <1>4 DEF Stamps
    <2>5. QED BY <1>1, <1>4, <2>1, <2>2, <2>3, <2>4, StampsKept
  <1>15. \E o : PhotoStep(o, i, {old})
    <2>1. i # 0
      BY <1>1, <1>2 DEF TypeInv
    <2>2. \A u \in Photos(products'[i]) \cap uploads' :
            fails /\ u \in Photos(products[i]) /\ Holds(u, id) /\ id \in excused'
      BY <1>2, <1>4, <1>8, <1>9, <1>12, <1>13 DEF Calm
    <2>3. \A j \in DOMAIN products : \A u \in Photos(products'[j]) \cap uploads' :
            \/ u \in Photos(products[j]) /\ (j = i => u \notin {old})
            \/ Holds(u, products[j].id) /\ products[j].id \in excused'
      BY <1>2, <1>4, <1>9, <1>12, <2>2 DEF Calm
    <2>4. \A b \in Admins : desk'[b].doing = "edit" /\ desk'[b].copy["imageUrl"] \in uploads' =>
            Holds(desk'[b].copy["imageUrl"], desk'[b].id)
      BY <1>2, <1>4, <1>10, <1>13 DEF Holds
    <2>5. (files \ {old}) \cup (uploads' \ uploads) \subseteq files' /\ excused \subseteq excused'
      BY <1>4
    <2>6. \A u \in {old} \cap uploads : i # 0 /\ u \in Photos(products[i])
      BY <1>2, <1>12, <1>13, <2>1
    <2>7. QED BY <1>2, <1>4, <1>9, <2>3, <2>4, <2>5, <2>6, InPlacePhotos
  <1>16. PICK o : PhotoStep(o, i, {old})
    BY <1>15
  <1>17. OneOwner' /\ Apart' /\ OnDisk'
    BY <1>1, <1>11, <1>16, PhotosKept DEF CatalogInv
  <1>18. KeepsInv' /\ Listed'
    BY <1>4, <1>9, InPlaceKept DEF CatalogInv, Listed
  <1>19. QED BY <1>11, <1>14, <1>17, <1>18 DEF CatalogInv, PhotoInv

\* A product that is created has no photo of its own.
LEMMA CreateProductKeeps ==
  ASSUME CatalogInv, NEW id \in Ids, NEW sort \in {0, 2}, CreateProduct(id, sort)
  PROVE  CatalogInv'
  <1> DEFINE value == [f \in Fields |-> IF f \in Defaulted THEN Default ELSE Typed]
             r == Record(id, value, <<>>, sort)
             n == Len(All)
             o == [j \in 1..(n + 1) |-> IF j = n + 1 THEN 0 ELSE j]
  <1>1. TypeInv /\ Stamps /\ changes' = changes + 1 /\ changes' \in 0..MaxChanges /\ Known \subseteq Known'
    BY ChangeFacts DEF CreateProduct, CatalogInv, PhotoInv
  <1>2. value \in Listing /\ value["imageUrl"] = Typed
    <2>1. {Default, Typed} \subseteq Value /\ "imageUrl" \in Fields \ Defaulted
      BY ValueFacts, FieldFacts DEF Defaulted
    <2>2. QED BY <2>1 DEF Listing
  <1>3. products' = Append(All, r) /\ UNCHANGED <<canonical, sites, files, uploads, featured, popular, desk, excused>>
    BY DEF CreateProduct
  <1> HIDE DEF value
  <1>4. r \in Product /\ Keeps(r) /\ Photos(r) = {Typed}
    <2>1. <<>> \in Seq(Value) /\ sort \in 0..2
      OBVIOUS
    <2>2. r \in Product /\ Keeps(r)
      BY <1>2, <2>1, RecordFacts
    <2>3. r.value["imageUrl"] = Typed /\ r.images = <<>>
      BY <1>2 DEF Record
    <2>4. QED BY <2>2, <2>3 DEF Photos, ToSet
  <1> HIDE DEF r
  <1>5. /\ All \in Seq(Product) /\ DOMAIN All = DOMAIN products /\ DOMAIN All = 1..n /\ n \in Nat
        /\ \A j \in DOMAIN products : All[j].id = products[j].id /\ Keeps(All[j])
    <2>1. \A j \in DOMAIN products : products[j] \in Product /\ Keeps(products[j]) /\ All[j] = Repaired(products[j])
      BY <1>1, AllFacts DEF CatalogInv, KeepsInv
    <2>2. \A j \in DOMAIN products : All[j].id = products[j].id /\ Keeps(All[j])
      BY <2>1, RepairedFacts
    <2>3. QED BY <1>1, <2>2, AllFacts
  <1> HIDE DEF n
  <1>6. /\ products' \in Seq(Product) /\ DOMAIN products' = 1..(n + 1)
        /\ products'[n + 1] = r /\ \A j \in 1..n : products'[j] = All[j]
    BY <1>3, <1>4, <1>5 DEF n
  <1>7. TypeInv'
    BY <1>1, <1>3, <1>6 DEF TypeInv
  <1>8. /\ Default \notin uploads /\ {Missing, Default, Typed} \subseteq Known
        /\ \A j \in DOMAIN products :
             /\ Photos(All[j]) \subseteq Known
             /\ Photos(All[j]) \cap uploads \subseteq Photos(products[j])
    BY PhotoFacts
  <1>9. \A j \in 1..(n + 1) : j = n + 1 \/ (j \in 1..n /\ j # n + 1 /\ j # 0)
    BY <1>5
  <1>10. KeepsInv'
    <2>1. \A j \in DOMAIN products' : Keeps(products'[j])
      BY <1>4, <1>5, <1>6, <1>9
    <2>2. QED BY <1>3, <2>1 DEF KeepsInv, Keeps
  <1>11. Stamps'
    <2>1. \A j \in DOMAIN products' : Photos(products'[j]) \subseteq Known'
      BY <1>1, <1>4, <1>5, <1>6, <1>8, <1>9
    <2>2. \A b \in Admins : desk'[b].doing = "edit" => desk'[b].copy["imageUrl"] \in Known'
      BY <1>1, <1>3 DEF Stamps
    <2>3. \A b \in Admins : desk'[b].doing = "sync" =>
            \A x \in Ids : desk'[b].copy[x]["imageUrl"] \in Known \ uploads
      BY <1>1, <1>3 DEF Stamps
    <2>4. \A x \in Ids : sites'[x]["imageUrl"] \in Known \ uploads
      BY <1>1, <1>3 DEF Stamps
    <2>5. QED BY <1>1, <1>3, <2>1, <2>2, <2>3, <2>4, StampsKept
  <1>12. PhotoStep(o, 0, {})
    <2>1. /\ o \in [1..(n + 1) -> {0} \cup 1..n]
          /\ \A j \in 1..(n + 1) : o[j] = IF j = n + 1 THEN 0 ELSE j
      BY <1>9
    <2> HIDE DEF o
    <2>2. /\ o \in [DOMAIN products' -> {0} \cup DOMAIN products]
          /\ \A i, j \in DOMAIN products' : o[i] = o[j] /\ o[i] # 0 => i = j
          /\ \A i \in DOMAIN products' : o[i] # 0 => products'[i].id = products[o[i]].id
      BY <1>5, <1>6, <1>9, <2>1
    <2>3. Typed \notin uploads
      BY <1>1 DEF Stamps
    <2>4. \A i \in DOMAIN products' : \A u \in Photos(products'[i]) \cap uploads' :
            o[i] # 0 /\ u \in Photos(products[o[i]])
      BY <1>3, <1>4, <1>5, <1>6, <1>8, <1>9, <2>1, <2>3
    <2>5. \A b \in Admins : desk'[b].doing = "edit" /\ desk'[b].copy["imageUrl"] \in uploads' =>
            Holds(desk'[b].copy["imageUrl"], desk'[b].id)
      BY <1>3 DEF Holds
    <2>6. QED BY <1>3, <2>2, <2>4, <2>5 DEF PhotoStep
  <1>13. OneOwner' /\ Apart' /\ OnDisk'
    BY <1>1, <1>7, <1>12, PhotosKept DEF CatalogInv
  <1>14. Listed'
    <2>1. IdsOf(products) \subseteq IdsOf(products')
      BY <1>5, <1>6, <1>9 DEF IdsOf
    <2>2. QED BY <1>3, <2>1 DEF CatalogInv, Listed, IdsOf
  <1>15. QED BY <1>7, <1>10, <1>11, <1>13, <1>14 DEF CatalogInv, PhotoInv

\* The photos of a record go with it; no other record shows them.
LEMMA DeleteProductKeeps ==
  ASSUME CatalogInv, NEW id \in Ids, DeleteProduct(id)
  PROVE  CatalogInv'
  <1> DEFINE i == FirstIn(products, id)
             R == Photos(All[i])
  <1>1. TypeInv /\ Stamps /\ changes' = changes + 1 /\ changes' \in 0..MaxChanges /\ Known \subseteq Known'
    BY ChangeFacts DEF DeleteProduct, CatalogInv, PhotoInv
  <1>2. i \in DOMAIN products /\ products[i].id = id
    BY <1>1, FirstFacts DEF DeleteProduct, IsProduct, TypeInv
  <1>3. /\ products' = RemoveAt(All, i) /\ files' = files \ R
        /\ featured' = featured \cap IdsOf(products') /\ popular' = popular \cap IdsOf(products')
        /\ UNCHANGED <<canonical, sites, uploads, desk, excused>>
    BY DEF DeleteProduct, Pruned
  <1> HIDE DEF i, R
  <1>4. /\ All \in Seq(Product) /\ DOMAIN All = DOMAIN products
        /\ \A j \in DOMAIN products : All[j].id = products[j].id /\ Keeps(All[j])
    <2>1. \A j \in DOMAIN products : products[j] \in Product /\ Keeps(products[j]) /\ All[j] = Repaired(products[j])
      BY <1>1, AllFacts DEF CatalogInv, KeepsInv
    <2>2. \A j \in DOMAIN products : All[j].id = products[j].id /\ Keeps(All[j])
      BY <2>1, RepairedFacts
    <2>3. QED BY <1>1, <2>2, AllFacts
  <1>5. products' \in Seq(Product) /\ Moves(products', All, DOMAIN All \ {i})
    BY <1>2, <1>3, <1>4, RemoveMoves
  <1>6. PICK o \in [DOMAIN products' -> DOMAIN products \ {i}] :
          /\ \A n, m \in DOMAIN products' : o[n] = o[m] => n = m
          /\ \A n \in DOMAIN products' : products'[n] = All[o[n]]
    BY <1>4, <1>5, Zenon DEF Moves
  <1>7. TypeInv'
    BY <1>1, <1>3, <1>5 DEF TypeInv
  <1>8. \A j \in DOMAIN products :
          /\ Photos(All[j]) \subseteq Known
          /\ Photos(All[j]) \cap uploads \subseteq Photos(products[j])
    BY PhotoFacts
  <1>9. KeepsInv'
    <2>1. \A j \in DOMAIN products' : Keeps(products'[j])
      BY <1>4, <1>6
    <2>2. QED BY <1>3, <2>1 DEF KeepsInv, Keeps
  <1>10. Stamps'
    <2>1. \A j \in DOMAIN products' : Photos(products'[j]) \subseteq Known'
      BY <1>1, <1>6, <1>8
    <2>2. \A b \in Admins : desk'[b].doing = "edit" => desk'[b].copy["imageUrl"] \in Known'
      BY <1>1, <1>3 DEF Stamps
    <2>3. \A b \in Admins : desk'[b].doing = "sync" =>
            \A x \in Ids : desk'[b].copy[x]["imageUrl"] \in Known \ uploads
      BY <1>1, <1>3 DEF Stamps
    <2>4. \A x \in Ids : sites'[x]["imageUrl"] \in Known \ uploads
      BY <1>1, <1>3 DEF Stamps
    <2>5. QED BY <1>1, <1>3, <2>1, <2>2, <2>3, <2>4, StampsKept
  <1>11. PhotoStep(o, i, R)
    <2>1. 0 \notin DOMAIN products /\ i # 0
      BY <1>1, <1>2 DEF TypeInv
    <2>2. /\ o \in [DOMAIN products' -> {0} \cup DOMAIN products]
          /\ \A n \in DOMAIN products' : o[n] # 0 /\ o[n] # i /\ products'[n].id = products[o[n]].id
      BY <1>4, <1>6, <2>1
    <2>3. \A n \in DOMAIN products' : \A u \in Photos(products'[n]) \cap uploads' : u \in Photos(products[o[n]])
      BY <1>3, <1>6, <1>8
    <2>4. \A b \in Admins : desk'[b].doing = "edit" /\ desk'[b].copy["imageUrl"] \in uploads' =>
            Holds(desk'[b].copy["imageUrl"], desk'[b].id)
      BY <1>3 DEF Holds
    <2>5. \A u \in R \cap uploads : i # 0 /\ u \in Photos(products[i])
      BY <1>2, <1>8, <2>1 DEF R
    <2>6. QED BY <1>2, <1>3, <1>6, <2>2, <2>3, <2>4, <2>5 DEF PhotoStep
  <1>12. OneOwner' /\ Apart' /\ OnDisk'
    BY <1>1, <1>7, <1>11, PhotosKept DEF CatalogInv
  <1>13. Listed'
    BY <1>3 DEF Listed, IdsOf
  <1>14. QED BY <1>7, <1>9, <1>10, <1>12, <1>13 DEF CatalogInv, PhotoInv

\* A list of the elements of a finite set.
LEMMA SetToSeqFacts ==
  ASSUME NEW T, NEW S \in SUBSET T, IsFiniteSet(S)
  PROVE  SetToSeq(S) \in Seq(S) /\ SetToSeq(S) \in Seq(T)
  <1>1. Cardinality(S) \in Nat /\ ExistsBijection(1..Cardinality(S), S)
    BY FS_CardinalityType
  <1>2. \E f \in [1..Cardinality(S) -> S] : IsInjective(f)
    BY <1>1 DEF ExistsBijection, Bijection, Injection, IsInjective
  <1>3. SetToSeq(S) \in [1..Cardinality(S) -> S]
    BY <1>2 DEF SetToSeq
  <1>4. SetToSeq(S) \in [1..Cardinality(S) -> T]
    BY <1>3
  <1>5. QED BY <1>1, <1>3, <1>4, SeqDef

\* What a sync makes of the file: the record n was the record o[n], or is new (0).
Synced(t, o) ==
  /\ o \in [DOMAIN t -> {0} \cup DOMAIN products]
  /\ \A n, m \in DOMAIN t : o[n] = o[m] /\ o[n] # 0 => n = m
  /\ \A j \in DOMAIN products : \E n \in DOMAIN t : o[n] = j
  /\ \A n \in DOMAIN t :
       /\ Keeps(t[n]) /\ Photos(t[n]) \subseteq Known
       /\ o[n] # 0 => /\ t[n].id = products[o[n]].id
                      /\ Photos(t[n]) \cap uploads \subseteq Photos(products[o[n]])
       /\ o[n] = 0 => Photos(t[n]) \cap uploads = {}

LEMMA ApplyFacts ==
  ASSUME CatalogInv, NEW copy \in [Ids -> Listing], NEW mode \in {PricingMedia, Full},
         NEW created \in BOOLEAN, \A id \in Ids : copy[id]["imageUrl"] \in Known \ uploads
  PROVE  LET t == ApplySyncToMemberCatalog(copy, mode, created) IN
         t \in Seq(Product) /\ \E o : Synced(t, o)
  <1> DEFINE L(id) == copy[id] # NotListed
             merged == [i \in DOMAIN products |->
               LET id == products[i].id IN
               IF L(id) /\ i = FirstIn(products, id) THEN MergeSites(All[i], copy[id], mode) ELSE All[i]]
             From == {j \in Ids : L(j) /\ ~IsProduct(j)}
             Made(id) == Record(id, copy[id], <<copy[id]["imageUrl"]>>, 1)
             new == {Made(id) : id \in From}
             made == IF created THEN SetToSeq(new) ELSE <<>>
             s == merged \o made
             n0 == Len(products)
  <1>1. TypeInv /\ KeepsInv /\ Stamps
    BY DEF CatalogInv, PhotoInv
  <1>2. DOMAIN products = 1..n0 /\ n0 \in Nat /\ 0 \notin 1..n0
    BY <1>1 DEF TypeInv
  <1>3. \A j \in DOMAIN products :
          /\ All[j] \in Product /\ All[j].id = products[j].id /\ products[j].id \in Ids /\ Keeps(All[j])
          /\ Photos(All[j]) \subseteq Known
          /\ Photos(All[j]) \cap uploads \subseteq Photos(products[j])
    <2>1. \A j \in DOMAIN products : products[j] \in Product /\ Keeps(products[j]) /\ All[j] = Repaired(products[j])
      BY <1>1, AllFacts DEF KeepsInv
    <2>2. \A j \in DOMAIN products :
            All[j] \in Product /\ All[j].id = products[j].id /\ products[j].id \in Ids /\ Keeps(All[j])
      BY <2>1, RepairedFacts DEF Product
    <2>3. QED BY <2>2, PhotoFacts
  <1>4. ASSUME NEW j \in DOMAIN products
        PROVE  /\ merged[j] \in Product /\ merged[j].id = products[j].id /\ Keeps(merged[j])
               /\ Photos(merged[j]) \subseteq Known
               /\ Photos(merged[j]) \cap uploads \subseteq Photos(products[j])
    <2> DEFINE v == copy[products[j].id]
               p == All[j]
               q == MergeSites(p, v, mode)
    <2>1. merged[j] = q \/ merged[j] = All[j]
      OBVIOUS
    <2>2. v \in Listing /\ v["imageUrl"] \in Known \ uploads /\ p \in Product /\ Keeps(p)
      BY <1>3
    <2> HIDE DEF merged, v, p
    <2>3. q \in Product /\ q.id = p.id /\ Keeps(q) /\ Photos(q) \subseteq Photos(p) \cup {v["imageUrl"]}
      BY <2>2, MergeFacts
    <2>5. p = All[j]
      BY DEF p
    <2> HIDE DEF q
    <2>4. QED BY <1>3, <2>1, <2>2, <2>3, <2>5
  <1>5. merged \in Seq(Product) /\ DOMAIN merged = 1..n0 /\ Len(merged) = n0
    <2>1. DOMAIN merged = 1..n0
      BY <1>2
    <2>2. merged = [i \in 1..n0 |-> merged[i]]
      BY <1>2
    <2> HIDE DEF merged
    <2>3. merged \in [1..n0 -> Product]
      BY <1>2, <1>4, <2>1, <2>2
    <2>4. merged \in Seq(Product)
      BY <1>2, <2>3, SeqDef
    <2>5. QED BY <1>2, <2>1, <2>4
  <1> HIDE DEF merged, L
  <1>6. ASSUME NEW r \in new
        PROVE  r \in Product /\ Keeps(r) /\ Photos(r) \subseteq Known \ uploads
    <2>1. PICK id \in From : r = Made(id)
      OBVIOUS
    <2>2. id \in Ids /\ copy[id] \in Listing /\ copy[id]["imageUrl"] \in Known \ uploads
      OBVIOUS
    <2>3. <<copy[id]["imageUrl"]>> \in Seq(Value)
      <3>1. copy[id]["imageUrl"] \in Value
        BY <2>2, FieldFacts DEF Listing
      <3>2. QED BY <3>1
    <2>4. r \in Product /\ Keeps(r)
      <3>1. 1 \in 0..2
        OBVIOUS
      <3>2. QED BY <2>1, <2>2, <2>3, <3>1, RecordFacts
    <2>5. r.value = copy[id] /\ r.images = <<copy[id]["imageUrl"]>>
      BY <2>1 DEF Record
    <2>6. Photos(r) = {copy[id]["imageUrl"]}
      BY <2>5, ToSetOne DEF Photos
    <2>7. QED BY <2>2, <2>4, <2>6
  <1>7. made \in Seq(new) /\ made \in Seq(Product)
    <2>1. IsFiniteSet(new)
      <3> DEFINE f == [id \in From |-> Made(id)]
      <3>1. IsFiniteSet(From)
        BY CatalogAssumption, FS_Subset
      <3>2. f \in Surjection(From, new)
        BY DEF Surjection
      <3> HIDE DEF f, From
      <3>3. QED BY <3>1, <3>2, FS_Surjection
    <2>2. new \in SUBSET Product
      BY <1>6
    <2>3. <<>> \in Seq(new) /\ <<>> \in Seq(Product)
      OBVIOUS
    <2> HIDE DEF new
    <2>4. SetToSeq(new) \in Seq(new) /\ SetToSeq(new) \in Seq(Product)
      BY <2>1, <2>2, SetToSeqFacts
    <2>5. QED BY <2>3, <2>4
  <1> HIDE DEF new, made
  <1>8. /\ s \in Seq(Product) /\ DOMAIN s = 1..(n0 + Len(made)) /\ Len(made) \in Nat
        /\ DOMAIN made = 1..Len(made)
        /\ \A n \in 1..(n0 + Len(made)) : s[n] = IF n <= n0 THEN merged[n] ELSE made[n - n0]
    <2> HIDE DEF n0
    <2>1. /\ merged \o made \in Seq(Product) /\ Len(merged \o made) = Len(merged) + Len(made)
          /\ \A n \in 1..(Len(merged) + Len(made)) :
               (merged \o made)[n] = IF n <= Len(merged) THEN merged[n] ELSE made[n - Len(merged)]
      BY <1>5, <1>7, ConcatProperties
    <2>2. Len(made) \in Nat /\ DOMAIN made = 1..Len(made) /\ DOMAIN (merged \o made) = 1..Len(merged \o made)
      BY <1>7, <2>1, LenProperties
    <2>3. QED BY <1>5, <2>1, <2>2
  <1> HIDE DEF n0
  <1>9. ASSUME NEW n \in DOMAIN s
        PROVE  /\ Keeps(s[n]) /\ Photos(s[n]) \subseteq Known
               /\ n \in DOMAIN products =>
                    s[n].id = products[n].id /\ Photos(s[n]) \cap uploads \subseteq Photos(products[n])
               /\ n \notin DOMAIN products => Photos(s[n]) \cap uploads = {}
    <2>1. CASE n <= n0
      <3>1. n \in DOMAIN products /\ s[n] = merged[n]
        BY <1>2, <1>8, <2>1
      <3>2. QED BY <1>4, <3>1
    <2>2. CASE ~(n <= n0)
      <3>1. n \notin DOMAIN products /\ n - n0 \in DOMAIN made /\ s[n] = made[n - n0]
        BY <1>2, <1>8, <2>2
      <3>2. s[n] \in new
        BY <1>7, <3>1
      <3>3. QED BY <1>6, <3>1, <3>2
    <2>3. QED BY <2>1, <2>2
  <1>10. DOMAIN products \subseteq DOMAIN s
    BY <1>2, <1>8
  <1>11. ApplySyncToMemberCatalog(copy, mode, created) = Sorted(s)
    BY DEF ApplySyncToMemberCatalog, merged, made, new, L
  <1> HIDE DEF s
  <1> DEFINE t == Sorted(s)
  <1>12. t \in Seq(Product) /\ Moves(t, s, DOMAIN s)
    <2>1. \A n \in DOMAIN s : s[n].sort \in 0..2
      <3>1. s \in Seq(Product)
        BY <1>8
      <3>2. \A n \in DOMAIN s : s[n] \in Product
        BY <3>1
      <3>3. QED BY <3>2 DEF Product
    <2>2. QED BY <1>8, <2>1, SortedMoves
  <1> HIDE DEF t
  <1>13. PICK m \in [DOMAIN t -> DOMAIN s] :
           /\ \A x, y \in DOMAIN t : m[x] = m[y] => x = y
           /\ \A i \in DOMAIN s : \E n \in DOMAIN t : m[n] = i
           /\ \A n \in DOMAIN t : t[n] = s[m[n]]
    BY <1>12 DEF Moves
  <1> DEFINE o == [n \in DOMAIN t |-> IF m[n] \in DOMAIN products THEN m[n] ELSE 0]
  <1>14. /\ o \in [DOMAIN t -> {0} \cup DOMAIN products]
         /\ \A n \in DOMAIN t : o[n] = IF m[n] \in DOMAIN products THEN m[n] ELSE 0
    OBVIOUS
  <1> HIDE DEF o
  <1>15. 0 \notin DOMAIN products
    BY <1>2
  <1>16. /\ \A x, y \in DOMAIN t : o[x] = o[y] /\ o[x] # 0 => x = y
         /\ \A j \in DOMAIN products : \E n \in DOMAIN t : o[n] = j
    BY <1>10, <1>13, <1>14, <1>15
  <1>17. \A n \in DOMAIN t :
           /\ Keeps(t[n]) /\ Photos(t[n]) \subseteq Known
           /\ o[n] # 0 => /\ t[n].id = products[o[n]].id
                          /\ Photos(t[n]) \cap uploads \subseteq Photos(products[o[n]])
           /\ o[n] = 0 => Photos(t[n]) \cap uploads = {}
    BY <1>9, <1>13, <1>14, <1>15
  <1>18. Synced(t, o)
    BY <1>14, <1>16, <1>17 DEF Synced
  <1>19. QED BY <1>11, <1>12, <1>18 DEF t

\* A sync loses no record, overwrites nothing that is locked, and brings no photo of an administrator.
LEMMA ApplySyncFromSitesKeeps ==
  ASSUME CatalogInv, NEW a \in Admins, NEW mode \in {PricingMedia, Full},
         NEW created \in BOOLEAN, NEW lists \in BOOLEAN, ApplySyncFromSites(a, mode, created, lists)
  PROVE  CatalogInv'
  <1> DEFINE copy == desk[a].copy
  <1>1. TypeInv /\ Stamps
    BY DEF CatalogInv, PhotoInv
  <1>2. copy \in [Ids -> Listing] /\ \A id \in Ids : copy[id]["imageUrl"] \in Known \ uploads
    BY <1>1, DeskFacts DEF ApplySyncFromSites, Stamps
  <1>3. /\ products' = ApplySyncToMemberCatalog(copy, mode, created)
        /\ featured' = IF lists THEN SitesLayout(copy) \cap IdsOf(products') ELSE featured
        /\ desk' = [desk EXCEPT ![a] = Idle]
        /\ UNCHANGED <<canonical, sites, files, uploads, popular, excused, changes>>
    BY DEF ApplySyncFromSites, Pruned
  <1> HIDE DEF copy
  <1>4. /\ products' \in Seq(Product)
        /\ \E o : Synced(products', o)
    BY <1>2, <1>3, ApplyFacts
  <1>5. PICK o : Synced(products', o)
    BY <1>4
  <1>6. Idle \in Desk /\ Idle.doing = "nothing"
    BY DEF Desk, Idle
  <1>7. desk' \in [Admins -> Desk] /\ desk'[a] = Idle /\ \A b \in Admins : b # a => desk'[b] = desk[b]
    BY <1>1, <1>3, <1>6, DeskStep
  <1>8. TypeInv'
    BY <1>1, <1>3, <1>4, <1>7 DEF TypeInv, SitesLayout
  <1>9. KeepsInv'
    <2>1. \A n \in DOMAIN products' : Keeps(products'[n])
      BY <1>5 DEF Synced
    <2>2. QED BY <1>3, <2>1 DEF KeepsInv, Keeps
  <1>10. Stamps'
    <2>1. Known' = Known
      BY <1>3 DEF Known
    <2>2. \A n \in DOMAIN products' : Photos(products'[n]) \subseteq Known'
      BY <1>5, <2>1 DEF Synced
    <2>3. \A b \in Admins : desk'[b].doing = "edit" => desk'[b].copy["imageUrl"] \in Known'
      BY <1>1, <1>6, <1>7, <2>1 DEF Stamps
    <2>4. \A b \in Admins : desk'[b].doing = "sync" =>
            \A x \in Ids : desk'[b].copy[x]["imageUrl"] \in Known \ uploads
      BY <1>1, <1>6, <1>7 DEF Stamps
    <2>5. \A x \in Ids : sites'[x]["imageUrl"] \in Known \ uploads
      BY <1>1, <1>3 DEF Stamps
    <2>6. QED BY <1>1, <1>3, <2>2, <2>3, <2>4, <2>5, StampsKept
  <1>11. PhotoStep(o, 0, {})
    <2>1. \A n \in DOMAIN products' : o[n] # 0 => products'[n].id = products[o[n]].id
      BY <1>5 DEF Synced
    <2>2. \A n \in DOMAIN products' : \A u \in Photos(products'[n]) \cap uploads' :
            o[n] # 0 /\ u \in Photos(products[o[n]])
      BY <1>3, <1>5 DEF Synced
    <2>3. \A b \in Admins : desk'[b].doing = "edit" /\ desk'[b].copy["imageUrl"] \in uploads' =>
            Holds(desk'[b].copy["imageUrl"], desk'[b].id)
      BY <1>6, <1>7 DEF Holds
    <2>4. QED BY <1>3, <1>5, <2>1, <2>2, <2>3 DEF PhotoStep, Synced
  <1>12. OneOwner' /\ Apart' /\ OnDisk'
    BY <1>1, <1>8, <1>11, PhotosKept DEF CatalogInv
  <1>13. Listed'
    <2>1. IdsOf(products) \subseteq IdsOf(products')
      <3>1. ASSUME NEW j \in DOMAIN products PROVE products[j].id \in IdsOf(products')
        <4>1. j # 0
          BY <1>1 DEF TypeInv
        <4>2. PICK n \in DOMAIN products' : o[n] = j
          BY <1>5 DEF Synced
        <4>3. products'[n].id = products[j].id
          BY <1>5, <4>1, <4>2 DEF Synced
        <4>4. QED BY <4>3 DEF IdsOf
      <3>2. QED BY <3>1 DEF IdsOf
    <2>2. QED BY <1>3, <2>1 DEF CatalogInv, Listed, IdsOf
  <1>14. QED BY <1>8, <1>9, <1>10, <1>12, <1>13 DEF CatalogInv, PhotoInv

---------------------------------------------------------------------------
(* The theorems *)

\* One product, as seeded or with a photo that somebody uploaded.
LEMMA InitKeeps ==
  ASSUME CatalogInit
  PROVE  CatalogInv
  <1> DEFINE value == [f \in Fields |-> IF f \in Defaulted THEN Missing ELSE Default]
             one == <<Uploaded>>
             new == [imageUrl |-> Uploaded, images |-> one]
  <1>1. value \in Listing /\ value["imageUrl"] = Default
    <2>1. {Missing, Default} \subseteq Value /\ "imageUrl" \in Fields \ Defaulted
      BY ValueFacts, FieldFacts DEF Defaulted
    <2>2. QED BY <2>1 DEF Listing
  <1>2. PICK id \in Ids :
          LET seeded == Record(id, value, <<Default>>, 1)
          IN products = <<IF uploads = {} THEN seeded ELSE Written(seeded, new, {"imageUrl"})>>
    BY DEF CatalogInit
  <1> HIDE DEF value
  <1> DEFINE seeded == Record(id, value, <<Default>>, 1)
             p == IF uploads = {} THEN seeded ELSE Written(seeded, new, {"imageUrl"})
  <1>3. {Missing, Default, Typed, Uploaded} \subseteq Value /\ "imageUrl" \in Fields
    BY ValueFacts, FieldFacts
  <1>4. seeded \in Product /\ Keeps(seeded) /\ Photos(seeded) = {Default}
    <2>1. <<Default>> \in Seq(Value) /\ 1 \in 0..2
      BY <1>3
    <2>2. seeded \in Product /\ Keeps(seeded)
      BY <1>1, <2>1, RecordFacts
    <2>3. seeded.value = value /\ seeded.images = <<Default>>
      BY DEF Record
    <2>4. QED BY <1>1, <2>2, <2>3, ToSetOne DEF Photos
  <1> HIDE DEF seeded
  <1>5. new \in Anything /\ DOMAIN new = {"imageUrl", "images"} /\ new["imageUrl"] = Uploaded
        /\ new["images"] = <<Uploaded>> /\ new["images"] \in Seq(Value)
    <2>1. one \in Seq(Value) /\ Uploaded \in Value
      BY <1>3
    <2>2. DOMAIN new = {"imageUrl", "images"} /\ new["imageUrl"] = Uploaded /\ new["images"] = <<Uploaded>>
      OBVIOUS
    <2>3. new["images"] \in Seq(Value)
      BY <2>1
    <2> HIDE DEF one
    <2>4. new \in [{"imageUrl", "images"} -> Value \cup Seq(Value)]
      BY <2>1
    <2>5. {"imageUrl", "images"} \in SUBSET Keys
      BY FieldFacts
    <2>6. QED BY <2>2, <2>3, <2>4, <2>5 DEF Anything
  <1> HIDE DEF new
  <1>6. p \in Product /\ Keeps(p) /\ Photos(p) \subseteq {Default, Uploaded}
    <2>1. CASE uploads = {}
      BY <1>4, <2>1
    <2>2. CASE uploads # {}
      <3> DEFINE q == Written(seeded, new, {"imageUrl"})
      <3>1. Writable(new)
        BY <1>3, <1>5, FieldFacts DEF Writable
      <3>2. {"imageUrl"} \in SUBSET Keys
        BY FieldFacts
      <3>3. q \in Product /\ Keeps(q) /\ q.images = <<Uploaded>> /\ q.value["imageUrl"] = Uploaded
        BY <1>3, <1>4, <1>5, <3>1, <3>2, WrittenFacts
      <3> HIDE DEF q
      <3>4. Photos(q) = {Uploaded}
        BY <3>3, ToSetOne DEF Photos
      <3>5. p = q
        BY <2>2 DEF q
      <3>6. QED BY <3>3, <3>4, <3>5
    <2>3. QED BY <2>1, <2>2
  <1>7. products = <<p>>
    BY <1>2 DEF seeded
  <1> HIDE DEF p
  <1>8. products \in Seq(Product) /\ DOMAIN products = {1} /\ products[1] = p
    BY <1>6, <1>7
  <1>9. /\ canonical \subseteq Ids /\ uploads \in {{}, {Uploaded}} /\ files = uploads
        /\ sites = [x \in Ids |-> NotListed] /\ featured = {} /\ popular = {} /\ excused = {}
        /\ desk = [a \in Admins |-> Idle] /\ changes = 0
    BY DEF CatalogInit
  <1>10. Idle \in Desk /\ Idle.doing = "nothing" /\ NotListed \in Listing /\ NotListed["imageUrl"] = Missing
    BY <1>3 DEF Desk, Idle, NotListed, Listing
  <1>11. TypeInv
    <2>1. 0 \in 0..MaxChanges
      BY CatalogAssumption
    <2>2. QED BY <1>3, <1>8, <1>9, <1>10, <2>1 DEF TypeInv
  <1>12. \A a \in Admins : desk[a].doing = "nothing"
    BY <1>9, <1>10
  <1>13. Known = {Missing, Default, Typed, Uploaded}
         /\ uploads \subseteq Known \ {Missing, Default, Typed}
    BY <1>9 DEF Known, Missing, Default, Typed, Uploaded
  <1>14. Stamps
    BY <1>6, <1>8, <1>9, <1>10, <1>12, <1>13 DEF Stamps
  <1>15. \A u, x : Holds(u, x) => x = products[1].id
    BY <1>8, <1>12 DEF Holds
  <1>16. OneOwner /\ Apart /\ OnDisk
    BY <1>8, <1>9, <1>15 DEF OneOwner, Apart, OnDisk
  <1>17. KeepsInv /\ Listed
    BY <1>6, <1>8, <1>9 DEF KeepsInv, Listed
  <1>18. QED BY <1>11, <1>14, <1>16, <1>17 DEF CatalogInv, PhotoInv

\* Every step keeps the invariant.
LEMMA NextKeeps ==
  ASSUME CatalogInv, [CatalogNext]_catalogVars
  PROVE  CatalogInv'
  <1>1. CASE UNCHANGED catalogVars
    BY <1>1 DEF CatalogInv, TypeInv, KeepsInv, Keeps, PhotoInv, Stamps, Known, OneOwner, Holds, Apart, OnDisk,
                Listed, IdsOf, Photos, Stamp, catalogVars
  <1>2. ASSUME NEW a \in Admins, NEW id \in Ids, OpenForm(a, id) PROVE CatalogInv'
    BY <1>2, OpenFormKeeps
  <1>3. ASSUME NEW a \in Admins, NEW edit \in Edits, UpdateProduct(a, edit) PROVE CatalogInv'
    BY <1>3, UpdateProductKeeps
  <1>4. ASSUME NEW a \in Admins, CloseForm(a) PROVE CatalogInv'
    BY <1>4, CloseFormKeeps
  <1>5. ASSUME NEW a \in Admins, ResetProductSyncOverrides(a) PROVE CatalogInv'
    BY <1>5, ResetKeeps
  <1>6. ASSUME NEW a \in Admins, AttachProductImage(a) PROVE CatalogInv'
    BY <1>6, AttachProductImageKeeps
  <1>7. ASSUME NEW a \in Admins, NEW fails \in BOOLEAN, ClearProductImage(a, fails) PROVE CatalogInv'
    BY <1>7, ClearProductImageKeeps
  <1>8. ASSUME NEW a \in Admins, LoadSitesCatalog(a) PROVE CatalogInv'
    BY <1>8, LoadSitesCatalogKeeps
  <1>9. ASSUME NEW a \in Admins, NEW mode \in {PricingMedia, Full}, NEW created \in BOOLEAN, NEW lists \in BOOLEAN,
               ApplySyncFromSites(a, mode, created, lists)
        PROVE  CatalogInv'
    BY <1>9, ApplySyncFromSitesKeeps
  <1>10. ASSUME NEW id \in Ids, NEW sort \in {0, 2}, CreateProduct(id, sort) PROVE CatalogInv'
    BY <1>10, CreateProductKeeps
  <1>11. ASSUME NEW S \in SUBSET Ids, SetLayout(S) \/ SetPopularConfig(S) PROVE CatalogInv'
    BY <1>11, SetLayoutKeeps, SetPopularConfigKeeps
  <1>12. ASSUME NEW id \in Ids, DeleteProduct(id) PROVE CatalogInv'
    BY <1>12, DeleteProductKeeps
  <1>13. ASSUME NEW id \in Ids, NEW without \in SUBSET {"variants"}, Publish(id, without) PROVE CatalogInv'
    BY <1>13, PublishKeeps
  <1>14. CASE Read
    BY <1>14, ReadKeeps
  <1>15. QED
    BY <1>1, <1>2, <1>3, <1>4, <1>5, <1>6, <1>7, <1>8, <1>9, <1>10, <1>11, <1>12, <1>13, <1>14, Zenon DEF CatalogNext

\* The inductive invariant: types, what records keep, photos, and the lists of the home page.
THEOREM CatalogInvariant == CatalogSpec => []CatalogInv
  <1>1. CatalogInit => CatalogInv
    BY InitKeeps
  <1>2. CatalogInv /\ [CatalogNext]_catalogVars => CatalogInv'
    BY NextKeeps
  <1>3. QED BY <1>1, <1>2, PTL DEF CatalogSpec

\* What the invariant says of the types.
LEMMA TypesHold ==
  ASSUME CatalogInv
  PROVE  CatalogTypes
  <1>1. SUFFICES ASSUME TypeInv PROVE CatalogTypes
    BY DEF CatalogInv
  <1>2. \A i \in DOMAIN products : products[i] \in Product
    BY <1>1, AllFacts
  <1>3. \A i \in DOMAIN products : DOMAIN products[i].kept \subseteq Fields \cup {"images"}
    BY <1>2 DEF Product, Anything, Keys
  <1>4. \A i \in DOMAIN products :
          /\ products[i].id \in Ids /\ products[i].value \in Listing
          /\ products[i].images \in Seq(Value)
          /\ products[i].locks \subseteq Fields \cup {"images"}
          /\ products[i].sort \in 0..2
    BY <1>2 DEF Product, Keys
  <1>5. \A a \in Admins : desk[a] \in Desk
    BY <1>1 DEF TypeInv
  <1>6. \A a \in Admins :
          \/ desk[a] = Idle
          \/ desk[a].doing = "edit" /\ desk[a].id \in Ids /\ desk[a].copy \in Listing
          \/ desk[a].doing = "sync" /\ desk[a].copy \in [Ids -> Listing]
    BY <1>5 DEF Desk
  <1>7. QED BY <1>1, <1>3, <1>4, <1>6 DEF TypeInv, CatalogTypes

\* Every variable keeps its type: the records of the file, the forms, the catalogue that is published.
THEOREM CatalogTypesAlways == CatalogSpec => []CatalogTypes
  <1>1. CatalogInv => CatalogTypes
    BY TypesHold
  <1>2. QED BY <1>1, CatalogInvariant, PTL

\* What an administrator wrote survives every sync, of whatever mode and however old its copy: what
\* is locked is not taken, and what is written is locked together with its group.
THEOREM EditsSurviveSyncAlways == CatalogSpec => []EditsSurviveSync
  <1>1. CatalogInv => EditsSurviveSync
    BY DEF CatalogInv, KeepsInv, Keeps, EditsSurviveSync
  <1>2. QED BY <1>1, CatalogInvariant, PTL

\* No photo that is shown is removed from the disk (forms that are out of date and failed writes
\* excepted), since every photo has one owner; and the lists name products that exist.
THEOREM NothingDanglesAlways == CatalogSpec => []NothingDangles
  <1>1. CatalogInv => NothingDangles
    BY DEF CatalogInv, PhotoInv, OnDisk, Listed, NothingDangles
  <1>2. QED BY <1>1, CatalogInvariant, PTL
=============================================================================
