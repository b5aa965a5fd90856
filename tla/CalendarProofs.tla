--------------------------- MODULE CalendarProofs ---------------------------
(***************************************************************************)
(* Proofs about Calendar, for any number of plans, days and meals, and for    *)
(* any capacity.                                                            *)
(***************************************************************************)
EXTENDS Calendar, FiniteSetTheorems, TLAPS

---------------------------------------------------------------------------
(* Sums *)

\* There are n numbers from b on.
LEMMA IntervalSize ==
  \A b, n \in Nat : IsFiniteSet(b..(b + n - 1)) /\ Cardinality(b..(b + n - 1)) = n
                   /\ IsFiniteSet(1..n) /\ Cardinality(1..n) = n
  <1> TAKE b, n \in Nat
  <1> DEFINE e == b + n - 1
  <1>1. b \in Int /\ e \in Int /\ n = e - b + 1 /\ (b > e => n = 0) /\ 1 \in Int /\ n \in Int
    OBVIOUS
  <1> HIDE DEF e
  <1>2. IsFiniteSet(b..e) /\ Cardinality(b..e) = IF b > e THEN 0 ELSE e - b + 1
    BY <1>1, FS_Interval
  <1>3. IsFiniteSet(1..n) /\ Cardinality(1..n) = IF 1 > n THEN 0 ELSE n - 1 + 1
    BY <1>1, FS_Interval
  <1>4. Cardinality(b..e) = n /\ Cardinality(1..n) = n
    BY <1>1, <1>2, <1>3
  <1>5. QED BY <1>2, <1>3, <1>4 DEF e

\* A sum over finitely many is a number, at least each of its terms.
LEMMA SumFacts ==
  ASSUME NEW S, IsFiniteSet(S), NEW n, \A x \in S : n[x] \in Nat
  PROVE  /\ IsFiniteSet(Heap(n, S)) /\ SumOf(n, S) \in Nat
         /\ \A x \in S : n[x] <= SumOf(n, S)
  <1> DEFINE part(x) == {x} \X (1..n[x])
  <1>1. \A x \in S : IsFiniteSet(part(x)) /\ Cardinality(part(x)) = n[x]
    <2> TAKE x \in S
    <2>1. IsFiniteSet({x}) /\ Cardinality({x}) = 1
      BY FS_Singleton
    <2>2. n[x] \in Nat
      OBVIOUS
    <2>3. IsFiniteSet(1..n[x]) /\ Cardinality(1..n[x]) = n[x]
      BY <2>2, IntervalSize
    <2>4. IsFiniteSet(part(x)) /\ Cardinality(part(x)) = 1 * n[x]
      BY <2>1, <2>3, FS_Product
    <2>5. QED BY <2>2, <2>4
  <1> HIDE DEF part
  <1> DEFINE parts == {part(x) : x \in S}
             f == [x \in S |-> part(x)]
  <1>2. f \in Surjection(S, parts)
    BY DEF Surjection
  <1>3. IsFiniteSet(parts) /\ \A T \in parts : IsFiniteSet(T)
    BY <1>1, <1>2, FS_Surjection
  <1>4. IsFiniteSet(UNION parts)
    BY <1>3, FS_UNION
  <1>5. Heap(n, S) = UNION parts
    BY DEF Heap, part
  <1>6. \A x \in S : part(x) \subseteq Heap(n, S)
    BY <1>5
  <1>7. SumOf(n, S) \in Nat
    BY <1>4, <1>5, FS_CardinalityType DEF SumOf
  <1>8. \A x \in S : Cardinality(part(x)) <= SumOf(n, S)
    BY <1>4, <1>5, <1>6, FS_Subset DEF SumOf
  <1>9. QED BY <1>1, <1>4, <1>5, <1>7, <1>8

\* A pair of a heap.
LEMMA HeapPair ==
  ASSUME NEW n, NEW S, NEW y
  PROVE  y \in Heap(n, S) <=> \E x \in S : \E i \in 1..n[x] : y = <<x, i>>
  BY DEF Heap

\* Things that are put in classes are as many as the classes have together.
Class(W, f, x) == {k \in W : f[k] = x}

LEMMA SumOfClasses ==
  ASSUME NEW W, IsFiniteSet(W), NEW S, NEW f \in [W -> S], NEW n,
         \A x \in S : n[x] = Cardinality(Class(W, f, x))
  PROVE  SumOf(n, S) = Cardinality(W)
  <1> DEFINE class(x) == Class(W, f, x)
             counting(x) == CHOOSE g : g \in Bijection(1..n[x], class(x))
             h == [y \in Heap(n, S) |-> counting(y[1])[y[2]]]
  <1>1. \A x \in S : IsFiniteSet(class(x)) /\ n[x] = Cardinality(class(x))
    BY FS_Subset DEF Class
  <1> HIDE DEF class
  <1>2. \A x \in S : counting(x) \in Bijection(1..n[x], class(x))
    BY <1>1, FS_CardinalityType DEF ExistsBijection
  <1> HIDE DEF counting
  <1>3. \A x \in S : /\ counting(x) \in [1..n[x] -> class(x)]
                     /\ \A i, j \in 1..n[x] : counting(x)[i] = counting(x)[j] => i = j
                     /\ \A k \in class(x) : \E i \in 1..n[x] : counting(x)[i] = k
    BY <1>2 DEF Bijection, Injection, Surjection, IsInjective
  <1>4. \A x \in S : \A k \in class(x) : k \in W /\ f[k] = x
    BY DEF class, Class
  <1>5. \A x \in S : \A i \in 1..n[x] : <<x, i>> \in Heap(n, S) /\ h[<<x, i>>] = counting(x)[i]
    BY HeapPair
  <1> HIDE DEF h
  <1>6. h \in [Heap(n, S) -> W]
    <2>1. ASSUME NEW y \in Heap(n, S) PROVE h[y] \in W
      <3>1. PICK x \in S : \E i \in 1..n[x] : y = <<x, i>>
        BY HeapPair
      <3>2. PICK i \in 1..n[x] : y = <<x, i>>
        BY <3>1
      <3>3. h[<<x, i>>] = counting(x)[i]
        BY <1>5, Zenon
      <3>4. counting(x)[i] \in class(x)
        BY <1>3
      <3>5. counting(x)[i] \in W
        BY <1>4, <3>4
      <3>6. QED BY <3>2, <3>3, <3>5, Zenon
    <2>2. h = [y \in Heap(n, S) |-> h[y]]
      BY DEF h
    <2>3. QED BY <2>1, <2>2
  <1>7. ASSUME NEW y \in Heap(n, S), NEW z \in Heap(n, S), h[y] = h[z] PROVE y = z
    <2>1. PICK x \in S : \E i \in 1..n[x] : y = <<x, i>>
      BY HeapPair
    <2>2. PICK i \in 1..n[x] : y = <<x, i>>
      BY <2>1
    <2>3. PICK u \in S : \E j \in 1..n[u] : z = <<u, j>>
      BY HeapPair
    <2>4. PICK j \in 1..n[u] : z = <<u, j>>
      BY <2>3
    <2>5. counting(x)[i] \in class(x) /\ counting(u)[j] \in class(u) /\ counting(x)[i] = counting(u)[j]
      <3>1. h[<<x, i>>] = counting(x)[i] /\ h[<<u, j>>] = counting(u)[j]
        BY <1>5, Zenon
      <3>2. h[<<x, i>>] = h[<<u, j>>]
        BY <1>7, <2>2, <2>4, Zenon
      <3>3. counting(x)[i] \in class(x) /\ counting(u)[j] \in class(u)
        BY <1>3
      <3>4. QED BY <3>1, <3>2, <3>3
    <2>6. x = u
      BY <1>4, <2>5
    <2>7. i = j
      BY <1>3, <2>5, <2>6
    <2>8. QED BY <2>2, <2>4, <2>6, <2>7
  <1>8. ASSUME NEW k \in W PROVE \E y \in Heap(n, S) : h[y] = k
    <2>1. f[k] \in S /\ k \in class(f[k])
      BY DEF class, Class
    <2>2. PICK i \in 1..n[f[k]] : counting(f[k])[i] = k
      BY <1>3, <2>1
    <2>3. QED BY <1>5, <2>1, <2>2
  <1>9. h \in Bijection(Heap(n, S), W)
    BY <1>6, <1>7, <1>8 DEF Bijection, Injection, Surjection, IsInjective
  <1>10. \A x \in S : n[x] \in Nat
    BY <1>1, FS_CardinalityType
  <1>11. IsFiniteSet(Heap(n, S))
    <2>1. h \in Injection(Heap(n, S), W)
      BY <1>9 DEF Bijection
    <2>2. QED BY <2>1, FS_Injection
  <1>12. QED BY <1>9, <1>11, FS_Bijection DEF ExistsBijection, SumOf

---------------------------------------------------------------------------
(* Meals dealt in turn *)

LEMMA Quotient ==
  ASSUME NEW N \in Int, N > 0, NEW x \in Int
  PROVE  x % N \in 0..(N - 1) /\ \E q \in Int : x = N * q + (x % N)
  <1>1. x % N \in 0..(N - 1)
    OBVIOUS
  <1>2. \E q \in Int : x = N * q + (x % N)
    BY SMTT(30)
  <1>3. QED BY <1>1, <1>2

\* Numbers less than N apart have different remainders.
LEMMA Remainders ==
  ASSUME NEW N \in Nat \ {0}, NEW x \in Nat, NEW y \in Nat
  PROVE  x % N \in 0..(N - 1) /\ (x < y /\ y - x < N => x % N # y % N)
  <1>1. N \in Int /\ N > 0 /\ x \in Int /\ y \in Int
    OBVIOUS
  <1>2. x % N \in 0..(N - 1) /\ y % N \in 0..(N - 1)
    BY <1>1
  <1>3. PICK a \in Int : x = N * a + (x % N)
    BY <1>1, Quotient, Zenon
  <1>4. PICK b \in Int : y = N * b + (y % N)
    BY <1>1, Quotient, Zenon
  <1>5. ASSUME x < y, y - x < N, x % N = y % N PROVE FALSE
    <2> DEFINE c == b - a
               r == x % N
    <2>1. r \in Int /\ x = N * a + r /\ y = N * b + r
      BY <1>2, <1>3, <1>4, <1>5
    <2> HIDE DEF r
    <2>2. N * c = y - x /\ c \in Int
      BY <2>1
    <2> HIDE DEF c
    <2>3. N * c > 0 /\ N * c < N
      BY <1>5, <2>2
    <2>4. CASE c <= 0
      <3>1. N * c <= 0
        BY <2>2, <2>4
      <3>2. QED BY <2>2, <2>3, <3>1
    <2>5. CASE c >= 1
      <3>1. N * c >= N
        BY <2>2, <2>5
      <3>2. QED BY <2>2, <2>3, <3>1
    <2>6. QED BY <2>2, <2>4, <2>5
  <1>6. QED BY <1>2, <1>5

\* Of N numbers in a row each remainder has one.
LEMMA OneInTurn ==
  ASSUME NEW N \in Nat \ {0}, NEW b \in Nat, NEW r \in 0..(N - 1)
  PROVE  Cardinality({x \in b..(b + N - 1) : x % N = r}) = 1
  <1> DEFINE W == b..(b + N - 1)
             rest == [x \in W |-> x % N]
  <1>1. W \subseteq Nat /\ IsFiniteSet(W) /\ Cardinality(W) = N
    BY IntervalSize
  <1>2. IsFiniteSet(0..(N - 1)) /\ Cardinality(0..(N - 1)) = N
    <2>1. IsFiniteSet(0..(0 + N - 1)) /\ Cardinality(0..(0 + N - 1)) = N
      BY IntervalSize
    <2>2. 0 + N - 1 = N - 1
      OBVIOUS
    <2>3. QED BY <2>1, <2>2
  <1>3. \A x, y \in W : x < y => y - x < N
    OBVIOUS
  <1> HIDE DEF W
  <1>4. \A x, y \in W : x % N = y % N => x = y
    <2> SUFFICES ASSUME NEW x \in W, NEW y \in W, x % N = y % N PROVE x = y
      OBVIOUS
    <2>1. x \in Nat /\ y \in Nat
      BY <1>1
    <2>2. ~(x < y) /\ ~(y < x)
      BY <1>3, <2>1, Remainders
    <2>3. QED BY <2>1, <2>2
  <1>5. rest \in Injection(W, 0..(N - 1))
    <2>1. \A x \in W : x % N \in 0..(N - 1)
      BY <1>1, Remainders
    <2>2. QED BY <1>4, <2>1 DEF Injection, IsInjective
  <1>6. rest \in Surjection(W, 0..(N - 1))
    BY <1>1, <1>2, <1>5, FS_Injection
  <1>7. PICK x \in W : rest[x] = r
    BY <1>6 DEF Surjection
  <1>8. {y \in W : y % N = r} = {x}
    BY <1>4, <1>7
  <1>9. QED BY <1>8, FS_Singleton DEF W

\* Of c meals from the b-th on, those of the i-th of N plans.
Turns(b, c, N, i) == {k \in b..(b + c - 1) : k % N = i - 1}

\* s lists S, once each.
Lists(s, S) ==
  /\ s \in Seq(S) /\ \A i, j \in 1..Len(s) : s[i] = s[j] => i = j
  /\ \A x \in S : \E i \in 1..Len(s) : s[i] = x

\* n holds what each of the plans in s gets.
Shared(n, s, b, c) == \A i \in 1..Len(s) : n[s[i]] = Cardinality(Turns(b, c, Len(s), i))

\* The shares of the plans are what is dealt.
LEMMA DealtOut ==
  ASSUME NEW b \in Nat, NEW c \in Nat, NEW S, NEW s, Lists(s, S), Len(s) > 0, NEW n, Shared(n, s, b, c)
  PROVE  SumOf(n, S) = c
  <1> DEFINE N == Len(s)
             W == b..(b + c - 1)
             f == [k \in W |-> s[(k % N) + 1]]
  <1>0. N \in Nat \ {0} /\ N = Len(s)
    BY DEF Lists
  <1> HIDE DEF N
  <1>1. IsFiniteSet(W) /\ Cardinality(W) = c /\ W \subseteq Nat
    <2>1. IsFiniteSet(W) /\ Cardinality(W) = c
      BY IntervalSize
    <2>2. W \subseteq Nat
      OBVIOUS
    <2>3. QED BY <2>1, <2>2
  <1> HIDE DEF W
  <1>2. \A k \in W : k % N \in 0..(N - 1)
    BY <1>0, <1>1, Remainders
  <1>3. \A k \in W : (k % N) + 1 \in 1..N
    BY <1>0, <1>2
  <1>4. /\ \A i, j \in 1..N : s[i] = s[j] => i = j
        /\ \A x \in S : \E i \in 1..N : s[i] = x
        /\ \A i \in 1..N : s[i] \in S
        /\ \A i \in 1..N : n[s[i]] = Cardinality(Turns(b, c, N, i))
    BY <1>0 DEF Lists, Shared
  <1>5. f \in [W -> S]
    BY <1>3, <1>4
  <1>6. ASSUME NEW x \in S PROVE n[x] = Cardinality(Class(W, f, x))
    <2>1. PICK i \in 1..N : s[i] = x
      BY <1>4
    <2>2. \A k \in W : f[k] = x <=> (k % N) + 1 = i
      BY <1>3, <1>4, <2>1
    <2>3. \A k \in W : (k % N) + 1 = i <=> k % N = i - 1
      BY <1>0, <1>2
    <2>4. \A k \in W : f[k] = x <=> k % N = i - 1
      BY <2>2, <2>3, Zenon
    <2>5. Class(W, f, x) = Turns(b, c, N, i)
      BY <2>4, Zenon DEF Class, Turns, W
    <2>6. QED BY <1>4, <2>1, <2>5
  <1>7. \A x \in S : n[x] = Cardinality(Class(W, f, x))
    BY <1>6
  <1>8. IsFiniteSet(W)
    BY <1>1
  <1> HIDE DEF f
  <1>9. SumOf(n, S) = Cardinality(W)
    BY <1>5, <1>7, <1>8, SumOfClasses, Zenon
  <1>10. QED BY <1>1, <1>9

---------------------------------------------------------------------------
(* The plans in order *)

\* A part that misses one is smaller.
LEMMA Smaller ==
  ASSUME NEW J, IsFiniteSet(J), NEW x \in J, NEW A, A \subseteq J \ {x}
  PROVE  /\ Cardinality(J) \in Nat /\ Cardinality(A) \in Nat
         /\ IsFiniteSet(A) /\ Cardinality(A) < Cardinality(J)
  <1>1. IsFiniteSet(J \ {x}) /\ Cardinality(J \ {x}) = Cardinality(J) - 1 /\ Cardinality(J) \in Nat
    BY FS_RemoveElement, FS_CardinalityType
  <1>2. IsFiniteSet(A) /\ Cardinality(A) <= Cardinality(J \ {x})
    BY <1>1, FS_Subset
  <1>3. Cardinality(A) \in Nat
    BY <1>2, FS_CardinalityType
  <1>4. QED BY <1>1, <1>2, <1>3

\* InOrder lists the plans, each once.
LEMMA InOrderLists ==
  ASSUME NEW P, IsFiniteSet(P), P \subseteq Nat
  PROVE  Lists(InOrder(P), P) /\ Len(InOrder(P)) = Cardinality(P)
  <1> DEFINE N == Cardinality(P)
             below(p) == {q \in P : q < p}
             place == [p \in P |-> Cardinality(below(p)) + 1]
             s == InOrder(P)
  <1>1. \A p \in P : below(p) \subseteq P \ {p}
    OBVIOUS
  <1>2. \A p, q \in P : p < q => p \in below(q) /\ below(p) \subseteq below(q) \ {p}
    <2> SUFFICES ASSUME NEW p \in P, NEW q \in P, p < q
                 PROVE  p \in below(q) /\ \A o \in below(p) : o \in below(q) /\ o # p
      OBVIOUS
    <2>1. \A o \in P : o < p => o < q /\ o # p
      OBVIOUS
    <2>2. QED BY <2>1
  <1> HIDE DEF below
  <1>3. N \in Nat
    BY FS_CardinalityType
  <1>4. \A p \in P : IsFiniteSet(below(p)) /\ Cardinality(below(p)) \in Nat /\ Cardinality(below(p)) < N
    BY <1>1, Smaller
  <1>5. \A p, q \in P : p < q => Cardinality(below(p)) < Cardinality(below(q))
    BY <1>2, <1>4, Smaller
  <1> HIDE DEF N
  <1>6. \A p, q \in P : Cardinality(below(p)) = Cardinality(below(q)) => p = q
    <2> SUFFICES ASSUME NEW p \in P, NEW q \in P, Cardinality(below(p)) = Cardinality(below(q))
                 PROVE  p = q
      OBVIOUS
    <2>1. p \in Nat /\ q \in Nat /\ Cardinality(below(p)) \in Nat
      BY <1>4
    <2>2. ~(p < q) /\ ~(q < p)
      BY <1>5, <2>1
    <2>3. QED BY <2>1, <2>2
  <1>7. place \in Injection(P, 1..N)
    <2>1. \A p \in P : place[p] \in 1..N
      BY <1>3, <1>4
    <2>2. \A p, q \in P : place[p] = place[q] => p = q
      BY <1>4, <1>6
    <2>3. QED BY <2>1, <2>2 DEF Injection, IsInjective
  <1>8. IsFiniteSet(1..N) /\ Cardinality(1..N) = N
    BY <1>3, IntervalSize
  <1>9. place \in Surjection(P, 1..N)
    BY <1>7, <1>8, FS_Injection DEF N
  <1>10. \A i \in 1..N : \E p \in P : Cardinality(below(p)) = i - 1
    <2> TAKE i \in 1..N
    <2>1. PICK p \in P : place[p] = i
      BY <1>9 DEF Surjection
    <2>2. QED BY <1>3, <1>4, <2>1
  <1>11. s = [i \in 1..N |-> CHOOSE p \in P : Cardinality(below(p)) = i - 1]
    BY DEF InOrder, N, below
  <1>12. \A i \in 1..N : s[i] \in P /\ Cardinality(below(s[i])) = i - 1
    BY <1>10, <1>11
  <1>13. s \in [1..N -> P]
    BY <1>11, <1>12
  <1> HIDE DEF s
  <1>14. s \in Seq(P) /\ Len(s) = N
    BY <1>3, <1>13
  <1>15. \A i, j \in 1..N : s[i] = s[j] => i = j
    BY <1>3, <1>12
  <1>16. \A p \in P : \E i \in 1..N : s[i] = p
    <2> TAKE p \in P
    <2> DEFINE i == Cardinality(below(p)) + 1
    <2>1. i \in 1..N /\ i - 1 = Cardinality(below(p))
      BY <1>3, <1>4
    <2>2. Cardinality(below(s[i])) = Cardinality(below(p)) /\ s[i] \in P
      BY <1>12, <2>1
    <2>3. s[i] = p
      BY <1>6, <2>2
    <2>4. QED BY <2>1, <2>3
  <1>17. QED BY <1>14, <1>15, <1>16 DEF Lists, N, s

---------------------------------------------------------------------------
(* Types *)

Counts == [lunch : Nat, dinner : Nat]
Doings == {"closed", "open", "saving", "saved", "refused"}
Tabs == [doing : Doings, plans : Seq(1..Sets), draft : [Days -> Meals],
         next : Nat, from : Nat, rules : Rules, counted : BOOLEAN, free : SUBSET Days,
         changed : BOOLEAN, taps : Nat, filled : BOOLEAN, stale : BOOLEAN, touched : BOOLEAN]

\* A row is of a plan's size, a scheduled one has meals, and one that is not there has none.
Rows == [status : {"none", "SCHEDULED", "DELIVERED", "SKIPPED"}, meals : Meals]
SoundRows ==
  {r \in Rows : /\ PacksIn(r.meals) <= MaxMeals
                /\ r.status = "none" => r.meals = None
                /\ r.status = "SCHEDULED" => r.meals # None}

LEMMA Numbers ==
  ASSUME CalendarNumbers
  PROVE  /\ Sets \in Nat /\ Sets > 0 /\ MaxMeals \in Nat /\ MaxDay \in Nat /\ DailyPacks \in Nat
         /\ LeadDays \in Nat /\ DurationDays \in Nat
         /\ MaxTaps \in Nat /\ MaxSaves \in Nat /\ MaxEvents \in Nat
         /\ Most \in Nat /\ MaxMeals <= Most /\ (MaxMeals > 0 => Sets <= Most) /\ NoEnd \in Nat
         /\ IsFiniteSet(Days) /\ Days \subseteq Nat
         /\ IsFiniteSet(1..Sets) /\ Cardinality(1..Sets) = Sets /\ 1..Sets \subseteq Nat
         /\ Meals \subseteq Counts /\ None \in Meals
  <1>1. /\ Sets \in Nat /\ Sets > 0 /\ MaxMeals \in Nat /\ MaxDay \in Nat /\ DailyPacks \in Nat
        /\ LeadDays \in Nat /\ DurationDays \in Nat
        /\ MaxTaps \in Nat /\ MaxSaves \in Nat /\ MaxEvents \in Nat
    BY DEF CalendarNumbers
  <1>2. Most \in Nat /\ MaxMeals <= Most /\ (MaxMeals > 0 => Sets <= Most)
    <2>1. Sets * MaxMeals \in Nat
      BY <1>1
    <2>2. Sets * MaxMeals >= MaxMeals
      <3>1. Sets * MaxMeals = MaxMeals + (Sets - 1) * MaxMeals /\ (Sets - 1) * MaxMeals >= 0
        BY <1>1
      <3>2. QED BY <1>1, <3>1
    <2>3. MaxMeals > 0 => Sets * MaxMeals >= Sets
      <3>1. MaxMeals > 0 => Sets * MaxMeals = Sets + Sets * (MaxMeals - 1) /\ Sets * (MaxMeals - 1) >= 0
        BY <1>1
      <3>2. QED BY <1>1, <3>1
    <2>4. QED BY <2>1, <2>2, <2>3 DEF Most
  <1>3. NoEnd \in Nat /\ IsFiniteSet(Days) /\ Days \subseteq Nat
    BY <1>1, IntervalSize DEF NoEnd, Days
  <1>4. IsFiniteSet(1..Sets) /\ Cardinality(1..Sets) = Sets /\ 1..Sets \subseteq Nat
    <2>1. IsFiniteSet(1..Sets) /\ Cardinality(1..Sets) = Sets
      BY <1>1, IntervalSize
    <2>2. 1..Sets \subseteq Nat
      OBVIOUS
    <2>3. QED BY <2>1, <2>2
  <1>5. Meals \subseteq Counts /\ None \in Meals
    BY <1>2 DEF Meals, Counts, None
  <1>6. QED BY <1>1, <1>2, <1>3, <1>4, <1>5

\* A draft has a number of meals, no day more.
LEMMA TotalFacts ==
  ASSUME CalendarNumbers, NEW D, D \subseteq Days, NEW w \in [Days -> Counts]
  PROVE  /\ Total(w, D) \in Nat /\ IsFiniteSet(D)
         /\ \A d \in D : PacksIn(w[d]) \in Nat /\ PacksIn(w[d]) <= Total(w, D)
                      /\ w[d].lunch \in Nat /\ w[d].dinner \in Nat
                      /\ w[d].lunch <= PacksIn(w[d]) /\ w[d].dinner <= PacksIn(w[d])
                      /\ w[d]["lunch"] = w[d].lunch /\ w[d]["dinner"] = w[d].dinner
  <1> DEFINE n == [d \in D |-> PacksIn(w[d])]
  <1>1. \A d \in D : w[d].lunch \in Nat /\ w[d].dinner \in Nat
                  /\ w[d]["lunch"] = w[d].lunch /\ w[d]["dinner"] = w[d].dinner
    BY DEF Counts
  <1>2. \A d \in D : PacksIn(w[d]) \in Nat /\ w[d].lunch <= PacksIn(w[d]) /\ w[d].dinner <= PacksIn(w[d])
    BY <1>1 DEF PacksIn
  <1>3. \A d \in D : n[d] = PacksIn(w[d])
    OBVIOUS
  <1> HIDE DEF n
  <1>4. IsFiniteSet(D)
    BY Numbers, FS_Subset
  <1>5. SumOf(n, D) \in Nat /\ \A d \in D : n[d] <= SumOf(n, D)
    BY <1>2, <1>3, <1>4, SumFacts
  <1>6. Total(w, D) = SumOf(n, D)
    BY DEF Total, n
  <1>7. QED BY <1>1, <1>2, <1>3, <1>4, <1>5, <1>6

LEMMA Times ==
  ASSUME NEW a \in Nat, NEW b \in Nat, NEW c \in Nat, a <= b
  PROVE  a * c <= b * c
  <1>1. b * c = a * c + (b - a) * c
    OBVIOUS
  <1>2. (b - a) * c >= 0 /\ a * c \in Int /\ (b - a) * c \in Int
    OBVIOUS
  <1>3. QED BY <1>1, <1>2

\* A sum of terms that are not greater than m.
LEMMA SumBound ==
  ASSUME NEW S, IsFiniteSet(S), NEW m \in Nat, NEW n, \A x \in S : n[x] \in Nat /\ n[x] <= m
  PROVE  SumOf(n, S) \in Nat /\ Cardinality(S) \in Nat /\ SumOf(n, S) <= Cardinality(S) * m
  <1> DEFINE M == 1..m
  <1>1. IsFiniteSet(M) /\ Cardinality(M) = m
    BY IntervalSize
  <1>2. ASSUME NEW y \in Heap(n, S) PROVE y \in S \X M
    <2>1. PICK x \in S : \E i \in 1..n[x] : y = <<x, i>>
      BY HeapPair
    <2>2. PICK i \in 1..n[x] : y = <<x, i>>
      BY <2>1
    <2>3. i \in M
      OBVIOUS
    <2>4. QED BY <2>2, <2>3
  <1> HIDE DEF M
  <1>3. IsFiniteSet(S \X M) /\ Cardinality(S \X M) = Cardinality(S) * m
    BY <1>1, FS_Product
  <1>4. SumOf(n, S) <= Cardinality(S) * m
    BY <1>2, <1>3, FS_Subset DEF SumOf
  <1>5. SumOf(n, S) \in Nat
    BY SumFacts
  <1>6. QED BY <1>4, <1>5, FS_CardinalityType

LEMMA PoolFacts ==
  ASSUME CalendarNumbers, credits \in [1..Sets -> 1..MaxMeals], NEW P, P \subseteq 1..Sets
  PROVE  /\ IsFiniteSet(P) /\ Cardinality(P) \in Nat /\ Cardinality(P) <= Sets
         /\ Pool(P) \in Nat /\ Pool(P) <= Most
  <1> DEFINE V == 1..Sets
  <1>1. IsFiniteSet(V) /\ Cardinality(V) = Sets /\ P \subseteq V
    BY Numbers
  <1>2. \A p \in P : credits[p] \in Nat /\ credits[p] <= MaxMeals
    BY Numbers
  <1> HIDE DEF V
  <1>3. IsFiniteSet(P) /\ Cardinality(P) <= Sets
    BY <1>1, FS_Subset
  <1>4. Cardinality(P) \in Nat
    BY <1>3, FS_CardinalityType
  <1>5. SumOf(credits, P) \in Nat /\ SumOf(credits, P) <= Cardinality(P) * MaxMeals
    BY <1>2, <1>3, Numbers, SumBound
  <1>6. Cardinality(P) * MaxMeals <= Sets * MaxMeals
    BY <1>3, <1>4, Numbers, Times, Zenon
  <1>7. Sets * MaxMeals \in Nat /\ Cardinality(P) * MaxMeals \in Nat
    BY <1>4, Numbers
  <1>8. QED BY <1>3, <1>4, <1>5, <1>6, <1>7 DEF Pool, Most

\* What is left of a day's meals after the days before.
Before(w, d, m) == SumOf([e \in Days |-> w[e][m]], {e \in Days : e < d})

LEMMA BeforeFacts ==
  ASSUME CalendarNumbers, NEW w \in [Days -> Counts], NEW d, NEW m \in {"lunch", "dinner"}
  PROVE  Before(w, d, m) \in Nat
  <1> DEFINE S == {e \in Days : e < d}
             n == [e \in Days |-> w[e][m]]
  <1>1. IsFiniteSet(S)
    BY Numbers, FS_Subset
  <1>2. \A e \in S : n[e] \in Nat
    BY DEF Counts
  <1>3. SumOf(n, S) \in Nat
    <2> HIDE DEF S, n
    <2>1. QED BY <1>1, <1>2, SumFacts
  <1>4. QED BY <1>3 DEF Before

LEMMA TurnsFacts ==
  ASSUME NEW b \in Nat, NEW c \in Nat, NEW N, NEW i
  PROVE  Cardinality(Turns(b, c, N, i)) \in Nat /\ Cardinality(Turns(b, c, N, i)) <= c
  <1> DEFINE W == b..(b + c - 1)
  <1>1. IsFiniteSet(W) /\ Cardinality(W) = c
    BY IntervalSize
  <1>2. Turns(b, c, N, i) \subseteq W
    BY DEF Turns
  <1> HIDE DEF W
  <1>3. IsFiniteSet(Turns(b, c, N, i)) /\ Cardinality(Turns(b, c, N, i)) <= c
    BY <1>1, <1>2, FS_Subset
  <1>4. QED BY <1>3, FS_CardinalityType

\* What Dealt gives the i-th plan of a day.
LEMMA DealtFacts ==
  ASSUME CalendarNumbers, NEW w \in [Days -> Counts], NEW N, NEW i
  PROVE  /\ Dealt(w, i, N) \in [Days -> Counts]
         /\ \A d \in Days :
              /\ Dealt(w, i, N)[d].lunch = Cardinality(Turns(Before(w, d, "lunch"), w[d].lunch, N, i))
              /\ Dealt(w, i, N)[d].dinner = Cardinality(Turns(Before(w, d, "dinner"), w[d].dinner, N, i))
              /\ Dealt(w, i, N)[d].lunch <= w[d].lunch
              /\ Dealt(w, i, N)[d].dinner <= w[d].dinner
  <1> DEFINE l(d) == Cardinality(Turns(Before(w, d, "lunch"), w[d].lunch, N, i))
             r(d) == Cardinality(Turns(Before(w, d, "dinner"), w[d].dinner, N, i))
  <1>1. Dealt(w, i, N) = [d \in Days |-> [lunch |-> l(d), dinner |-> r(d)]]
    <2>1. \A d \in Days : w[d]["lunch"] = w[d].lunch /\ w[d]["dinner"] = w[d].dinner
      BY TotalFacts
    <2>2. QED BY <2>1 DEF Dealt, Turns, Before
  <1>2. \A d \in Days : /\ l(d) \in Nat /\ l(d) <= w[d].lunch
                        /\ r(d) \in Nat /\ r(d) <= w[d].dinner
    <2> TAKE d \in Days
    <2>1. w[d].lunch \in Nat /\ w[d].dinner \in Nat
      BY TotalFacts
    <2>2. Before(w, d, "lunch") \in Nat /\ Before(w, d, "dinner") \in Nat
      BY BeforeFacts
    <2>3. QED BY <2>1, <2>2, TurnsFacts
  <1> HIDE DEF l, r
  <1>3. Dealt(w, i, N) \in [Days -> Counts]
    BY <1>1, <1>2 DEF Counts
  <1>4. \A d \in Days : Dealt(w, i, N)[d].lunch = l(d) /\ Dealt(w, i, N)[d].dinner = r(d)
    BY <1>1
  <1>5. QED BY <1>2, <1>3, <1>4 DEF l, r

\* The plans' rows are put together to a draft.
LEMMA MergeFacts ==
  ASSUME CalendarNumbers, NEW P, P \subseteq 1..Sets,
         pickups \in [1..Sets -> [Days -> SoundRows]]
  PROVE  MergeDeliveries(P) \in [Days -> Meals]
  <1> DEFINE S(d) == {p \in P : pickups[p][d].status # "SKIPPED"}
             l(d) == [p \in P |-> pickups[p][d].meals["lunch"]]
             r(d) == [p \in P |-> pickups[p][d].meals["dinner"]]
  <1>1. MergeDeliveries(P) = [d \in Days |-> [lunch |-> SumOf(l(d), S(d)), dinner |-> SumOf(r(d), S(d))]]
    BY DEF MergeDeliveries
  <1>2. ASSUME NEW d \in Days
        PROVE  \A p \in S(d) : /\ l(d)[p] \in Nat /\ l(d)[p] <= MaxMeals
                               /\ r(d)[p] \in Nat /\ r(d)[p] <= MaxMeals
    <2> TAKE p \in S(d)
    <2>1. pickups[p][d].meals \in Counts /\ PacksIn(pickups[p][d].meals) <= MaxMeals
      BY Numbers DEF SoundRows, Rows
    <2>2. \A m \in Counts : /\ m["lunch"] \in Nat /\ m["lunch"] <= PacksIn(m)
                            /\ m["dinner"] \in Nat /\ m["dinner"] <= PacksIn(m) /\ PacksIn(m) \in Nat
      BY DEF Counts, PacksIn
    <2>3. p \in P /\ l(d)[p] = pickups[p][d].meals["lunch"] /\ r(d)[p] = pickups[p][d].meals["dinner"]
      OBVIOUS
    <2>4. MaxMeals \in Nat
      BY Numbers
    <2>5. QED BY <2>1, <2>2, <2>3, <2>4
  <1>3. ASSUME NEW d \in Days PROVE IsFiniteSet(S(d)) /\ Cardinality(S(d)) \in Nat /\ Cardinality(S(d)) <= Sets
    <2> DEFINE V == 1..Sets
    <2>1. IsFiniteSet(V) /\ Cardinality(V) = Sets /\ S(d) \subseteq V
      BY Numbers
    <2> HIDE DEF V, S
    <2>2. QED BY <2>1, FS_Subset, FS_CardinalityType
  <1> HIDE DEF S, l, r
  <1>4. ASSUME NEW d \in Days PROVE SumOf(l(d), S(d)) \in 0..Most /\ SumOf(r(d), S(d)) \in 0..Most
    <2>1. /\ SumOf(l(d), S(d)) \in Nat /\ SumOf(l(d), S(d)) <= Cardinality(S(d)) * MaxMeals
          /\ SumOf(r(d), S(d)) \in Nat /\ SumOf(r(d), S(d)) <= Cardinality(S(d)) * MaxMeals
      BY <1>2, <1>3, Numbers, SumBound
    <2>2. Cardinality(S(d)) * MaxMeals <= Sets * MaxMeals
      BY <1>3, Numbers, Times, Zenon
    <2>3. Cardinality(S(d)) \in Nat /\ MaxMeals \in Nat /\ Sets \in Nat
      BY <1>3, Numbers, Zenon
    <2>4. Cardinality(S(d)) * MaxMeals \in Nat /\ Sets * MaxMeals \in Nat
      BY <2>3
    <2>5. QED BY <2>1, <2>2, <2>4 DEF Most
  <1>5. QED BY <1>1, <1>4 DEF Meals

\* A draft that is filled in has no more than perDay of a meal on a day.
LEMMA AutoFillTypes ==
  ASSUME CalendarNumbers, NEW D, D \subseteq Days, NEW pool \in Nat, NEW perDay \in Nat, perDay <= Most
  PROVE  BuildAutoFill(D, pool, perDay) \in [Days -> Meals]
  <1> DEFINE before(d) == Cardinality({e \in D : e < d}) * 2 * perDay
             left(d) == IF before(d) < pool THEN pool - before(d) ELSE 0
  <1>1. BuildAutoFill(D, pool, perDay) =
          [d \in Days |->
            IF d \notin D THEN None
            ELSE [lunch |-> Least(perDay, left(d)),
                  dinner |-> Least(perDay, left(d) - Least(perDay, left(d)))]]
    BY DEF BuildAutoFill
  <1> HIDE DEF left, before
  <1>2. QED
    <2> SUFFICES ASSUME NEW d \in Days, d \in D
                 PROVE  [lunch |-> Least(perDay, left(d)),
                         dinner |-> Least(perDay, left(d) - Least(perDay, left(d)))] \in Meals
      BY <1>1, Numbers
    <2> DEFINE E == {e \in D : e < d}
    <2>1. Cardinality(E) \in Nat
      <3>1. E \subseteq Days /\ IsFiniteSet(Days)
        BY Numbers
      <3>2. QED BY <3>1, FS_Subset, FS_CardinalityType
    <2>2. left(d) = IF Cardinality(E) * 2 * perDay < pool THEN pool - Cardinality(E) * 2 * perDay ELSE 0
      BY DEF left, before
    <2> HIDE DEF E
    <2>3. Cardinality(E) * 2 * perDay \in Nat
      BY <2>1
    <2>4. left(d) \in Nat
      BY <2>2, <2>3
    <2>5. \A a \in Nat : Least(perDay, a) \in 0..Most /\ a - Least(perDay, a) \in Nat
      <3>1. Most \in Nat
        BY Numbers
      <3>2. QED BY <3>1 DEF Least
    <2>6. Least(perDay, left(d)) \in 0..Most /\ Least(perDay, left(d) - Least(perDay, left(d))) \in 0..Most
      BY <2>4, <2>5
    <2>7. QED BY <2>6 DEF Meals

---------------------------------------------------------------------------
(* What always holds: of the world, and of the screen *)

World ==
  /\ credits \in [1..Sets -> 1..MaxMeals] /\ newest \in 1..Sets
  /\ pickups \in [1..Sets -> [Days -> SoundRows]]
  /\ others \in [Days -> 0..DailyPacks]
  /\ opsEnd \in 0..NoEnd /\ today \in 0..MaxDay /\ clock \in {"open", "locked", "late"}
  /\ saves \in 0..MaxSaves /\ events \in 0..MaxEvents

Screen ==
  /\ tab \in Tabs
  /\ ToSet(tab.plans) \subseteq Subscriptions /\ Lists(tab.plans, ToSet(tab.plans))
  /\ tab.next \in 0..Len(tab.plans)
  /\ tab.doing # "closed" => Len(tab.plans) > 0
  /\ tab.doing = "saving" => tab.next > 0
  /\ tab.from \in 0..(MaxDay + LeadDays + 1) /\ tab.rules \in Rules /\ tab.taps \in 0..MaxTaps

LEMMA TypesFollow ==
  ASSUME World, Screen
  PROVE  CalendarTypeOK
  <1>1. SoundRows \subseteq Rows
    BY DEF SoundRows
  <1>2. pickups \in [1..Sets -> [Days -> Rows]]
    BY <1>1 DEF World
  <1>3. /\ tab.doing \in Doings /\ tab.draft \in [Days -> Meals] /\ tab.free \subseteq Days
        /\ {tab.counted, tab.changed, tab.filled, tab.stale, tab.touched} \subseteq BOOLEAN
    BY DEF Screen, Tabs
  <1>4. QED BY <1>2, <1>3 DEF CalendarTypeOK, World, Screen, Rows, Doings

LEMMA SeqWider ==
  ASSUME NEW S, NEW T, S \subseteq T, NEW s \in Seq(S)
  PROVE  s \in Seq(T)
  OBVIOUS

LEMMA SeqElements ==
  ASSUME NEW S, NEW s \in Seq(S)
  PROVE  \A k \in 1..Len(s) : s[k] \in S
  OBVIOUS

LEMMA ListsSet ==
  ASSUME NEW S, NEW s, Lists(s, S)
  PROVE  ToSet(s) = S /\ s \in Seq(S) /\ Len(s) \in Nat
  BY DEF Lists, ToSet

\* The plans are numbers, finitely many.
LEMMA PlanFacts ==
  ASSUME CalendarNumbers, World
  PROVE  /\ Subscriptions \subseteq 1..Sets /\ Subscriptions # {} /\ newest \in Nat /\ Sets \in Nat
         /\ \A P : P \subseteq Subscriptions => P \subseteq 1..Sets /\ P \subseteq Nat /\ IsFiniteSet(P)
  <1>1. newest \in 1..Sets /\ Sets \in Nat
    BY Numbers DEF World
  <1>2. Subscriptions \subseteq 1..Sets /\ Sets \in Subscriptions /\ newest \in Nat
    BY <1>1 DEF Subscriptions
  <1>3. ASSUME NEW P, P \subseteq Subscriptions PROVE P \subseteq 1..Sets /\ P \subseteq Nat /\ IsFiniteSet(P)
    <2> DEFINE V == 1..Sets
    <2>1. P \subseteq V /\ IsFiniteSet(V) /\ V \subseteq Nat
      BY <1>2, <1>3, Numbers
    <2> HIDE DEF V
    <2>2. IsFiniteSet(P) /\ P \subseteq Nat
      BY <2>1, FS_Subset
    <2>3. QED BY <2>1, <2>2 DEF V
  <1>4. QED BY <1>1, <1>2, <1>3

LEMMA DefaultKept ==
  /\ DefaultRules \in Rules /\ ~DefaultRules.known /\ DefaultRules.early = Days
  BY DEF DefaultRules, Rules

LEMMA ClosedFacts ==
  ASSUME CalendarNumbers
  PROVE  /\ Closed \in Tabs /\ Closed.doing = "closed" /\ Closed.plans = <<>>
         /\ Closed.next = 0 /\ Closed.from = 0 /\ Closed.rules = DefaultRules /\ Closed.taps = 0
         /\ Len(Closed.plans) = 0 /\ ToSet(Closed.plans) = {} /\ Lists(Closed.plans, {})
         /\ Closed.filled = FALSE /\ Closed.stale = FALSE /\ Closed.touched = FALSE
  <1> DEFINE none == <<>>
  <1>1. none \in Seq(1..Sets) /\ Len(none) = 0 /\ ToSet(none) = {} /\ Lists(none, {})
    BY DEF ToSet, Lists
  <1>2. Empty \in [Days -> Meals]
    BY Numbers DEF Empty
  <1> DEFINE rules == DefaultRules
  <1>3. Closed = [doing |-> "closed", plans |-> none, draft |-> Empty, next |-> 0, from |-> 0,
           rules |-> rules, counted |-> FALSE, free |-> Days, changed |-> FALSE, taps |-> 0,
           filled |-> FALSE, stale |-> FALSE, touched |-> FALSE]
    BY DEF Closed
  <1>4. rules \in Rules
    BY DefaultKept
  <1> HIDE DEF rules
  <1> HIDE DEF none
  <1>5. Closed \in Tabs
    BY <1>1, <1>2, <1>3, <1>4 DEF Tabs, Doings
  <1>6. /\ Closed.doing = "closed" /\ Closed.plans = none /\ Closed.next = 0 /\ Closed.from = 0
        /\ Closed.rules = rules /\ Closed.taps = 0
        /\ Closed.filled = FALSE /\ Closed.stale = FALSE /\ Closed.touched = FALSE
    BY <1>3
  <1>7. QED BY <1>1, <1>5, <1>6 DEF none, rules

LEMMA ClosedScreen ==
  ASSUME CalendarNumbers, tab' = Closed
  PROVE  Screen'
  <1>1. Closed \in Tabs /\ Closed.doing = "closed" /\ Len(Closed.plans) = 0
        /\ ToSet(Closed.plans) = {} /\ Lists(Closed.plans, {})
        /\ Closed.next = 0 /\ Closed.from = 0 /\ Closed.rules = DefaultRules /\ Closed.taps = 0
    BY ClosedFacts
  <1>2. 0 \in 0..(MaxDay + LeadDays + 1) /\ DefaultRules \in Rules /\ 0 \in 0..MaxTaps /\ 0 \in 0..0
    BY Numbers, DefaultKept
  <1> DEFINE c == Closed
  <1>3. tab' = c
    OBVIOUS
  <1> HIDE DEF c
  <1>4. c \in Tabs /\ c.doing = "closed" /\ Len(c.plans) = 0 /\ ToSet(c.plans) = {} /\ Lists(c.plans, {})
        /\ c.next = 0 /\ c.from = 0 /\ c.rules = DefaultRules /\ c.taps = 0
    BY <1>1 DEF c
  <1>5. tab'.doing # "closed" => Len(tab'.plans) > 0
    BY <1>3, <1>4
  <1>6. tab'.doing = "saving" => tab'.next > 0
    BY <1>3, <1>4
  <1>7. QED BY <1>2, <1>3, <1>4, <1>5, <1>6 DEF Screen

\* A screen that keeps its plans and what it was loaded with.
LEMMA ScreenKept ==
  ASSUME CalendarNumbers, Screen, Subscriptions \subseteq Subscriptions', tab' \in Tabs,
         tab'.plans = tab.plans, tab'.from = tab.from, tab'.rules = tab.rules, tab'.taps \in 0..MaxTaps,
         tab'.next \in 0..Len(tab.plans), tab'.doing = "saving" => tab'.next > 0,
         tab.doing # "closed" \/ tab'.doing = "closed"
  PROVE  Screen'
  BY DEF Screen

---------------------------------------------------------------------------
(* The actions keep it *)

\* A set of numbers has a least one.
LEMMA LeastOne ==
  ASSUME NEW S \in SUBSET Nat, S # {}
  PROVE  \E n \in S : \A m \in S : n <= m
  <1> DEFINE Smaller2 == {ss \in Nat \X Nat : ss[1] < ss[2]}
  <1>1. IsWellFoundedOn(Smaller2, Nat)
    BY NatLessThanWellFounded DEF OpToRel
  <1>2. PICK n \in S : \A m \in S : ~(<<m, n>> \in Smaller2)
    BY <1>1, WFMin, Zenon
  <1>3. \A x, y \in Nat : x < y => <<x, y>> \in Smaller2
    OBVIOUS
  <1>4. n \in Nat /\ \A m \in S : m \in Nat /\ ~(m < n)
    BY <1>2, <1>3, Zenon
  <1>5. \A m \in S : n <= m
    BY <1>4
  <1>6. QED BY <1>5

LEMMA InitRight ==
  ASSUME CalendarNumbers, CalendarInit
  PROVE  World /\ Screen
  <1>1. /\ Sets \in 1..Sets /\ 0 \in 0..DailyPacks /\ NoEnd \in 0..NoEnd /\ 0 \in 0..MaxDay
        /\ 0 \in 0..MaxSaves /\ 0 \in 0..MaxEvents /\ 0 \in 0..(MaxDay + LeadDays + 1) /\ DefaultRules \in Rules
        /\ 0 \in 0..MaxTaps /\ 0 \in 0..0
    BY Numbers, DefaultKept
  <1>2. NoPickup \in SoundRows
    BY Numbers DEF NoPickup, SoundRows, Rows, PacksIn, None
  <1>3. World
    BY <1>1, <1>2 DEF CalendarInit, World
  <1> DEFINE c == Closed
  <1>4. tab = c
    BY DEF CalendarInit
  <1>5. c \in Tabs /\ c.doing = "closed" /\ Len(c.plans) = 0 /\ ToSet(c.plans) = {} /\ Lists(c.plans, {})
        /\ c.next = 0 /\ c.from = 0 /\ c.rules = DefaultRules /\ c.taps = 0
    BY ClosedFacts
  <1> HIDE DEF c
  <1>6. Screen
    BY <1>1, <1>4, <1>5 DEF Screen
  <1>7. QED BY <1>3, <1>6

\* The plans of a calendar that opens.
LEMMA SchedulingFacts ==
  ASSUME CalendarNumbers, World
  PROVE  LET P == Scheduling IN
         /\ P \subseteq Subscriptions /\ P \subseteq 1..Sets /\ IsFiniteSet(P)
         /\ Cardinality(P) \in Nat /\ Cardinality(P) > 0 /\ Cardinality(P) <= Most
         /\ Lists(InOrder(P), P) /\ Len(InOrder(P)) = Cardinality(P) /\ ToSet(InOrder(P)) = P
         /\ InOrder(P) \in Seq(1..Sets) /\ Pool(P) \in Nat
  <1> DEFINE P == Scheduling
  <1>1. P \subseteq Subscriptions /\ P # {}
    BY PlanFacts DEF Scheduling
  <1> HIDE DEF P
  <1>2. P \subseteq 1..Sets /\ P \subseteq Nat /\ IsFiniteSet(P)
    BY <1>1, PlanFacts
  <1>3. Cardinality(P) \in Nat /\ Cardinality(P) <= Sets /\ Pool(P) \in Nat
    BY <1>2, PoolFacts DEF World
  <1>4. Cardinality(P) > 0
    BY <1>1, <1>2, <1>3, FS_EmptySet
  <1>5. Cardinality(P) <= Most
    <2>1. PICK p \in 1..Sets : credits[p] \in 1..MaxMeals
      BY PlanFacts DEF World
    <2>2. MaxMeals \in Nat /\ MaxMeals > 0 /\ Sets \in Nat /\ Most \in Nat
      BY <2>1, Numbers
    <2>3. Sets <= Most
      BY <2>2, Numbers
    <2>4. QED BY <1>3, <2>2, <2>3
  <1>6. Lists(InOrder(P), P) /\ Len(InOrder(P)) = Cardinality(P)
    BY <1>2, InOrderLists
  <1>7. ToSet(InOrder(P)) = P /\ InOrder(P) \in Seq(P)
    BY <1>6, ListsSet
  <1>8. InOrder(P) \in Seq(1..Sets)
    BY <1>2, <1>7, SeqWider
  <1>9. QED BY <1>1, <1>2, <1>3, <1>4, <1>5, <1>6, <1>7, <1>8 DEF P

LEMMA DateFacts ==
  ASSUME CalendarNumbers, World
  PROVE  Earliest \in 0..(MaxDay + LeadDays + 1) /\ WindowEnd \in Int /\ opsEnd \in 0..NoEnd
  <1>1. /\ MaxDay \in Nat /\ LeadDays \in Nat /\ DurationDays \in Nat /\ NoEnd \in Nat
        /\ today \in 0..MaxDay /\ opsEnd \in 0..NoEnd
    BY Numbers DEF World
  <1>2. QED BY <1>1 DEF Earliest, WindowEnd

LEMMA OpenFacts ==
  ASSUME CalendarNumbers, World, OpenCalendar
  PROVE  LET P == Scheduling
             window == Earliest..WindowEnd \cap Days IN
         /\ tab' \in Tabs /\ tab'.doing = "open" /\ tab'.plans = InOrder(P)
         /\ tab'.draft = IF MergeDeliveries(P) # Empty THEN MergeDeliveries(P)
                         ELSE BuildAutoFill(window, Pool(P), Cardinality(P))
         /\ tab'.filled = (MergeDeliveries(P) = Empty)
         /\ tab'.next = 0 /\ tab'.from = Earliest /\ tab'.rules = DefaultRules /\ tab'.taps = 0
         /\ UNCHANGED <<credits, newest, pickups, others, opsEnd, today, clock, saves, events>>
  <1> DEFINE P == Scheduling
             window == Earliest..WindowEnd \cap Days
             merged == MergeDeliveries(P)
             filling == BuildAutoFill(window, Pool(P), Cardinality(P))
             draft == IF merged # Empty THEN merged ELSE filling
             filled == merged = Empty
             c == Closed
             plans == InOrder(P)
  <1>1. tab' = [c EXCEPT !.doing = "open", !.plans = plans, !.draft = draft, !.filled = filled,
                         !.from = Earliest]
    BY DEF OpenCalendar
  <1>2. UNCHANGED <<credits, newest, pickups, others, opsEnd, today, clock, saves, events>>
    BY DEF OpenCalendar
  <1>3. c \in Tabs /\ c.next = 0 /\ c.rules = DefaultRules /\ c.taps = 0
    BY ClosedFacts
  <1>4. merged \in [Days -> Meals]
    BY SchedulingFacts, MergeFacts DEF World
  <1>5. filling \in [Days -> Meals]
    <2>1. window \subseteq Days
      OBVIOUS
    <2>2. Pool(P) \in Nat /\ Cardinality(P) \in Nat /\ Cardinality(P) <= Most
      BY SchedulingFacts
    <2> HIDE DEF window, P
    <2>3. QED BY <2>1, <2>2, AutoFillTypes
  <1>6. draft \in [Days -> Meals] /\ filled \in BOOLEAN
    BY <1>4, <1>5
  <1>7. Earliest \in Nat
    BY DateFacts, Numbers
  <1>8. plans \in Seq(1..Sets)
    BY SchedulingFacts
  <1> DEFINE rules == DefaultRules
  <1>9. /\ tab' \in Tabs /\ tab'.doing = "open" /\ tab'.plans = plans /\ tab'.draft = draft
        /\ tab'.filled = filled /\ tab'.next = 0 /\ tab'.from = Earliest /\ tab'.rules = rules
        /\ tab'.taps = 0
    <2>1. c.rules = rules
      BY <1>3
    <2> HIDE DEF c, plans, draft, filled, rules
    <2>2. QED BY <1>1, <1>3, <1>6, <1>7, <1>8, <2>1 DEF Tabs, Doings
  <1>10. QED BY <1>2, <1>9

LEMMA OpenKeeps ==
  ASSUME CalendarNumbers, World, OpenCalendar
  PROVE  World' /\ Screen'
  <1> DEFINE P == Scheduling
             rules == DefaultRules
  <1>1. /\ tab' \in Tabs /\ tab'.doing = "open" /\ tab'.plans = InOrder(P) /\ tab'.next = 0
        /\ tab'.from = Earliest /\ tab'.rules = rules /\ tab'.taps = 0
        /\ UNCHANGED <<credits, newest, pickups, others, opsEnd, today, clock, saves, events>>
    BY OpenFacts
  <1>2. World'
    BY <1>1 DEF World
  <1>3. /\ P \subseteq Subscriptions /\ Lists(InOrder(P), P) /\ ToSet(InOrder(P)) = P
        /\ Len(InOrder(P)) \in Nat /\ Len(InOrder(P)) > 0
    BY SchedulingFacts
  <1>4. Earliest \in 0..(MaxDay + LeadDays + 1) /\ rules \in Rules /\ 0 \in 0..MaxTaps
    BY DateFacts, DefaultKept, Numbers
  <1>5. Subscriptions' = Subscriptions
    BY <1>1 DEF Subscriptions
  <1> HIDE DEF P, rules
  <1>6. QED BY <1>1, <1>2, <1>3, <1>4, <1>5 DEF Screen

\* What is fetched changes what the calendar knows, and nothing else.
LEMMA LoadFacts ==
  ASSUME CalendarNumbers, World, Screen, LoadRules \/ LoadCapacity
  PROVE  /\ tab.doing \in {"open", "saving", "refused"} /\ tab' \in Tabs /\ tab'.doing = tab.doing
         /\ tab'.plans = tab.plans /\ tab'.draft = tab.draft /\ tab'.next = tab.next
         /\ tab'.from = tab.from /\ tab'.taps = tab.taps /\ tab'.filled = tab.filled
         /\ tab'.stale = tab.stale /\ tab'.touched = tab.touched
         /\ \/ tab'.rules = tab.rules
            \/ /\ tab'.rules.known /\ tab'.rules.early = {d \in FilledDays(tab.draft) : IsDateClosed(d)}
               /\ tab'.rules.shut = {d \in Days : d < Earliest \/ IsDateClosed(d)}
         /\ UNCHANGED <<credits, newest, pickups, others, opsEnd, today, clock, saves, events>>
  <1> DEFINE shut == {d \in Days : d < Earliest \/ IsDateClosed(d)}
             early == {d \in FilledDays(tab.draft) : IsDateClosed(d)}
             rules == [known |-> TRUE, shut |-> shut, early |-> early]
  <1>1. tab \in Tabs
    BY DEF Screen
  <1>2. rules \in Rules /\ rules.known /\ rules.shut = shut /\ rules.early = early
    <2>1. shut \subseteq Days /\ early \subseteq Days
      BY DEF FilledDays
    <2> HIDE DEF shut, early
    <2>2. QED BY <2>1 DEF Rules
  <1>3. ASSUME LoadRules
        PROVE  /\ tab.doing \in {"open", "saving", "refused"} /\ tab' = [tab EXCEPT !.rules = rules]
               /\ UNCHANGED <<credits, newest, pickups, others, opsEnd, today, clock, saves, events>>
    BY <1>3 DEF LoadRules
  <1> HIDE DEF rules
  <1>4. CASE LoadRules
    <2>1. /\ tab' \in Tabs /\ tab'.doing = tab.doing
          /\ tab'.plans = tab.plans /\ tab'.draft = tab.draft /\ tab'.next = tab.next
          /\ tab'.from = tab.from /\ tab'.taps = tab.taps /\ tab'.filled = tab.filled
          /\ tab'.stale = tab.stale /\ tab'.touched = tab.touched /\ tab'.rules = rules
      BY <1>1, <1>2, <1>3, <1>4 DEF Tabs
    <2>2. QED BY <1>2, <1>3, <1>4, <2>1
  <1>5. CASE LoadCapacity
    <2>1. FreeDays \subseteq Days
      BY DEF FreeDays
    <2> DEFINE free == FreeDays
    <2>2. tab' = [tab EXCEPT !.counted = TRUE, !.free = free]
      BY <1>5 DEF LoadCapacity
    <2> HIDE DEF free
    <2>3. /\ tab' \in Tabs /\ tab'.doing = tab.doing
          /\ tab'.plans = tab.plans /\ tab'.draft = tab.draft /\ tab'.next = tab.next
          /\ tab'.from = tab.from /\ tab'.taps = tab.taps /\ tab'.filled = tab.filled
          /\ tab'.stale = tab.stale /\ tab'.touched = tab.touched /\ tab'.rules = tab.rules
      BY <1>1, <2>1, <2>2 DEF Tabs, free
    <2>4. QED BY <1>5, <2>3 DEF LoadCapacity
  <1>6. QED BY <1>4, <1>5

LEMMA LoadKeeps ==
  ASSUME CalendarNumbers, World, Screen, LoadRules \/ LoadCapacity
  PROVE  World' /\ Screen'
  <1>1. /\ tab' \in Tabs /\ tab'.plans = tab.plans /\ tab'.next = tab.next /\ tab'.doing = tab.doing
        /\ tab'.from = tab.from /\ tab'.taps = tab.taps
        /\ UNCHANGED <<credits, newest, pickups, others, opsEnd, today, clock, saves, events>>
    BY LoadFacts
  <1>2. tab'.rules \in Rules
    BY <1>1 DEF Tabs
  <1>3. World' /\ Subscriptions' = Subscriptions
    BY <1>1 DEF World, Subscriptions
  <1>4. Screen'
    BY <1>1, <1>2, <1>3 DEF Screen
  <1>5. QED BY <1>3, <1>4

LEMMA CloseKeeps ==
  ASSUME CalendarNumbers, World, CloseCalendar
  PROVE  World' /\ Screen'
  <1>1. World'
    BY DEF CloseCalendar, World
  <1>2. Screen'
    BY ClosedScreen DEF CloseCalendar
  <1>3. QED BY <1>1, <1>2

LEMMA SetQtyKeeps ==
  ASSUME CalendarNumbers, World, Screen, NEW new \in [Days -> Meals], SetQty(new)
  PROVE  World' /\ Screen'
  <1>1. World'
    BY DEF SetQty, World
  <1> DEFINE t == tab.taps + 1
  <1>2. /\ tab \in Tabs /\ tab.taps < MaxTaps /\ tab.doing \in {"open", "refused"}
        /\ tab' = [tab EXCEPT !.doing = "open", !.draft = new, !.changed = TRUE, !.filled = FALSE, !.taps = t]
    BY DEF SetQty, Screen
  <1>3. t \in Nat
    BY <1>2 DEF Tabs
  <1> HIDE DEF t
  <1>4. /\ tab' \in Tabs /\ tab'.plans = tab.plans /\ tab'.from = tab.from /\ tab'.rules = tab.rules
        /\ tab'.next = tab.next /\ tab'.taps = t /\ tab'.doing = "open"
    BY <1>2, <1>3 DEF Tabs, Doings
  <1>5. tab'.taps \in 0..MaxTaps
    <2>1. tab.taps \in 0..MaxTaps /\ MaxTaps \in Nat
      BY Numbers DEF Screen
    <2>2. QED BY <1>2, <1>4, <2>1 DEF t
  <1>6. Subscriptions' = Subscriptions
    BY DEF SetQty, Subscriptions
  <1>7. tab.doing # "closed" /\ tab'.next \in 0..Len(tab.plans)
    BY <1>2, <1>4 DEF Screen
  <1>8. Screen'
    BY <1>4, <1>5, <1>6, <1>7, ScreenKept
  <1>9. QED BY <1>1, <1>8

\* What a change of a draft may add: there are fewer than Most meals of a day while the pool lasts.
LEMMA DraftFacts ==
  ASSUME CalendarNumbers, World, Screen
  PROVE  /\ tab.draft \in [Days -> Meals] /\ tab.draft \in [Days -> Counts]
         /\ Pool(ToSet(tab.plans)) \in Nat /\ Total(tab.draft, Days) \in Nat /\ PoolLeft \in Int
         /\ \A d \in Days, m \in {"lunch", "dinner"} :
              /\ tab.draft[d][m] \in 0..Most
              /\ PoolLeft > 0 => tab.draft[d][m] < Most
  <1>1. tab.draft \in [Days -> Meals]
    BY DEF Screen, Tabs
  <1>2. Meals \subseteq Counts /\ Most \in Nat
    BY Numbers
  <1>3. tab.draft \in [Days -> Counts]
    BY <1>1, <1>2
  <1>4. ToSet(tab.plans) \subseteq 1..Sets
    BY PlanFacts DEF Screen
  <1>5. Pool(ToSet(tab.plans)) \in Nat /\ Pool(ToSet(tab.plans)) <= Most
    BY <1>4, PoolFacts DEF World
  <1>6. /\ Total(tab.draft, Days) \in Nat
        /\ \A d \in Days : /\ PacksIn(tab.draft[d]) <= Total(tab.draft, Days) /\ PacksIn(tab.draft[d]) \in Nat
                           /\ tab.draft[d]["lunch"] \in Nat /\ tab.draft[d]["dinner"] \in Nat
                           /\ tab.draft[d]["lunch"] <= PacksIn(tab.draft[d])
                           /\ tab.draft[d]["dinner"] <= PacksIn(tab.draft[d])
    BY <1>3, TotalFacts
  <1>7. ASSUME NEW d \in Days, NEW m \in {"lunch", "dinner"}
        PROVE  tab.draft[d][m] \in 0..Most /\ (PoolLeft > 0 => tab.draft[d][m] < Most)
    <2>1. tab.draft[d]["lunch"] \in 0..Most /\ tab.draft[d]["dinner"] \in 0..Most
      BY <1>1 DEF Meals
    <2>2. PoolLeft > 0 => Total(tab.draft, Days) < Most
      BY <1>2, <1>5, <1>6 DEF PoolLeft
    <2>3. PoolLeft > 0 => tab.draft[d]["lunch"] < Most /\ tab.draft[d]["dinner"] < Most
      BY <1>2, <1>6, <2>2
    <2>4. m = "lunch" \/ m = "dinner"
      OBVIOUS
    <2>5. QED BY <2>1, <2>3, <2>4
  <1>8. QED BY <1>1, <1>3, <1>5, <1>6, <1>7 DEF PoolLeft

LEMMA OneChanged ==
  ASSUME NEW w \in [Days -> Meals], NEW d \in Days, NEW m \in {"lunch", "dinner"}, NEW n \in 0..Most
  PROVE  /\ [w[d] EXCEPT ![m] = n] \in Meals
         /\ [w EXCEPT ![d][m] = n] \in [Days -> Meals]
  <1>1. w[d] \in Meals
    OBVIOUS
  <1>2. [w[d] EXCEPT ![m] = n] \in Meals
    <2>1. CASE m = "lunch"
      BY <1>1, <2>1 DEF Meals
    <2>2. CASE m = "dinner"
      BY <1>1, <2>2 DEF Meals
    <2>3. QED BY <2>1, <2>2
  <1>3. QED BY <1>2

LEMMA TapDayKeeps ==
  ASSUME CalendarNumbers, World, Screen, NEW d \in Days, NEW m \in {"lunch", "dinner"}, TapDay(d, m)
  PROVE  World' /\ Screen'
  <1>1. tab.draft \in [Days -> Meals] /\ tab.draft[d][m] \in 0..Most /\ (PoolLeft > 0 => tab.draft[d][m] < Most)
    BY DraftFacts
  <1>2. Most \in Nat
    BY Numbers
  <1>3. CASE PoolLeft > 0 /\ SetQty([tab.draft EXCEPT ![d][m] = tab.draft[d][m] + 1])
    <2>1. tab.draft[d][m] + 1 \in 0..Most
      BY <1>1, <1>2, <1>3
    <2>2. [tab.draft EXCEPT ![d][m] = tab.draft[d][m] + 1] \in [Days -> Meals]
      BY <1>1, <2>1, OneChanged
    <2>3. QED BY <1>3, <2>2, SetQtyKeeps
  <1>4. CASE tab.draft[d][m] > 0 /\ SetQty([tab.draft EXCEPT ![d][m] = tab.draft[d][m] - 1])
    <2>1. tab.draft[d][m] - 1 \in 0..Most
      BY <1>1, <1>2, <1>4
    <2>2. [tab.draft EXCEPT ![d][m] = tab.draft[d][m] - 1] \in [Days -> Meals]
      BY <1>1, <2>1, OneChanged
    <2>3. QED BY <1>4, <2>2, SetQtyKeeps
  <1>5. QED BY <1>3, <1>4 DEF TapDay

\* What a change of several days does to the draft: every day tapped gets a number that fits.
LEMMA TapRangeFacts ==
  ASSUME CalendarNumbers, World, Screen, NEW from \in Days, NEW to \in Days, NEW m \in {"lunch", "dinner"},
         TapRange(from, to, m)
  PROVE  \E n \in [Tapped(from, to) -> 0..Most] :
           LET new == [d \in Days |-> IF d \in Tapped(from, to) THEN [tab.draft[d] EXCEPT ![m] = n[d]]
                                      ELSE tab.draft[d]]
           IN SetQty(new) /\ new \in [Days -> Meals]
  <1> DEFINE D == Tapped(from, to)
             counts == {tab.draft[d][m] : d \in D}
             fewest == CHOOSE n \in counts : \A d \in D : n <= tab.draft[d][m]
             more == [d \in D |-> IF d \in tab.free THEN fewest + 1 ELSE Least(fewest + 1, tab.draft[d][m])]
             less == [d \in D |-> fewest - 1]
             With(n) == [d \in Days |-> IF d \in D THEN [tab.draft[d] EXCEPT ![m] = n[d]] ELSE tab.draft[d]]
  <1>1. D \subseteq Days
    BY Numbers DEF Tapped, Days
  <1>2. Cardinality(D) > 1 /\ ((fewest < PoolLeft /\ SetQty(With(more))) \/ (fewest > 0 /\ SetQty(With(less))))
    BY Zenon DEF TapRange
  <1>3. D # {}
    BY <1>2, FS_EmptySet
  <1> HIDE DEF D
  <1>4. \A d \in D : tab.draft[d][m] \in 0..Most /\ (PoolLeft > 0 => tab.draft[d][m] < Most)
    BY <1>1, DraftFacts
  <1>5. fewest \in counts /\ \A d \in D : fewest <= tab.draft[d][m]
    <2>1. counts \in SUBSET Nat /\ counts # {}
      BY <1>3, <1>4
    <2>2. \E n \in counts : \A k \in counts : n <= k
      BY <2>1, LeastOne, Zenon
    <2>3. \E n \in counts : \A d \in D : n <= tab.draft[d][m]
      BY <2>2
    <2> HIDE DEF counts
    <2>4. QED BY <2>3
  <1>6. PICK e \in D : fewest = tab.draft[e][m]
    BY <1>5
  <1> HIDE DEF fewest, counts
  <1>7. fewest \in 0..Most /\ PoolLeft \in Int /\ Most \in Nat
    BY <1>4, <1>6, DraftFacts, Numbers
  <1>8. ASSUME NEW n \in [D -> 0..Most] PROVE With(n) \in [Days -> Meals]
    <2>1. tab.draft \in [Days -> Meals]
      BY DraftFacts
    <2>2. \A d \in D : [tab.draft[d] EXCEPT ![m] = n[d]] \in Meals
      BY <1>1, <2>1, OneChanged
    <2>3. QED BY <2>1, <2>2
  <1>9. CASE fewest < PoolLeft /\ SetQty(With(more))
    <2>1. PoolLeft > 0
      BY <1>7, <1>9
    <2>2. \A d \in D : fewest + 1 \in 0..Most /\ Least(fewest + 1, tab.draft[d][m]) \in 0..Most
      <3> TAKE d \in D
      <3>1. fewest <= tab.draft[d][m] /\ tab.draft[d][m] \in 0..Most /\ tab.draft[d][m] < Most
        BY <1>4, <1>5, <2>1
      <3>2. QED BY <1>7, <3>1 DEF Least
    <2>3. more \in [D -> 0..Most]
      BY <2>2
    <2> HIDE DEF more
    <2>4. QED BY <1>8, <1>9, <2>3 DEF D
  <1>10. CASE fewest > 0 /\ SetQty(With(less))
    <2>1. fewest - 1 \in 0..Most
      BY <1>7, <1>10
    <2>2. less \in [D -> 0..Most]
      BY <2>1
    <2> HIDE DEF less
    <2>3. QED BY <1>8, <1>10, <2>2 DEF D
  <1>11. QED BY <1>2, <1>9, <1>10

LEMMA TapRangeKeeps ==
  ASSUME CalendarNumbers, World, Screen, NEW from \in Days, NEW to \in Days, NEW m \in {"lunch", "dinner"},
         TapRange(from, to, m)
  PROVE  World' /\ Screen'
  <1> DEFINE With(n) == [d \in Days |-> IF d \in Tapped(from, to) THEN [tab.draft[d] EXCEPT ![m] = n[d]]
                                        ELSE tab.draft[d]]
  <1>1. PICK n \in [Tapped(from, to) -> 0..Most] : SetQty(With(n)) /\ With(n) \in [Days -> Meals]
    BY TapRangeFacts
  <1> HIDE DEF With
  <1>2. QED BY <1>1, SetQtyKeeps

LEMMA ClearAllKeeps ==
  ASSUME CalendarNumbers, World, Screen, ClearAll
  PROVE  World' /\ Screen'
  <1> DEFINE new == [d \in Days |-> IF d < today \/ Locked(d) THEN tab.draft[d] ELSE None]
  <1>1. new \in [Days -> Meals]
    BY DraftFacts, Numbers
  <1>2. SetQty(new)
    BY DEF ClearAll
  <1> HIDE DEF new
  <1>3. QED BY <1>1, <1>2, SetQtyKeeps

LEMMA HandleConfirmKeeps ==
  ASSUME CalendarNumbers, World, Screen, HandleConfirm
  PROVE  World' /\ Screen'
  <1>1. World'
    <2>1. saves' \in 0..MaxSaves
      <3>1. MaxSaves \in Nat /\ saves \in 0..MaxSaves /\ saves < MaxSaves /\ saves' = saves + 1
        BY Numbers DEF HandleConfirm, World
      <3>2. QED BY <3>1
    <2>2. QED BY <2>1 DEF HandleConfirm, World
  <1>2. /\ tab \in Tabs /\ tab.doing \in {"open", "refused"}
        /\ tab' = [tab EXCEPT !.doing = "saving", !.next = 1, !.touched = FALSE]
    BY DEF HandleConfirm, Screen
  <1>3. /\ tab' \in Tabs /\ tab'.plans = tab.plans /\ tab'.from = tab.from /\ tab'.rules = tab.rules
        /\ tab'.next = 1 /\ tab'.taps = tab.taps /\ tab'.doing = "saving"
    BY <1>2 DEF Tabs, Doings
  <1>4. tab'.taps \in 0..MaxTaps /\ tab.doing # "closed" /\ Len(tab.plans) > 0 /\ tab.plans \in Seq(1..Sets)
    BY <1>2, <1>3 DEF Screen, Tabs
  <1>5. tab'.next \in 0..Len(tab.plans) /\ tab'.next > 0
    BY <1>3, <1>4
  <1>6. Subscriptions' = Subscriptions
    BY DEF HandleConfirm, Subscriptions
  <1>7. Screen'
    BY <1>3, <1>4, <1>5, <1>6, ScreenKept
  <1>8. QED BY <1>1, <1>7

\* The request for the next plan.
LEMMA PersistFacts ==
  ASSUME CalendarNumbers, World, Screen, PersistSchedule
  PROVE  LET p == tab.plans[tab.next]
             N == Len(tab.plans)
             w == Dealt(tab.draft, tab.next, N) IN
         /\ tab.doing = "saving" /\ N \in Nat \ {0} /\ tab.next \in 1..N
         /\ p \in Subscriptions /\ p \in 1..Sets
         /\ w \in [Days -> Counts] /\ w \in [Days -> Meals]
         /\ tab' \in Tabs /\ tab'.plans = tab.plans /\ tab'.draft = tab.draft
         /\ \/ /\ Accepted(p, w) /\ pickups' = Rescheduled(p, w)
               /\ \/ /\ tab.next = N /\ tab'.doing = "saved" /\ tab'.next = 0
                     /\ tab'.from = 0 /\ tab'.rules = DefaultRules /\ tab'.taps = 0
                     /\ tab'.touched = tab.touched
                  \/ /\ tab.next < N /\ tab' = [tab EXCEPT !.next = tab.next + 1]
                     /\ tab'.doing = "saving" /\ tab'.next = tab.next + 1
                     /\ tab'.from = tab.from /\ tab'.rules = tab.rules /\ tab'.taps = tab.taps
                     /\ tab'.touched = tab.touched /\ tab'.stale = tab.stale
                     /\ tab'.filled = tab.filled
            \/ /\ ~Accepted(p, w) /\ UNCHANGED pickups
               /\ tab' = [tab EXCEPT !.doing = "refused", !.next = 0]
               /\ tab'.doing = "refused" /\ tab'.next = 0
               /\ tab'.from = tab.from /\ tab'.rules = tab.rules /\ tab'.taps = tab.taps
               /\ tab'.stale = tab.stale /\ tab'.filled = tab.filled
         /\ UNCHANGED <<credits, newest, others, opsEnd, today, clock, saves, events>>
  <1> DEFINE p == tab.plans[tab.next]
             N == Len(tab.plans)
             w == Dealt(tab.draft, tab.next, N)
             c == Closed
             k == tab.next + 1
  <1>1. /\ tab.doing = "saving"
        /\ \/ /\ Accepted(p, w) /\ pickups' = Rescheduled(p, w)
              /\ tab' = IF tab.next = N
                        THEN [c EXCEPT !.doing = "saved", !.plans = tab.plans, !.draft = tab.draft,
                                       !.touched = tab.touched]
                        ELSE [tab EXCEPT !.next = k]
           \/ ~Accepted(p, w) /\ tab' = [tab EXCEPT !.doing = "refused", !.next = 0] /\ UNCHANGED pickups
        /\ UNCHANGED <<credits, newest, others, opsEnd, today, clock, saves, events>>
    BY DEF PersistSchedule, Saved
  <1>2. tab \in Tabs /\ tab.next \in 0..N /\ tab.next > 0 /\ tab.plans \in Seq(1..Sets)
    BY <1>1 DEF Screen, Tabs
  <1>3. N \in Nat \ {0} /\ tab.next \in 1..N /\ k \in Nat /\ (tab.next # N => tab.next < N)
    BY <1>2
  <1>4. p \in Subscriptions /\ p \in 1..Sets
    <2>1. p \in ToSet(tab.plans)
      BY <1>2, <1>3 DEF ToSet
    <2>2. QED BY <2>1, PlanFacts DEF Screen
  <1>5. w \in [Days -> Counts] /\ w \in [Days -> Meals]
    <2>1. /\ tab.draft \in [Days -> Counts]
          /\ \A d \in Days : tab.draft[d].lunch \in 0..Most /\ tab.draft[d].dinner \in 0..Most
      BY DraftFacts DEF Meals
    <2>2. /\ w \in [Days -> Counts]
          /\ \A d \in Days : w[d].lunch <= tab.draft[d].lunch /\ w[d].dinner <= tab.draft[d].dinner
      BY <2>1, DealtFacts
    <2> HIDE DEF w
    <2>3. \A d \in Days : w[d] \in Meals
      <3> TAKE d \in Days
      <3>1. w[d] \in Counts /\ Most \in Nat
        BY <2>2, Numbers
      <3>2. w[d].lunch \in 0..Most /\ w[d].dinner \in 0..Most
        BY <2>1, <2>2, <3>1 DEF Counts
      <3>3. QED BY <3>1, <3>2 DEF Counts, Meals
    <2>4. QED BY <2>2, <2>3
  <1>6. c \in Tabs /\ c.next = 0 /\ c.from = 0 /\ c.rules = DefaultRules /\ c.taps = 0
    BY ClosedFacts
  <1> HIDE DEF p, N, w, c, k
  <1>7. CASE Accepted(p, w) /\ pickups' = Rescheduled(p, w) /\ tab.next = N
    <2>1. tab' = [c EXCEPT !.doing = "saved", !.plans = tab.plans, !.draft = tab.draft,
                           !.touched = tab.touched]
      BY <1>1, <1>7
    <2>2. /\ tab' \in Tabs /\ tab'.plans = tab.plans /\ tab'.draft = tab.draft
          /\ tab'.doing = "saved" /\ tab'.next = 0 /\ tab'.from = 0 /\ tab'.rules = DefaultRules /\ tab'.taps = 0
          /\ tab'.touched = tab.touched
      BY <1>2, <1>6, <2>1 DEF Tabs, Doings
    <2>3. QED BY <1>1, <1>3, <1>4, <1>5, <1>7, <2>2 DEF p, N, w
  <1>8. CASE Accepted(p, w) /\ pickups' = Rescheduled(p, w) /\ tab.next # N
    <2>1. tab' = [tab EXCEPT !.next = k]
      BY <1>1, <1>8
    <2>2. /\ tab' \in Tabs /\ tab'.plans = tab.plans /\ tab'.draft = tab.draft
          /\ tab'.doing = "saving" /\ tab'.next = k /\ tab'.from = tab.from /\ tab'.rules = tab.rules
          /\ tab'.taps = tab.taps /\ tab'.touched = tab.touched /\ tab'.stale = tab.stale
          /\ tab'.filled = tab.filled
      BY <1>1, <1>2, <1>3, <2>1 DEF Tabs, Doings
    <2>3. QED BY <1>1, <1>3, <1>4, <1>5, <1>8, <2>1, <2>2 DEF p, N, w, k
  <1>9. CASE ~Accepted(p, w) /\ tab' = [tab EXCEPT !.doing = "refused", !.next = 0] /\ UNCHANGED pickups
    <2>1. /\ tab' \in Tabs /\ tab'.plans = tab.plans /\ tab'.draft = tab.draft
          /\ tab'.doing = "refused" /\ tab'.next = 0 /\ tab'.from = tab.from /\ tab'.rules = tab.rules
          /\ tab'.taps = tab.taps /\ tab'.stale = tab.stale /\ tab'.filled = tab.filled
      BY <1>2, <1>9 DEF Tabs, Doings
    <2>2. QED BY <1>1, <1>3, <1>4, <1>5, <1>9, <2>1 DEF p, N, w
  <1>10. QED BY <1>1, <1>7, <1>8, <1>9

LEMMA PersistKeeps ==
  ASSUME CalendarNumbers, World, Screen, PersistSchedule
  PROVE  World' /\ Screen'
  <1> DEFINE p == tab.plans[tab.next]
             N == Len(tab.plans)
             w == Dealt(tab.draft, tab.next, N)
  <1>1. /\ p \in 1..Sets /\ w \in [Days -> Counts] /\ w \in [Days -> Meals]
        /\ N \in Nat \ {0} /\ tab.next \in 1..N /\ tab.doing = "saving"
        /\ (Accepted(p, w) /\ pickups' = Rescheduled(p, w)) \/ UNCHANGED pickups
        /\ UNCHANGED <<credits, newest, others, opsEnd, today, clock, saves, events>>
    BY PersistFacts
  <1>2. /\ tab' \in Tabs /\ tab'.plans = tab.plans
        /\ \/ tab'.next = 0 /\ tab'.doing \in {"saved", "refused"}
           \/ tab'.next = tab.next + 1 /\ tab.next < N
        /\ \/ tab'.from = 0 /\ tab'.rules = DefaultRules /\ tab'.taps = 0
           \/ tab'.from = tab.from /\ tab'.rules = tab.rules /\ tab'.taps = tab.taps
    BY PersistFacts
  <1> HIDE DEF p, N, w
  <1>3. pickups' \in [1..Sets -> [Days -> SoundRows]]
    <2>1. CASE UNCHANGED pickups
      BY <2>1 DEF World
    <2>2. CASE Accepted(p, w) /\ pickups' = Rescheduled(p, w)
      <3>1. \A d \in Days : PacksIn(w[d]) <= MaxMeals
        <4>1. Total(w, Days) <= credits[p] /\ credits[p] \in 1..MaxMeals /\ MaxMeals \in Nat
          BY <1>1, <2>2, Numbers DEF Accepted, World
        <4>2. Total(w, Days) \in Nat /\ \A d \in Days : PacksIn(w[d]) \in Nat /\ PacksIn(w[d]) <= Total(w, Days)
          BY <1>1, TotalFacts
        <4>3. QED BY <4>1, <4>2
      <3>2. \A d \in Days : w[d] # None => [status |-> "SCHEDULED", meals |-> w[d]] \in SoundRows
        BY <1>1, <3>1 DEF SoundRows, Rows
      <3>3. NoPickup \in SoundRows
        BY Numbers DEF NoPickup, SoundRows, Rows, PacksIn, None
      <3>4. pickups \in [1..Sets -> [Days -> SoundRows]]
        BY DEF World
      <3>5. \A d \in Days : pickups[p][d] \in SoundRows
        BY <1>1, <3>4
      <3>6. QED BY <1>1, <2>2, <3>2, <3>3, <3>4, <3>5 DEF Rescheduled
    <2>3. QED BY <1>1, <2>1, <2>2
  <1>4. World'
    BY <1>1, <1>3 DEF World
  <1>5. 0 \in 0..(MaxDay + LeadDays + 1) /\ DefaultRules \in Rules /\ 0 \in 0..MaxTaps
    BY Numbers, DefaultKept
  <1>6. /\ tab'.next \in 0..N /\ (tab'.doing = "saving" => tab'.next > 0)
        /\ tab'.from \in 0..(MaxDay + LeadDays + 1) /\ tab'.rules \in Rules /\ tab'.taps \in 0..MaxTaps
        /\ N > 0
    <2>1. tab'.next \in 0..N /\ (tab'.doing = "saving" => tab'.next > 0) /\ N > 0
      BY <1>1, <1>2
    <2>2. QED BY <1>2, <1>5, <2>1 DEF Screen
  <1>7. Subscriptions' = Subscriptions
    BY <1>1 DEF Subscriptions
  <1>8. Screen'
    BY <1>2, <1>6, <1>7 DEF Screen, N
  <1>9. QED BY <1>4, <1>8

\* What somebody else does to the screen: nothing, or it is no longer what is on the server.
Stirs ==
  \/ tab' = tab
  \/ tab.doing = "closed" /\ tab' = Closed
  \/ /\ tab' \in Tabs /\ tab'.doing = tab.doing /\ tab'.plans = tab.plans /\ tab'.draft = tab.draft
     /\ tab'.next = tab.next /\ tab'.from = tab.from /\ tab'.rules = tab.rules /\ tab'.taps = tab.taps
     /\ tab'.filled = tab.filled /\ tab'.stale = TRUE
     /\ tab'.touched = tab.touched \/ tab'.touched = TRUE

LEMMA StirsScreen ==
  ASSUME CalendarNumbers, Screen, Stirs, Subscriptions \subseteq Subscriptions'
  PROVE  Screen'
  <1>1. CASE tab' = tab
    BY <1>1 DEF Screen
  <1>2. CASE tab' = Closed
    BY <1>2, ClosedScreen
  <1>3. CASE /\ tab' \in Tabs /\ tab'.doing = tab.doing /\ tab'.plans = tab.plans
             /\ tab'.next = tab.next /\ tab'.from = tab.from /\ tab'.rules = tab.rules /\ tab'.taps = tab.taps
    <2>1. tab'.taps \in 0..MaxTaps /\ tab'.next \in 0..Len(tab.plans) /\ (tab'.doing = "saving" => tab'.next > 0)
      BY <1>3 DEF Screen
    <2>2. QED BY <1>3, <2>1, ScreenKept
  <1>4. QED BY <1>1, <1>2, <1>3 DEF Stirs

LEMMA EventFacts ==
  ASSUME CalendarNumbers, World, Screen, NEW wrote \in BOOLEAN, Event(wrote)
  PROVE  /\ Stirs /\ (tab'.doing = "closed" \/ tab'.stale = TRUE)
         /\ (wrote /\ tab.doing \in {"saving", "saved"} => tab'.touched = TRUE)
         /\ events' \in 0..MaxEvents
  <1> DEFINE t == tab.touched \/ (wrote /\ tab.doing \in {"saving", "saved"})
  <1>1. events' \in 0..MaxEvents
    <2>1. MaxEvents \in Nat /\ events \in 0..MaxEvents /\ events < MaxEvents /\ events' = events + 1
      BY Numbers DEF Event, World
    <2>2. QED BY <2>1
  <1>2. tab \in Tabs /\ t \in BOOLEAN
    BY DEF Screen, Tabs
  <1>3. (t = tab.touched \/ t = TRUE) /\ (wrote /\ tab.doing \in {"saving", "saved"} => t = TRUE)
    <2>1. tab.touched \in BOOLEAN
      BY <1>2 DEF Tabs
    <2>2. QED BY <2>1
  <1> HIDE DEF t
  <1>4. CASE tab.doing = "closed"
    BY <1>1, <1>4, ClosedFacts DEF Event, Stirs
  <1>5. CASE tab.doing # "closed"
    <2>1. tab' = [tab EXCEPT !.stale = TRUE, !.touched = t]
      BY <1>5 DEF Event, t
    <2>2. /\ tab' \in Tabs /\ tab'.doing = tab.doing /\ tab'.plans = tab.plans /\ tab'.draft = tab.draft
          /\ tab'.next = tab.next /\ tab'.from = tab.from /\ tab'.rules = tab.rules /\ tab'.taps = tab.taps
          /\ tab'.filled = tab.filled /\ tab'.stale = TRUE /\ tab'.touched = t
      BY <1>2, <2>1 DEF Tabs
    <2>3. QED BY <1>1, <1>3, <2>2 DEF Stirs
  <1>6. QED BY <1>4, <1>5

LEMMA PacksOnFacts ==
  ASSUME CalendarNumbers, World, NEW d \in Days, NEW P, P \subseteq 1..Sets
  PROVE  PacksAt(d, P) \in Nat
  <1> DEFINE S == {p \in P : pickups[p][d].status = "SCHEDULED"}
             n == [p \in P |-> PacksIn(pickups[p][d].meals)]
  <1>1. \A p \in S : n[p] \in Nat
    <2> TAKE p \in S
    <2>1. pickups[p][d].meals \in Counts
      BY Numbers DEF World, SoundRows, Rows
    <2>2. QED BY <2>1 DEF Counts, PacksIn
  <1>2. IsFiniteSet(S)
    <2> DEFINE V == 1..Sets
    <2>1. IsFiniteSet(V) /\ S \subseteq V
      BY Numbers
    <2> HIDE DEF V, S
    <2>2. QED BY <2>1, FS_Subset
  <1> HIDE DEF S, n
  <1>3. SumOf(n, S) \in Nat
    BY <1>1, <1>2, SumFacts
  <1>4. QED BY <1>3 DEF PacksAt, S, n

LEMMA BuyKeeps ==
  ASSUME CalendarNumbers, World, Screen, Buy
  PROVE  World' /\ Screen' /\ Stirs
  <1>1. newest' \in 1..Sets /\ newest' <= newest /\ newest \in Nat /\ Sets \in Nat
    <2>1. newest \in 1..Sets /\ Sets \in Nat /\ newest > 1 /\ newest' = newest - 1
      BY Numbers DEF World, Buy
    <2>2. QED BY <2>1
  <1>2. World'
    BY <1>1 DEF World, Buy
  <1>3. Subscriptions \subseteq Subscriptions'
    BY <1>1 DEF Subscriptions
  <1>4. Stirs
    BY DEF Stirs, Buy
  <1>5. QED BY <1>2, <1>3, <1>4, StirsScreen

LEMMA FillDayKeeps ==
  ASSUME CalendarNumbers, World, Screen, NEW d \in Days, FillDay(d)
  PROVE  World' /\ Screen' /\ Stirs
  <1>1. PacksAt(d, Subscriptions) \in Nat
    BY PlanFacts, PacksOnFacts
  <1>2. DailyPacks - PacksAt(d, Subscriptions) \in 0..DailyPacks
    BY <1>1, Numbers DEF FillDay
  <1>3. others' \in [Days -> 0..DailyPacks]
    BY <1>2 DEF World, FillDay
  <1>4. Event(FALSE)
    BY DEF FillDay
  <1>5. Stirs /\ events' \in 0..MaxEvents
    BY <1>4, EventFacts
  <1>6. World'
    BY <1>3, <1>5 DEF World, FillDay
  <1>7. Subscriptions' = Subscriptions
    BY DEF FillDay, Subscriptions
  <1>8. QED BY <1>5, <1>6, <1>7, StirsScreen

LEMMA CollectKeeps ==
  ASSUME CalendarNumbers, World, Screen, Collect
  PROVE  World' /\ Screen' /\ Stirs
  <1>1. \A r \in SoundRows : r.status = "SCHEDULED" => [r EXCEPT !.status = "DELIVERED"] \in SoundRows
    BY DEF SoundRows, Rows
  <1>2. pickups' \in [1..Sets -> [Days -> SoundRows]]
    BY <1>1 DEF Collect, World
  <1>3. World'
    BY <1>2 DEF Collect, World
  <1>4. Stirs /\ Subscriptions' = Subscriptions
    BY DEF Stirs, Collect, Subscriptions
  <1>5. QED BY <1>3, <1>4, StirsScreen

LEMMA CloseOperationsKeeps ==
  ASSUME CalendarNumbers, World, Screen, NEW cutoff \in 0..(MaxDay - 1), CloseOperations(cutoff)
  PROVE  World' /\ Screen' /\ Stirs
  <1>1. \A r \in SoundRows : r.status = "SCHEDULED" => [r EXCEPT !.status = "SKIPPED"] \in SoundRows
    BY DEF SoundRows, Rows
  <1>2. pickups' \in [1..Sets -> [Days -> SoundRows]]
    BY <1>1 DEF CloseOperations, World
  <1>3. opsEnd' \in 0..NoEnd
    <2>1. MaxDay \in Nat /\ opsEnd' = cutoff
      BY Numbers DEF CloseOperations
    <2>2. QED BY <2>1 DEF NoEnd
  <1>4. Event(TRUE)
    BY DEF CloseOperations
  <1>5. Stirs /\ events' \in 0..MaxEvents
    BY <1>4, EventFacts
  <1>6. World'
    BY <1>2, <1>3, <1>5 DEF World, CloseOperations
  <1>7. Subscriptions' = Subscriptions
    BY DEF CloseOperations, Subscriptions
  <1>8. QED BY <1>5, <1>6, <1>7, StirsScreen

LEMMA ReopenKeeps ==
  ASSUME CalendarNumbers, World, Screen, Reopen
  PROVE  World' /\ Screen' /\ Stirs
  <1>1. opsEnd' \in 0..NoEnd
    <2>1. NoEnd \in Nat
      BY Numbers
    <2>2. QED BY <2>1 DEF Reopen
  <1>2. World'
    BY <1>1 DEF Reopen, World
  <1>3. Stirs /\ Subscriptions' = Subscriptions
    BY DEF Stirs, Reopen, Subscriptions
  <1>4. QED BY <1>2, <1>3, StirsScreen

LEMMA StaffScheduleKeeps ==
  ASSUME CalendarNumbers, World, Screen, NEW p \in Subscriptions, NEW d \in Days,
         NEW m \in [lunch : 0..1, dinner : {0}], StaffSchedule(p, d, m)
  PROVE  World' /\ Screen' /\ Stirs
  <1>1. p \in 1..Sets /\ {p} \subseteq 1..Sets
    BY PlanFacts
  <1>2. MergeDeliveries({p}) \in [Days -> Meals] /\ Meals \subseteq Counts
    BY <1>1, MergeFacts, Numbers DEF World
  <1>3. m \in Counts
    BY DEF Counts
  <1>4. PacksIn(m) <= MaxMeals
    <2> DEFINE w == [MergeDeliveries({p}) EXCEPT ![d] = m]
    <2>1. w \in [Days -> Counts] /\ w[d] = m
      BY <1>2, <1>3
    <2>2. Total(w, Days) <= credits[p] /\ credits[p] \in 1..MaxMeals /\ MaxMeals \in Nat
      BY <1>1, Numbers DEF StaffSchedule, World
    <2> HIDE DEF w
    <2>3. PacksIn(w[d]) \in Nat /\ PacksIn(w[d]) <= Total(w, Days) /\ Total(w, Days) \in Nat
      BY <2>1, TotalFacts
    <2>4. QED BY <2>1, <2>2, <2>3
  <1>5. m \in Meals
    <2>1. m.lunch \in Nat /\ m.dinner \in Nat /\ m.lunch + m.dinner <= MaxMeals /\ MaxMeals \in Nat
          /\ Most \in Nat /\ MaxMeals <= Most
      BY <1>3, <1>4, Numbers DEF Counts, PacksIn
    <2>2. m.lunch \in 0..Most /\ m.dinner \in 0..Most
      BY <2>1
    <2>3. QED BY <1>3, <2>2 DEF Counts, Meals
  <1>6. (IF m = None THEN NoPickup ELSE [status |-> "SCHEDULED", meals |-> m]) \in SoundRows
    <2>1. NoPickup \in SoundRows
      BY Numbers DEF NoPickup, SoundRows, Rows, PacksIn, None
    <2>2. m # None => [status |-> "SCHEDULED", meals |-> m] \in SoundRows
      BY <1>4, <1>5 DEF SoundRows, Rows
    <2>3. QED BY <2>1, <2>2
  <1>7. pickups' \in [1..Sets -> [Days -> SoundRows]]
    BY <1>1, <1>6 DEF StaffSchedule, World
  <1>8. Event(TRUE)
    BY DEF StaffSchedule
  <1>9. Stirs /\ events' \in 0..MaxEvents
    BY <1>8, EventFacts
  <1>10. World'
    BY <1>7, <1>9 DEF World, StaffSchedule
  <1>11. Subscriptions' = Subscriptions
    BY DEF StaffSchedule, Subscriptions
  <1>12. QED BY <1>9, <1>10, <1>11, StirsScreen

LEMMA TickKeeps ==
  ASSUME CalendarNumbers, World, Screen, TimePasses
  PROVE  World' /\ Screen' /\ Stirs /\ (tab'.doing = "closed" \/ tab'.stale = TRUE)
  <1>1. today' \in 0..MaxDay /\ clock' \in {"open", "locked", "late"}
    <2>1. MaxDay \in Nat /\ today \in 0..MaxDay
      BY Numbers DEF World
    <2>2. QED BY <2>1 DEF TimePasses, World
  <1>2. World'
    BY <1>1 DEF World, TimePasses
  <1>3. tab \in Tabs
    BY DEF Screen
  <1>4. Stirs /\ (tab'.doing = "closed" \/ tab'.stale = TRUE)
    <2>1. CASE tab.doing = "closed"
      BY <2>1, ClosedFacts DEF TimePasses, Stirs
    <2>2. CASE tab.doing # "closed"
      <3>1. tab' = [tab EXCEPT !.stale = TRUE]
        BY <2>2 DEF TimePasses
      <3>2. /\ tab' \in Tabs /\ tab'.doing = tab.doing /\ tab'.plans = tab.plans /\ tab'.draft = tab.draft
            /\ tab'.next = tab.next /\ tab'.from = tab.from /\ tab'.rules = tab.rules /\ tab'.taps = tab.taps
            /\ tab'.filled = tab.filled /\ tab'.stale = TRUE /\ tab'.touched = tab.touched
        BY <1>3, <3>1 DEF Tabs
      <3>3. QED BY <3>2 DEF Stirs
    <2>3. QED BY <2>1, <2>2
  <1>5. Subscriptions' = Subscriptions
    BY DEF TimePasses, Subscriptions
  <1>6. QED BY <1>2, <1>4, <1>5, StirsScreen

\* The types always hold.
LEMMA NextKeeps ==
  ASSUME CalendarNumbers, World, Screen, [CalendarNext]_calendarVars
  PROVE  World' /\ Screen'
  <1>1. ASSUME OpenCalendar \/ LoadRules \/ LoadCapacity PROVE World' /\ Screen'
    BY <1>1, OpenKeeps, LoadKeeps
  <1>2. ASSUME NEW m \in {"lunch", "dinner"}, NEW d \in Days, TapDay(d, m) PROVE World' /\ Screen'
    BY <1>2, TapDayKeeps
  <1>3. ASSUME NEW m \in {"lunch", "dinner"}, NEW from \in Days, NEW to \in Days, TapRange(from, to, m)
        PROVE  World' /\ Screen'
    BY <1>3, TapRangeKeeps
  <1>4. ASSUME NEW d \in Days, FillDay(d) PROVE World' /\ Screen'
    BY <1>4, FillDayKeeps
  <1>5. ASSUME NEW cutoff \in 0..(MaxDay - 1), CloseOperations(cutoff) PROVE World' /\ Screen'
    BY <1>5, CloseOperationsKeeps
  <1>6. ASSUME NEW p \in Subscriptions, NEW d \in Days, NEW m \in [lunch : 0..1, dinner : {0}],
               StaffSchedule(p, d, m)
        PROVE  World' /\ Screen'
    BY <1>6, StaffScheduleKeeps
  <1>7. CASE UNCHANGED calendarVars
    BY <1>7 DEF calendarVars, World, Screen, Subscriptions
  <1>8. QED BY <1>1, <1>2, <1>3, <1>4, <1>5, <1>6, <1>7, CloseKeeps, ClearAllKeeps, HandleConfirmKeeps,
               PersistKeeps, BuyKeeps, CollectKeeps, ReopenKeeps, TickKeeps DEF CalendarNext

---------------------------------------------------------------------------
(* What is saved is what was drafted *)

\* The rows of the k-th plan are its share of the draft, except on days handed out or skipped.
SentTo(rows, s, draft, k) ==
  \A d \in Days :
    \/ rows[s[k]][d].status \in {"DELIVERED", "SKIPPED"}
    \/ rows[s[k]][d].meals = Dealt(draft, k, Len(s))[d]

\* The requests sent so far are in the rows.
Sent ==
  tab.doing \in {"saving", "saved"} /\ ~tab.touched =>
    \A k \in 1..Len(tab.plans) :
      (tab.doing = "saving" => k < tab.next) => SentTo(pickups, tab.plans, tab.draft, k)

\* The rows of the plans together are the draft.
LEMMA SentIsSaved ==
  ASSUME CalendarNumbers, World, Screen, Sent
  PROVE  SavedIsDrafted
  <1> DEFINE P == ToSet(tab.plans)
             N == Len(tab.plans)
             s == tab.plans
  <1> SUFFICES ASSUME tab.doing = "saved", ~tab.touched, NEW d \in Days,
                      \A p \in P : pickups[p][d].status \notin {"DELIVERED", "SKIPPED"}
               PROVE  MergeDeliveries(P)[d] = tab.draft[d]
    BY Zenon DEF SavedIsDrafted
  <1>1. Lists(s, P) /\ N > 0 /\ P \subseteq 1..Sets
    BY PlanFacts DEF Screen
  <1>2. N \in Nat \ {0} /\ \A k \in 1..N : s[k] \in P
    <2>1. s \in Seq(P) /\ Len(s) \in Nat
      BY <1>1, ListsSet
    <2>2. QED BY <1>1, <2>1
  <1>3. \A k \in 1..N : pickups[s[k]][d].meals = Dealt(tab.draft, k, N)[d]
    <2>1. \A k \in 1..N : SentTo(pickups, s, tab.draft, k)
      BY DEF Sent
    <2>2. QED BY <1>2, <2>1 DEF SentTo
  <1>4. tab.draft \in [Days -> Counts] /\ tab.draft[d] \in Counts
    BY DraftFacts
  <1> DEFINE l == [p \in P |-> pickups[p][d].meals["lunch"]]
             r == [p \in P |-> pickups[p][d].meals["dinner"]]
  <1>5. MergeDeliveries(P)[d] = [lunch |-> SumOf(l, P), dinner |-> SumOf(r, P)]
    <2>1. {p \in P : pickups[p][d].status # "SKIPPED"} = P
      OBVIOUS
    <2>2. QED BY <2>1 DEF MergeDeliveries
  <1>6. \A k \in 1..N : Dealt(tab.draft, k, N)[d] \in Counts
    BY <1>4, DealtFacts
  <1>7. \A k \in 1..N : /\ l[s[k]] = Dealt(tab.draft, k, N)[d].lunch
                        /\ r[s[k]] = Dealt(tab.draft, k, N)[d].dinner
    BY <1>2, <1>3, <1>6 DEF Counts
  <1> DEFINE bl == Before(tab.draft, d, "lunch")
             br == Before(tab.draft, d, "dinner")
             cl == tab.draft[d].lunch
             cr == tab.draft[d].dinner
  <1> HIDE DEF P, N, s, l, r
  <1>8. \A k \in 1..N :
          l[s[k]] = Cardinality(Turns(bl, cl, N, k)) /\ r[s[k]] = Cardinality(Turns(br, cr, N, k))
    BY <1>4, <1>7, DealtFacts
  <1>9. bl \in Nat /\ br \in Nat /\ cl \in Nat /\ cr \in Nat
    BY <1>4, BeforeFacts, TotalFacts
  <1> HIDE DEF bl, br, cl, cr
  <1>10. Len(s) = N
    BY DEF s, N
  <1>11. SumOf(l, P) = cl
    <2>1. Shared(l, s, bl, cl)
      BY <1>8, <1>10 DEF Shared
    <2>2. QED BY <1>1, <1>9, <1>10, <2>1, DealtOut
  <1>12. SumOf(r, P) = cr
    <2>1. Shared(r, s, br, cr)
      BY <1>8, <1>10 DEF Shared
    <2>2. QED BY <1>1, <1>9, <1>10, <2>1, DealtOut
  <1>13. QED BY <1>4, <1>5, <1>11, <1>12 DEF Counts, cl, cr

\* A step that changes no row.
LEMMA SentMarked ==
  ASSUME CalendarNumbers, Sent, Stirs, UNCHANGED pickups
  PROVE  Sent'
  <1>1. CASE tab' = tab
    BY <1>1 DEF Sent
  <1>2. CASE tab' = Closed
    <2>1. tab'.doing = "closed"
      BY <1>2, ClosedFacts
    <2>2. QED BY <2>1 DEF Sent
  <1>3. CASE /\ tab'.doing = tab.doing /\ tab'.plans = tab.plans /\ tab'.draft = tab.draft
             /\ tab'.next = tab.next
             /\ tab'.touched = tab.touched \/ tab'.touched = TRUE
    BY <1>3 DEF Sent
  <1>4. QED BY <1>1, <1>2, <1>3 DEF Stirs

LEMMA SentPersist ==
  ASSUME CalendarNumbers, World, Screen, Sent, PersistSchedule
  PROVE  Sent'
  <1> DEFINE N == Len(tab.plans)
             p == tab.plans[tab.next]
             w == Dealt(tab.draft, tab.next, N)
             s == tab.plans
  <1>1. /\ tab.doing = "saving" /\ N \in Nat \ {0} /\ tab.next \in 1..N /\ p \in 1..Sets
        /\ tab'.plans = s /\ tab'.draft = tab.draft
        /\ \/ /\ Accepted(p, w) /\ pickups' = Rescheduled(p, w) /\ tab'.touched = tab.touched
              /\ \/ tab'.doing = "saved" /\ tab.next = N
                 \/ tab'.doing = "saving" /\ tab'.next = tab.next + 1
           \/ tab'.doing = "refused"
    BY PersistFacts
  <1>2. CASE tab'.doing = "refused"
    BY <1>2 DEF Sent
  <1>3. CASE /\ Accepted(p, w) /\ pickups' = Rescheduled(p, w) /\ tab'.touched = tab.touched
             /\ \/ tab'.doing = "saved" /\ tab.next = N
                \/ tab'.doing = "saving" /\ tab'.next = tab.next + 1
    <2> SUFFICES ASSUME ~tab.touched, NEW k \in 1..N, k <= tab.next
                 PROVE  SentTo(pickups', s, tab.draft, k)
      BY <1>1, <1>3 DEF Sent
    <2>1. \A i, j \in 1..N : s[i] = s[j] => i = j
      BY DEF Screen, Lists
    <2>2. pickups \in [1..Sets -> [Days -> SoundRows]]
      BY DEF World
    <2>3. CASE k = tab.next
      <3> SUFFICES ASSUME NEW d \in Days
                   PROVE  \/ pickups'[p][d].status \in {"DELIVERED", "SKIPPED"}
                          \/ pickups'[p][d].meals = w[d]
        BY <2>3 DEF SentTo
      <3>1. LockedKept(p, w)
        BY <1>3 DEF Accepted
      <3>2. pickups[p][d].status = "SCHEDULED" /\ Locked(d) => w[d] = pickups[p][d].meals
        BY <3>1 DEF LockedKept
      <3>3. pickups'[p][d] =
              IF \/ pickups[p][d].status \in {"DELIVERED", "SKIPPED"}
                 \/ pickups[p][d].status = "SCHEDULED" /\ Locked(d)
              THEN pickups[p][d]
              ELSE IF w[d] = None THEN NoPickup ELSE [status |-> "SCHEDULED", meals |-> w[d]]
        BY <1>1, <1>3, <2>2 DEF Rescheduled
      <3> HIDE DEF p, w
      <3>4. QED BY <3>2, <3>3 DEF NoPickup
    <2>4. CASE k < tab.next
      <3>1. SentTo(pickups, s, tab.draft, k)
        BY <1>1, <2>4 DEF Sent
      <3>2. s[k] # p
        BY <1>1, <2>1, <2>4
      <3>3. pickups'[s[k]] = pickups[s[k]]
        <4>1. s[k] \in 1..Sets
          BY SeqElements DEF Screen, Tabs
        <4> HIDE DEF p, w, s
        <4>2. QED BY <1>3, <2>2, <3>2, <4>1 DEF Rescheduled
      <3>4. QED BY <3>1, <3>3 DEF SentTo
    <2>5. QED BY <1>1, <2>3, <2>4
  <1>4. QED BY <1>1, <1>2, <1>3

LEMMA SentKept ==
  ASSUME CalendarNumbers, World, Screen, Sent, [CalendarNext]_calendarVars
  PROVE  Sent'
  <1>1. ASSUME OpenCalendar \/ LoadRules \/ LoadCapacity PROVE Sent'
    <2>1. CASE OpenCalendar
      <3>1. tab'.doing = "open"
        BY <2>1, OpenFacts
      <3>2. QED BY <3>1 DEF Sent
    <2>2. CASE LoadRules \/ LoadCapacity
      <3>1. /\ tab'.doing = tab.doing /\ tab'.plans = tab.plans /\ tab'.draft = tab.draft
            /\ tab'.next = tab.next /\ tab'.touched = tab.touched /\ UNCHANGED pickups
        BY <2>2, LoadFacts
      <3>2. QED BY <3>1 DEF Sent
    <2>3. QED BY <1>1, <2>1, <2>2
  <1>2. ASSUME CloseCalendar PROVE Sent'
    <2>1. tab'.doing = "closed"
      BY <1>2, ClosedFacts DEF CloseCalendar
    <2>2. QED BY <2>1 DEF Sent
  <1>3. ASSUME NEW new, SetQty(new) PROVE Sent'
    <2>1. tab'.doing = "open"
      BY <1>3 DEF SetQty, Screen, Tabs
    <2>2. QED BY <2>1 DEF Sent
  <1>4. ASSUME NEW m \in {"lunch", "dinner"}, NEW d \in Days, TapDay(d, m) PROVE Sent'
    BY <1>3, <1>4 DEF TapDay
  <1>5. ASSUME NEW m \in {"lunch", "dinner"}, NEW from \in Days, NEW to \in Days, TapRange(from, to, m)
        PROVE  Sent'
    <2>1. \E new : SetQty(new)
      BY <1>5, TapRangeFacts
    <2>2. QED BY <1>3, <2>1
  <1>6. ASSUME ClearAll PROVE Sent'
    BY <1>3, <1>6 DEF ClearAll
  <1>7. ASSUME HandleConfirm PROVE Sent'
    <2>1. tab'.doing = "saving" /\ tab'.next = 1
      BY <1>7 DEF HandleConfirm, Screen, Tabs
    <2>2. \A k \in 1..Len(tab'.plans) : ~(k < tab'.next)
      BY <2>1
    <2>3. QED BY <2>1, <2>2 DEF Sent
  <1>8. ASSUME Collect PROVE Sent'
    <2>1. tab' = tab
      BY <1>8 DEF Collect
    <2>2. pickups \in [1..Sets -> [Days -> SoundRows]] /\ SoundRows \subseteq Rows
      BY DEF World, SoundRows
    <2>3. \A p \in 1..Sets, d \in Days :
            \/ pickups'[p][d].status = "DELIVERED"
            \/ pickups'[p][d] = pickups[p][d]
      BY <1>8, <2>2 DEF Collect, Rows
    <2>4. tab.plans \in Seq(1..Sets)
      BY DEF Screen, Tabs
    <2>5. \A k \in 1..Len(tab.plans) : tab.plans[k] \in 1..Sets
      BY <2>4, SeqElements
    <2>6. \A k \in 1..Len(tab.plans) : SentTo(pickups, tab.plans, tab.draft, k) =>
            SentTo(pickups', tab.plans, tab.draft, k)
      BY <2>3, <2>5 DEF SentTo
    <2>7. QED BY <2>1, <2>6 DEF Sent
  <1>9. ASSUME Event(TRUE) PROVE Sent'
    <2>1. Stirs /\ (tab.doing \in {"saving", "saved"} => tab'.touched = TRUE)
      BY <1>9, EventFacts
    <2>2. tab'.doing = tab.doing \/ tab'.doing = "closed"
      BY <2>1, ClosedFacts DEF Stirs
    <2>3. QED BY <2>1, <2>2 DEF Sent
  <1>10. ASSUME NEW cutoff \in 0..(MaxDay - 1), CloseOperations(cutoff) PROVE Sent'
    BY <1>9, <1>10 DEF CloseOperations
  <1>11. ASSUME NEW p \in Subscriptions, NEW d \in Days, NEW m \in [lunch : 0..1, dinner : {0}],
                StaffSchedule(p, d, m)
         PROVE  Sent'
    BY <1>9, <1>11 DEF StaffSchedule
  <1>12. ASSUME NEW d \in Days, FillDay(d) PROVE Sent'
    BY <1>12, FillDayKeeps, SentMarked DEF FillDay
  <1>13. CASE Buy \/ Reopen \/ TimePasses
    <2>1. Stirs /\ UNCHANGED pickups
      BY <1>13, BuyKeeps, ReopenKeeps, TickKeeps DEF Buy, Reopen, TimePasses
    <2>2. QED BY <2>1, SentMarked
  <1>14. CASE UNCHANGED calendarVars
    BY <1>14 DEF calendarVars, Sent
  <1>15. QED BY <1>1, <1>2, <1>4, <1>5, <1>6, <1>7, <1>8, <1>10, <1>11, <1>12, <1>13, <1>14,
                SentPersist DEF CalendarNext

---------------------------------------------------------------------------
(* More about sums *)

\* A sum depends on the terms only.
LEMMA SumSame ==
  ASSUME NEW S, NEW n, NEW k, \A x \in S : n[x] = k[x]
  PROVE  SumOf(n, S) = SumOf(k, S)
  <1>1. \A x \in S : {x} \X (1..n[x]) = {x} \X (1..k[x])
    OBVIOUS
  <1>2. Heap(n, S) = Heap(k, S)
    BY <1>1 DEF Heap
  <1>3. QED BY <1>2 DEF SumOf

\* Two sums are no less than one over both.
LEMMA SumSplit ==
  ASSUME NEW S, IsFiniteSet(S), NEW T, IsFiniteSet(T), NEW n, \A x \in S \cup T : n[x] \in Nat
  PROVE  SumOf(n, S \cup T) <= SumOf(n, S) + SumOf(n, T)
  <1>1. Heap(n, S \cup T) = Heap(n, S) \cup Heap(n, T)
    BY DEF Heap
  <1>2. IsFiniteSet(Heap(n, S)) /\ IsFiniteSet(Heap(n, T))
    BY SumFacts
  <1>3. Cardinality(Heap(n, S \cup T)) =
          Cardinality(Heap(n, S)) + Cardinality(Heap(n, T)) - Cardinality(Heap(n, S) \cap Heap(n, T))
    BY <1>1, <1>2, FS_Union
  <1>4. IsFiniteSet(Heap(n, S) \cap Heap(n, T))
    BY <1>2, FS_Intersection
  <1>5. Cardinality(Heap(n, S)) \in Nat /\ Cardinality(Heap(n, T)) \in Nat
        /\ Cardinality(Heap(n, S) \cap Heap(n, T)) \in Nat
    BY <1>2, <1>4, FS_CardinalityType
  <1>6. QED BY <1>3, <1>5 DEF SumOf

\* A sum of equal terms.
LEMMA SumEqual ==
  ASSUME NEW S, IsFiniteSet(S), NEW c \in Nat, NEW n, \A x \in S : n[x] = c
  PROVE  SumOf(n, S) = Cardinality(S) * c
  <1> DEFINE M == 1..c
  <1>1. IsFiniteSet(M) /\ Cardinality(M) = c
    BY IntervalSize
  <1>2. Heap(n, S) = S \X M
    BY DEF Heap
  <1> HIDE DEF M
  <1>3. QED BY <1>1, <1>2, FS_Product DEF SumOf

---------------------------------------------------------------------------
(* Drafts that fill in themselves *)

\* What each of some plans with c credits gets of a draft that fills in the days of D.
DaysBefore(D, d) == Cardinality({e \in D : e < d})
Even(D, c) ==
  [d \in Days |-> [lunch |-> IF d \in D /\ 2 * DaysBefore(D, d) < c THEN 1 ELSE 0,
                   dinner |-> IF d \in D /\ 2 * DaysBefore(D, d) + 1 < c THEN 1 ELSE 0]]

LEMMA DaysBeforeFacts ==
  ASSUME CalendarNumbers, NEW D, D \subseteq Days
  PROVE  /\ \A d \in Days : DaysBefore(D, d) \in Nat
         /\ \A d, e \in D : d < e => DaysBefore(D, d) < DaysBefore(D, e)
  <1> DEFINE below(d) == {e \in D : e < d}
  <1>1. IsFiniteSet(D) /\ D \subseteq Nat
    BY Numbers, FS_Subset
  <1>2. \A d \in Days : below(d) \subseteq D
    OBVIOUS
  <1>3. \A d, e \in D : d < e => d \in below(e) /\ below(d) \subseteq below(e) \ {d}
    <2> SUFFICES ASSUME NEW d \in D, NEW e \in D, d < e
                 PROVE  d \in below(e) /\ \A o \in below(d) : o \in below(e) /\ o # d
      OBVIOUS
    <2>1. \A o \in D : o < d => o < e /\ o # d
      BY <1>1
    <2>2. QED BY <2>1
  <1> HIDE DEF below
  <1>4. \A d \in Days : IsFiniteSet(below(d)) /\ Cardinality(below(d)) \in Nat
    BY <1>1, <1>2, FS_Subset, FS_CardinalityType
  <1>5. \A d, e \in D : d < e => Cardinality(below(d)) < Cardinality(below(e))
    BY <1>3, <1>4, Smaller
  <1>6. \A d : DaysBefore(D, d) = Cardinality(below(d))
    BY DEF DaysBefore, below
  <1>7. QED BY <1>4, <1>5, <1>6

\* N plans of c credits: the pool is empty after c/2 days, and ends with a lunch if c is odd.
LEMMA EvenPool ==
  ASSUME NEW N \in Nat \ {0}, NEW c \in Nat, NEW r \in Nat
  PROVE  /\ r * 2 * N \in Nat /\ N * c \in Nat
         /\ 2 * r < c => r * 2 * N < N * c /\ N * c - r * 2 * N >= N
         /\ ~(2 * r < c) => ~(r * 2 * N < N * c)
         /\ 2 * r + 1 < c => N * c - r * 2 * N - N >= N
         /\ ~(2 * r + 1 < c) /\ 2 * r < c => N * c - r * 2 * N = N
  <1> DEFINE e == c - 2 * r
  <1>1. e \in Int /\ N * c - r * 2 * N = N * e
    OBVIOUS
  <1>2. N * c \in Nat /\ r * 2 * N \in Nat /\ N * e \in Int
    OBVIOUS
  <1>3. e >= 1 => N * e >= N
    OBVIOUS
  <1>4. e <= 0 => N * e <= 0
    OBVIOUS
  <1>5. e >= 2 => N * e - N >= N
    OBVIOUS
  <1>6. e = 1 => N * e = N
    OBVIOUS
  <1>7. (2 * r < c <=> e >= 1) /\ (2 * r + 1 < c <=> e >= 2)
    OBVIOUS
  <1> HIDE DEF e
  <1>8. QED BY <1>1, <1>2, <1>3, <1>4, <1>5, <1>6, <1>7

LEMMA EvenFill ==
  ASSUME CalendarNumbers, NEW D, D \subseteq Days, NEW N \in Nat \ {0}, NEW c \in Nat
  PROVE  /\ Even(D, c) \in [Days -> Counts]
         /\ \A d \in Days : LET m == BuildAutoFill(D, N * c, N)[d] IN
              /\ m.lunch = N * Even(D, c)[d].lunch /\ m.dinner = N * Even(D, c)[d].dinner
              /\ Even(D, c)[d].lunch \in 0..1 /\ Even(D, c)[d].dinner \in 0..1
              /\ Even(D, c)[d] # None => d \in D
  <1>1. Even(D, c) \in [Days -> Counts]
    BY DEF Even, Counts
  <1>2. SUFFICES ASSUME NEW d \in Days
                 PROVE  LET m == BuildAutoFill(D, N * c, N)[d] IN
                        /\ m.lunch = N * Even(D, c)[d].lunch /\ m.dinner = N * Even(D, c)[d].dinner
                        /\ Even(D, c)[d].lunch \in 0..1 /\ Even(D, c)[d].dinner \in 0..1
                        /\ Even(D, c)[d] # None => d \in D
    BY <1>1
  <1> DEFINE r == DaysBefore(D, d)
             left == IF r * 2 * N < N * c THEN N * c - r * 2 * N ELSE 0
  <1>3. r \in Nat
    BY DaysBeforeFacts
  <1>4. Even(D, c)[d] = [lunch |-> IF d \in D /\ 2 * r < c THEN 1 ELSE 0,
                         dinner |-> IF d \in D /\ 2 * r + 1 < c THEN 1 ELSE 0]
    BY DEF Even
  <1>5. BuildAutoFill(D, N * c, N)[d] =
          IF d \notin D THEN None
          ELSE [lunch |-> Least(N, left), dinner |-> Least(N, left - Least(N, left))]
    BY DEF BuildAutoFill, DaysBefore
  <1> HIDE DEF r
  <1>6. Least(N, left) = (IF 2 * r < c THEN N ELSE 0)
        /\ Least(N, left - Least(N, left)) = (IF 2 * r + 1 < c THEN N ELSE 0)
    <2> DEFINE a == r * 2 * N
               b == N * c
    <2>1. /\ a \in Nat /\ b \in Nat
          /\ 2 * r < c => a < b /\ b - a >= N
          /\ ~(2 * r < c) => ~(a < b)
          /\ 2 * r + 1 < c => b - a - N >= N
          /\ ~(2 * r + 1 < c) /\ 2 * r < c => b - a = N
      BY <1>3, EvenPool
    <2>2. left = IF a < b THEN b - a ELSE 0
      OBVIOUS
    <2> HIDE DEF a, b, left
    <2>3. QED BY <1>3, <2>1, <2>2 DEF Least
  <1> HIDE DEF left
  <1>7. N * 1 = N /\ N * 0 = 0
    OBVIOUS
  <1>8. CASE d \notin D
    BY <1>4, <1>5, <1>7, <1>8 DEF None
  <1>9. CASE d \in D
    BY <1>4, <1>5, <1>6, <1>7, <1>9
  <1>10. QED BY <1>8, <1>9

\* What a plan gets is not more than it has.
LEMMA EvenTotal ==
  ASSUME CalendarNumbers, NEW D, D \subseteq Days, NEW c \in Nat
  PROVE  Total(Even(D, c), Days) <= c
  <1> DEFINE n == [d \in Days |-> PacksIn(Even(D, c)[d])]
             h == [y \in Heap(n, Days) |-> 2 * DaysBefore(D, y[1]) + y[2]]
  <1>1. \A d \in Days : /\ DaysBefore(D, d) \in Nat /\ n[d] \in Nat
                        /\ n[d] > 0 => d \in D
                        /\ n[d] >= 1 => 2 * DaysBefore(D, d) < c
                        /\ n[d] >= 2 => 2 * DaysBefore(D, d) + 1 < c
                        /\ n[d] <= 2
    <2> TAKE d \in Days
    <2>1. DaysBefore(D, d) \in Nat
      BY DaysBeforeFacts
    <2>2. n[d] = (IF d \in D /\ 2 * DaysBefore(D, d) < c THEN 1 ELSE 0)
                 + (IF d \in D /\ 2 * DaysBefore(D, d) + 1 < c THEN 1 ELSE 0)
      BY DEF Even, PacksIn
    <2> HIDE DEF n
    <2>3. QED BY <2>1, <2>2
  <1> HIDE DEF n
  <1>2. \A d, e \in D : d < e => DaysBefore(D, d) < DaysBefore(D, e)
    BY DaysBeforeFacts
  <1>3. ASSUME NEW y \in Heap(n, Days)
        PROVE  \E d \in D : \E i \in 1..2 : y = <<d, i>> /\ h[y] = 2 * DaysBefore(D, d) + i /\ h[y] \in 1..c
    <2>1. PICK d \in Days : \E i \in 1..n[d] : y = <<d, i>>
      BY HeapPair
    <2>2. PICK i \in 1..n[d] : y = <<d, i>>
      BY <2>1
    <2>3. h[y] = 2 * DaysBefore(D, d) + i
      BY <2>2
    <2>4. d \in D /\ i \in 1..2 /\ 2 * DaysBefore(D, d) + i \in 1..c
      BY <1>1
    <2>5. QED BY <2>2, <2>3, <2>4
  <1>4. ASSUME NEW y \in Heap(n, Days), NEW z \in Heap(n, Days), h[y] = h[z] PROVE y = z
    <2>1. PICK d \in D : \E i \in 1..2 : y = <<d, i>> /\ h[y] = 2 * DaysBefore(D, d) + i /\ h[y] \in 1..c
      BY <1>3
    <2>2. PICK i \in 1..2 : y = <<d, i>> /\ h[y] = 2 * DaysBefore(D, d) + i
      BY <2>1
    <2>3. PICK e \in D : \E j \in 1..2 : z = <<e, j>> /\ h[z] = 2 * DaysBefore(D, e) + j /\ h[z] \in 1..c
      BY <1>3
    <2>4. PICK j \in 1..2 : z = <<e, j>> /\ h[z] = 2 * DaysBefore(D, e) + j
      BY <2>3
    <2>5. DaysBefore(D, d) \in Nat /\ DaysBefore(D, e) \in Nat /\ d \in Nat /\ e \in Nat
      BY <1>1, Numbers
    <2>6. DaysBefore(D, d) = DaysBefore(D, e) /\ i = j
      BY <1>4, <2>2, <2>4, <2>5
    <2>7. ~(d < e) /\ ~(e < d)
      BY <1>2, <2>5, <2>6
    <2>8. d = e
      BY <2>5, <2>7
    <2>9. QED BY <2>2, <2>4, <2>6, <2>8
  <1>5. h \in [Heap(n, Days) -> 1..c]
    <2>1. \A y \in Heap(n, Days) : h[y] \in 1..c
      BY <1>3
    <2>2. h = [y \in Heap(n, Days) |-> h[y]]
      OBVIOUS
    <2> HIDE DEF h
    <2>3. QED BY <2>1, <2>2
  <1> HIDE DEF h
  <1>6. h \in Injection(Heap(n, Days), 1..c)
    BY <1>4, <1>5 DEF Injection, IsInjective
  <1> DEFINE M == 1..c
  <1>7. IsFiniteSet(M) /\ Cardinality(M) = c /\ h \in Injection(Heap(n, Days), M)
    BY <1>6, IntervalSize
  <1> HIDE DEF M
  <1>8. Cardinality(Heap(n, Days)) <= c
    BY <1>7, FS_Injection
  <1>9. Total(Even(D, c), Days) = SumOf(n, Days)
    BY DEF Total, n
  <1>10. QED BY <1>8, <1>9 DEF SumOf

---------------------------------------------------------------------------
(* What is offered is accepted *)

\* A day of the window that the rules do not close, or that they closed too late.
Fits(d) == d \in tab.from..(tab.from + DurationDays - 1) /\ (IsDateClosed(d) => d \in tab.rules.early)

\* A draft for one plan: new pickups are on such days, and locked ones are as they are.
Offered(w, rows) ==
  \A d \in Days :
    /\ w[d] # None => rows[d].status # "none" \/ Fits(d)
    /\ rows[d].status = "SCHEDULED" /\ Locked(d) => w[d] = rows[d].meals

\* A draft that was filled in, of which the rows that there are are shares.
FilledIn ==
  LET P == ToSet(tab.plans)
      N == Len(tab.plans) IN
  /\ \A d \in Days : tab.draft[d] # None => Fits(d)
  /\ \E D \in SUBSET Days : tab.draft = BuildAutoFill(D, Pool(P), N)
  /\ \A k \in 1..N, d \in Days :
       pickups[tab.plans[k]][d].status = "SCHEDULED" =>
         pickups[tab.plans[k]][d].meals = Dealt(tab.draft, k, N)[d]

\* What the calendar knows of the rules is what they are.
Ruled ==
  IF tab.rules.known THEN \A d \in Days : IsDateClosed(d) => d \in tab.rules.shut
  ELSE tab.rules.early = Days

\* A calendar that shows what is on the server.
Fresh ==
  tab.doing \in {"open", "saving", "refused"} /\ ~tab.stale =>
    /\ tab.from = Earliest /\ Ruled
    /\ tab.doing = "saving" => FilledDays(tab.draft) # {}
    /\ ~tab.filled /\ Len(tab.plans) = 1 => Offered(tab.draft, pickups[tab.plans[1]])
    /\ tab.filled => FilledIn

\* One plan gets the whole draft.
LEMMA DealtToOne ==
  ASSUME CalendarNumbers, NEW w \in [Days -> Counts]
  PROVE  Dealt(w, 1, 1) = w
  <1>1. ASSUME NEW b \in Nat, NEW c \in Nat PROVE Cardinality(Turns(b, c, 1, 1)) = c
    <2> DEFINE W == b..(b + c - 1)
    <2>1. Cardinality(W) = c /\ W \subseteq Nat
      <3>1. Cardinality(W) = c
        BY IntervalSize
      <3>2. W \subseteq Nat
        OBVIOUS
      <3>3. QED BY <3>1, <3>2
    <2>2. Turns(b, c, 1, 1) = {k \in W : k % 1 = 1 - 1}
      BY DEF Turns
    <2> HIDE DEF W
    <2>3. ASSUME NEW k \in W PROVE k % 1 = 1 - 1
      <3>1. 1 \in Nat \ {0} /\ k \in Nat
        BY <2>1
      <3>2. k % 1 \in 0..(1 - 1)
        BY <3>1, Remainders, Zenon
      <3>3. QED BY <3>2
    <2>4. Turns(b, c, 1, 1) = W
      BY <2>2, <2>3
    <2>5. QED BY <2>1, <2>4
  <1>2. ASSUME NEW d \in Days PROVE Dealt(w, 1, 1)[d] = w[d]
    <2>1. /\ Dealt(w, 1, 1)[d] \in Counts /\ w[d] \in Counts
          /\ Dealt(w, 1, 1)[d].lunch = Cardinality(Turns(Before(w, d, "lunch"), w[d].lunch, 1, 1))
          /\ Dealt(w, 1, 1)[d].dinner = Cardinality(Turns(Before(w, d, "dinner"), w[d].dinner, 1, 1))
      BY DealtFacts
    <2>2. w[d].lunch \in Nat /\ w[d].dinner \in Nat
      BY <2>1 DEF Counts
    <2>3. Before(w, d, "lunch") \in Nat /\ Before(w, d, "dinner") \in Nat
      BY BeforeFacts
    <2>4. Dealt(w, 1, 1)[d].lunch = w[d].lunch /\ Dealt(w, 1, 1)[d].dinner = w[d].dinner
      BY <1>1, <2>1, <2>2, <2>3
    <2>5. QED BY <2>1, <2>4 DEF Counts
  <1>3. Dealt(w, 1, 1) \in [Days -> Counts]
    BY DealtFacts
  <1>4. QED BY <1>2, <1>3

\* Equal plans get the same share of a draft that was filled in.
LEMMA EvenShares ==
  ASSUME CalendarNumbers, NEW D, D \subseteq Days, NEW N \in Nat \ {0}, NEW c \in Nat,
         NEW w \in [Days -> Counts], w = BuildAutoFill(D, N * c, N), NEW k \in 1..N
  PROVE  Dealt(w, k, N) = Even(D, c)
  <1>1. ASSUME NEW b \in Nat, NEW e \in 0..1 PROVE Cardinality(Turns(b, N * e, N, k)) = e
    <2>1. CASE e = 0
      <3>1. Cardinality(Turns(b, 0, N, k)) <= 0 /\ Cardinality(Turns(b, 0, N, k)) \in Nat
        BY TurnsFacts
      <3>2. N * 0 = 0
        OBVIOUS
      <3>3. QED BY <2>1, <3>1, <3>2
    <2>2. CASE e = 1
      <3>1. k - 1 \in 0..(N - 1)
        OBVIOUS
      <3>2. Cardinality({x \in b..(b + N - 1) : x % N = k - 1}) = 1
        BY <3>1, OneInTurn
      <3>3. N * 1 = N
        OBVIOUS
      <3>4. QED BY <2>2, <3>2, <3>3 DEF Turns
    <2>3. QED BY <2>1, <2>2
  <1>2. /\ Even(D, c) \in [Days -> Counts]
        /\ \A d \in Days : /\ w[d].lunch = N * Even(D, c)[d].lunch /\ w[d].dinner = N * Even(D, c)[d].dinner
                           /\ Even(D, c)[d].lunch \in 0..1 /\ Even(D, c)[d].dinner \in 0..1
    BY EvenFill
  <1>3. ASSUME NEW d \in Days PROVE Dealt(w, k, N)[d] = Even(D, c)[d]
    <2>1. /\ Dealt(w, k, N)[d] \in Counts /\ Even(D, c)[d] \in Counts
          /\ Dealt(w, k, N)[d].lunch = Cardinality(Turns(Before(w, d, "lunch"), w[d].lunch, N, k))
          /\ Dealt(w, k, N)[d].dinner = Cardinality(Turns(Before(w, d, "dinner"), w[d].dinner, N, k))
      BY <1>2, DealtFacts
    <2>2. Before(w, d, "lunch") \in Nat /\ Before(w, d, "dinner") \in Nat
      BY BeforeFacts
    <2>3. Dealt(w, k, N)[d].lunch = Even(D, c)[d].lunch /\ Dealt(w, k, N)[d].dinner = Even(D, c)[d].dinner
      BY <1>1, <1>2, <2>1, <2>2
    <2>4. QED BY <2>1, <2>3 DEF Counts
  <1>4. Dealt(w, k, N) \in [Days -> Counts]
    BY DealtFacts
  <1>5. QED BY <1>2, <1>3, <1>4

\* The draft w is the share for N plans of c credits, N times.
IsEven(D, N, c, w) ==
  /\ Even(D, c) \in [Days -> Counts] /\ Total(Even(D, c), Days) <= c
  /\ \A d \in Days : /\ PacksIn(w[d]) = N * PacksIn(Even(D, c)[d])
                     /\ Even(D, c)[d] # None => d \in D
  /\ FilledDays(w) # {} => FilledDays(Even(D, c)) # {}

LEMMA EvenPacks ==
  ASSUME CalendarNumbers, NEW D, D \subseteq Days, NEW N \in Nat \ {0}, NEW c \in Nat,
         NEW w \in [Days -> Counts], w = BuildAutoFill(D, N * c, N)
  PROVE  IsEven(D, N, c, w)
  <1> DEFINE share == Even(D, c)
  <1>1. /\ share \in [Days -> Counts]
        /\ \A d \in Days : /\ w[d].lunch = N * share[d].lunch /\ w[d].dinner = N * share[d].dinner
                           /\ share[d] # None => d \in D
    BY EvenFill
  <1>2. Total(share, Days) <= c
    BY EvenTotal
  <1> HIDE DEF share
  <1>3. ASSUME NEW d \in Days PROVE PacksIn(w[d]) = N * PacksIn(share[d]) /\ (w[d] # None => share[d] # None)
    <2>1. share[d].lunch \in Nat /\ share[d].dinner \in Nat /\ w[d] \in Counts
      BY <1>1, TotalFacts
    <2>2. N * (share[d].lunch + share[d].dinner) = N * share[d].lunch + N * share[d].dinner /\ N * 0 = 0
      BY <2>1
    <2>3. PacksIn(w[d]) = N * PacksIn(share[d])
      BY <1>1, <2>2 DEF PacksIn
    <2>4. share[d] = None => w[d].lunch = 0 /\ w[d].dinner = 0
      BY <1>1, <2>2 DEF None
    <2>5. QED BY <2>1, <2>3, <2>4 DEF None, Counts
  <1>4. FilledDays(w) # {} => FilledDays(share) # {}
    BY <1>3 DEF FilledDays
  <1>5. QED BY <1>1, <1>2, <1>3, <1>4 DEF share, IsEven

\* A list has as many elements as the set.
LEMMA ListSize ==
  ASSUME NEW S, NEW s, Lists(s, S)
  PROVE  IsFiniteSet(S) /\ Cardinality(S) = Len(s)
  <1> DEFINE N == Len(s)
             M == 1..N
  <1>1. s \in Seq(S) /\ N \in Nat
    BY DEF Lists
  <1>2. s \in [M -> S]
    BY <1>1
  <1>3. IsFiniteSet(M) /\ Cardinality(M) = N
    BY <1>1, IntervalSize
  <1>4. (\A i, j \in M : s[i] = s[j] => i = j) /\ \A x \in S : \E i \in M : s[i] = x
    BY DEF Lists
  <1> HIDE DEF M, N
  <1>5. s \in Bijection(M, S)
    BY <1>2, <1>4 DEF Bijection, Injection, Surjection, IsInjective
  <1>6. s \in Surjection(M, S)
    BY <1>5 DEF Bijection
  <1>7. IsFiniteSet(S) /\ Cardinality(S) = Cardinality(M)
    <2>1. IsFiniteSet(S)
      BY <1>3, <1>6, FS_Surjection
    <2>2. Cardinality(M) = Cardinality(S)
      BY <1>3, <1>5, <2>1, FS_Bijection DEF ExistsBijection
    <2>3. QED BY <2>1, <2>2
  <1>8. QED BY <1>3, <1>7 DEF N

\* What other plans of the same draft take on a day is known: s packs each.
LEMMA RoomForAll ==
  ASSUME CalendarNumbers, World, NEW d \in Days, NEW P, P \subseteq Subscriptions, NEW p \in P, NEW s \in Nat,
         \A q \in P : pickups[q][d].status = "SCHEDULED" => PacksIn(pickups[q][d].meals) = s
  PROVE  PacksAt(d, Subscriptions \ {p}) + s <= PacksAt(d, Subscriptions \ P) + Cardinality(P) * s
  <1> DEFINE n == [q \in 1..Sets |-> PacksIn(pickups[q][d].meals)]
             due(Q) == {q \in Q : pickups[q][d].status = "SCHEDULED"}
             A == Subscriptions \ P
             B == P \ {p}
  <1>1. Subscriptions \subseteq 1..Sets /\ IsFiniteSet(Subscriptions) /\ IsFiniteSet(P)
    BY PlanFacts
  <1>2. \A q \in 1..Sets : n[q] \in Nat
    <2> TAKE q \in 1..Sets
    <2>1. pickups[q][d].meals \in Counts
      BY Numbers DEF World, SoundRows, Rows
    <2>2. QED BY <2>1 DEF Counts, PacksIn
  <1>3. ASSUME NEW Q, Q \subseteq Subscriptions
        PROVE  PacksAt(d, Q) = SumOf(n, due(Q)) /\ IsFiniteSet(due(Q)) /\ due(Q) \subseteq 1..Sets
    <2>1. due(Q) \subseteq Subscriptions
      BY <1>3
    <2>2. IsFiniteSet(due(Q)) /\ due(Q) \subseteq 1..Sets
      BY <1>1, <2>1, FS_Subset
    <2> DEFINE k == [q \in Q |-> PacksIn(pickups[q][d].meals)]
    <2>3. \A q \in due(Q) : k[q] = n[q]
      BY <1>1, <1>3
    <2>4. PacksAt(d, Q) = SumOf(k, due(Q))
      BY DEF PacksAt
    <2> HIDE DEF k, n, due
    <2>5. SumOf(k, due(Q)) = SumOf(n, due(Q))
      BY <2>3, SumSame
    <2>6. QED BY <2>2, <2>4, <2>5
  <1>4. due(Subscriptions \ {p}) = due(A) \cup due(B)
    OBVIOUS
  <1>5. \A q \in due(B) : n[q] = s
    BY <1>1
  <1>6. A \subseteq Subscriptions /\ B \subseteq Subscriptions /\ due(B) \subseteq B
        /\ Subscriptions \ {p} \subseteq Subscriptions
    OBVIOUS
  <1> HIDE DEF n, due
  <1>7. /\ PacksAt(d, A) = SumOf(n, due(A)) /\ PacksAt(d, Subscriptions \ {p}) = SumOf(n, due(Subscriptions \ {p}))
        /\ IsFiniteSet(due(A)) /\ IsFiniteSet(due(B)) /\ due(A) \subseteq 1..Sets /\ due(B) \subseteq 1..Sets
    BY <1>3, <1>6
  <1>8. IsFiniteSet(B) /\ Cardinality(B) = Cardinality(P) - 1 /\ Cardinality(P) \in Nat
    BY <1>1, FS_RemoveElement, FS_CardinalityType
  <1> HIDE DEF A, B
  <1>9. SumOf(n, due(A) \cup due(B)) <= SumOf(n, due(A)) + SumOf(n, due(B))
    <2>1. \A q \in due(A) \cup due(B) : n[q] \in Nat
      BY <1>2, <1>7
    <2>2. QED BY <1>7, <2>1, SumSplit
  <1>10. SumOf(n, due(B)) = Cardinality(due(B)) * s
    BY <1>5, <1>7, SumEqual
  <1>11. Cardinality(due(B)) \in Nat /\ Cardinality(due(B)) <= Cardinality(P) - 1 /\ Cardinality(P) - 1 \in Nat
    BY <1>6, <1>8, FS_Subset, FS_CardinalityType
  <1>12. Cardinality(due(B)) * s <= (Cardinality(P) - 1) * s
    BY <1>11, Times
  <1>13. (Cardinality(P) - 1) * s = Cardinality(P) * s - s /\ Cardinality(P) * s \in Nat
         /\ Cardinality(due(B)) * s \in Nat
    BY <1>8, <1>11
  <1>14. SumOf(n, due(A)) \in Nat /\ SumOf(n, due(A) \cup due(B)) \in Nat
    <2>1. SumOf(n, due(A)) \in Nat
      BY <1>2, <1>7, SumFacts
    <2>2. IsFiniteSet(due(A) \cup due(B))
      BY <1>7, FS_Union
    <2>3. SumOf(n, due(A) \cup due(B)) \in Nat
      BY <1>2, <1>7, <2>2, SumFacts
    <2>4. QED BY <2>1, <2>3
  <1>15. PacksAt(d, Subscriptions \ {p}) = SumOf(n, due(A) \cup due(B))
         /\ PacksAt(d, A) = SumOf(n, due(A))
    BY <1>4, <1>7
  <1>16. QED BY <1>9, <1>10, <1>12, <1>13, <1>14, <1>15 DEF A

LEMMA ScreenFacts ==
  ASSUME CalendarNumbers, World, Screen
  PROVE  \A p \in 1..Sets : credits[p] \in Nat
  <1>1. \A p \in 1..Sets : credits[p] \in 1..MaxMeals
    BY DEF World
  <1>2. QED BY <1>1

\* A draft that nothing excuses is for days that are open.
LEMMA OnOpenDays ==
  ASSUME ~Excused, NEW d \in Days, tab.draft[d] # None, Fits(d)
  PROVE  ~IsDateClosed(d)
  BY DEF Excused, FilledTooEarly, Fits, FilledDays

\* A draft for one plan that is not too much is accepted.
LEMMA OneIsAccepted ==
  ASSUME CalendarNumbers, World, Screen, Fresh, ~tab.stale, tab.doing = "saving", ~tab.filled,
         Len(tab.plans) = 1, ~Excused
  PROVE  Accepted(tab.plans[1], Dealt(tab.draft, 1, 1))
  <1> DEFINE p == tab.plans[1]
             P == ToSet(tab.plans)
             w == tab.draft
  <1>1. Dealt(w, 1, 1) = w /\ w \in [Days -> Counts]
    BY DraftFacts, DealtToOne
  <1>2. P = {p} /\ p \in 1..Sets
    <2>1. tab.plans \in Seq(P) /\ tab.plans \in Seq(1..Sets)
      BY DEF Screen, Lists, Tabs
    <2>2. P = {p}
      BY <2>1 DEF ToSet
    <2>3. p \in 1..Sets
      <3>1. 1 \in 1..Len(tab.plans)
        OBVIOUS
      <3>2. QED BY <2>1, <3>1, SeqElements
    <2>4. QED BY <2>2, <2>3
  <1>3. Total(w, Days) <= credits[p]
    <2>1. Total(w, Days) <= Pool(P) \/ Total(w, Days) > Pool(P)
      BY DraftFacts
    <2>2. Total(w, Days) <= Pool(P)
      BY <2>1 DEF Excused, DealtUnevenly
    <2>3. Pool({p}) = credits[p]
      <3>1. credits[p] \in Nat
        BY <1>2, ScreenFacts
      <3>2. IsFiniteSet({p}) /\ Cardinality({p}) = 1
        BY FS_Singleton
      <3>3. SumOf(credits, {p}) = 1 * credits[p]
        BY <3>1, <3>2, SumEqual
      <3>4. QED BY <3>1, <3>3 DEF Pool
    <2>4. QED BY <1>2, <2>2, <2>3
  <1>4. /\ tab.from = Earliest /\ FilledDays(w) # {} /\ Offered(w, pickups[p])
    BY DEF Fresh
  <1>5. ASSUME NEW d \in FilledDays(w)
        PROVE  /\ pickups[p][d].status = "none" => d \in Earliest..WindowEnd /\ ~IsDateClosed(d)
               /\ PacksAt(d, Subscriptions \ {p}) + others[d] + PacksIn(w[d]) <= DailyPacks
    <2>1. d \in Days /\ w[d] # None /\ d \in Int
      BY Numbers DEF FilledDays
    <2>2. pickups[p][d].status = "none" => d \in Earliest..WindowEnd /\ ~IsDateClosed(d)
      <3>1. pickups[p][d].status = "none" => Fits(d)
        BY <1>4, <2>1 DEF Offered
      <3>2. Fits(d) => ~IsDateClosed(d)
        BY OnOpenDays, <2>1 DEF FilledDays
      <3>3. QED BY <1>4, <2>1, <3>1, <3>2 DEF Fits, WindowEnd
    <2> DEFINE x == PacksAt(d, Subscriptions \ {p}) + others[d] + PacksIn(w[d])
    <2>3. x \in Int
      <3>1. PacksAt(d, Subscriptions \ {p}) \in Nat
        <4>1. Subscriptions \ {p} \subseteq 1..Sets
          BY PlanFacts
        <4>2. QED BY <2>1, <4>1, PacksOnFacts
      <3>2. others[d] \in Int
        BY <2>1, Numbers DEF World
      <3>3. PacksIn(w[d]) \in Nat
        BY <1>1, <2>1, TotalFacts
      <3>4. QED BY <3>1, <3>2, <3>3
    <2>4. ~(x > DailyPacks)
      BY <1>2, <2>1 DEF Excused, NoRoom
    <2> HIDE DEF x
    <2>5. x <= DailyPacks
      BY <2>3, <2>4, Numbers
    <2>6. QED BY <2>2, <2>5 DEF x
  <1>6. LockedKept(p, w)
    BY <1>4 DEF Offered, LockedKept
  <1>7. QED BY <1>1, <1>3, <1>4, <1>5, <1>6 DEF Accepted

\* A draft that was filled in is accepted for each of some equal plans.
LEMMA FilledIsAccepted ==
  ASSUME CalendarNumbers, World, Screen, Fresh, ~tab.stale, tab.doing = "saving", tab.filled,
         \A p, q \in ToSet(tab.plans) : credits[p] = credits[q], ~Excused, NEW k \in 1..Len(tab.plans)
  PROVE  Accepted(tab.plans[k], Dealt(tab.draft, k, Len(tab.plans)))
  <1> DEFINE p == tab.plans[k]
             P == ToSet(tab.plans)
             N == Len(tab.plans)
             c == credits[p]
             w == tab.draft
  <1>1. /\ P \subseteq Subscriptions /\ P \subseteq 1..Sets /\ IsFiniteSet(P)
        /\ Lists(tab.plans, P) /\ N = Cardinality(P) /\ N \in Nat /\ N > 0
        /\ \A i \in 1..N : tab.plans[i] \in P
    <2>1. P \subseteq Subscriptions /\ Lists(tab.plans, P) /\ N > 0
      BY DEF Screen
    <2>2. N = Cardinality(P)
      BY <2>1, ListSize
    <2>3. N \in Nat /\ tab.plans \in Seq(P)
      BY <2>1 DEF Lists
    <2>4. \A i \in 1..N : tab.plans[i] \in P
      BY <2>3, SeqElements
    <2>5. P \subseteq 1..Sets /\ IsFiniteSet(P)
      BY <2>1, PlanFacts
    <2>6. QED BY <2>5, <2>4, <2>3, <2>2, <2>1
  <1>2. p \in P /\ N \in Nat \ {0} /\ p \in 1..Sets
    BY <1>1
  <1>3. c \in Nat /\ Pool(P) = N * c
    <2>1. c \in Nat
      BY <1>2, ScreenFacts
    <2>2. \A q \in P : credits[q] = c
      BY <1>2
    <2> HIDE DEF c, P, N
    <2>3. SumOf(credits, P) = Cardinality(P) * c
      BY <1>1, <2>1, <2>2, SumEqual
    <2>4. QED BY <1>1, <2>1, <2>3 DEF Pool
  <1>4. tab.from = Earliest /\ FilledDays(w) # {} /\ FilledIn
    BY DEF Fresh
  <1>5. PICK D \in SUBSET Days : w = BuildAutoFill(D, N * c, N)
    BY <1>3, <1>4 DEF FilledIn
  <1> DEFINE share == Even(D, c)
  <1>6. w \in [Days -> Counts]
    BY DraftFacts
  <1> HIDE DEF N, c, w
  <1>7. \A i \in 1..N : Dealt(w, i, N) = share
    BY <1>2, <1>3, <1>5, <1>6, EvenShares
  <1>8. /\ share \in [Days -> Counts] /\ Total(share, Days) <= c
        /\ \A d \in Days : PacksIn(w[d]) = N * PacksIn(share[d]) /\ (share[d] # None => d \in D)
        /\ FilledDays(share) # {}
    <2>1. D \subseteq Days /\ w = BuildAutoFill(D, N * c, N) /\ FilledDays(w) # {}
      BY <1>4, <1>5 DEF w
    <2> HIDE DEF p, P, share
    <2>2. IsEven(D, N, c, w)
      BY <1>2, <1>3, <1>6, <2>1, EvenPacks
    <2>3. QED BY <2>1, <2>2 DEF share, IsEven
  <1> HIDE DEF share
  <1>9. \A i \in 1..N, d \in Days :
           pickups[tab.plans[i]][d].status = "SCHEDULED" => pickups[tab.plans[i]][d].meals = share[d]
    BY <1>4, <1>7 DEF FilledIn, N, w
  <1>10. ASSUME NEW d \in FilledDays(share)
         PROVE  /\ pickups[p][d].status = "none" => d \in Earliest..WindowEnd /\ ~IsDateClosed(d)
                /\ PacksAt(d, Subscriptions \ {p}) + others[d] + PacksIn(share[d]) <= DailyPacks
    <2>1. d \in Days /\ share[d] # None /\ d \in Int /\ d \in D
      BY <1>8, Numbers DEF FilledDays
    <2>2. d \in Earliest..WindowEnd /\ ~IsDateClosed(d)
      <3>1. w[d] # None
        <4>1. PacksIn(w[d]) = N * PacksIn(share[d]) /\ share[d] \in Counts /\ share[d] # None
          BY <1>8, <2>1
        <4>2. PacksIn(share[d]) \in Nat \ {0}
          BY <4>1 DEF Counts, None, PacksIn
        <4>3. N * PacksIn(share[d]) # 0
          <5> DEFINE s == PacksIn(share[d])
          <5>1. s \in Nat \ {0} /\ N \in Nat \ {0}
            BY <1>2, <4>2
          <5> HIDE DEF s
          <5>2. N * s # 0
            BY <5>1
          <5>3. QED BY <5>2 DEF s
        <4>4. PacksIn(None) = 0
          BY DEF PacksIn, None
        <4>5. QED BY <4>1, <4>3, <4>4
      <3>2. Fits(d)
        BY <1>4, <2>1, <3>1 DEF FilledIn, w
      <3>3. ~IsDateClosed(d)
        BY <2>1, <3>1, <3>2, OnOpenDays DEF w
      <3>4. QED BY <1>4, <3>2, <3>3 DEF Fits, WindowEnd
    <2> DEFINE s == PacksIn(share[d])
               x == PacksAt(d, Subscriptions \ {p})
               y == PacksAt(d, Subscriptions \ P)
    <2>3. x \in Nat /\ y \in Nat
      <3>1. Subscriptions \ {p} \subseteq 1..Sets /\ Subscriptions \ P \subseteq 1..Sets
        BY PlanFacts
      <3>2. QED BY <2>1, <3>1, PacksOnFacts
    <2>4. others[d] \in Int
      BY <2>1, Numbers DEF World
    <2>5. s \in Nat /\ PacksIn(w[d]) = N * s /\ N * s \in Nat
      <3>1. s \in Nat
        BY <1>8, <2>1, TotalFacts
      <3>2. PacksIn(w[d]) = N * s
        BY <1>8, <2>1
      <3> HIDE DEF s
      <3>3. N * s \in Nat
        BY <1>2, <3>1
      <3>4. QED BY <3>1, <3>2, <3>3
    <2>6. \A q \in P : pickups[q][d].status = "SCHEDULED" => PacksIn(pickups[q][d].meals) = s
      <3> SUFFICES ASSUME NEW q \in P, pickups[q][d].status = "SCHEDULED"
                   PROVE  pickups[q][d].meals = share[d]
        OBVIOUS
      <3>1. PICK i \in 1..N : tab.plans[i] = q
        BY <1>1 DEF Lists, N
      <3>2. QED BY <1>9, <2>1, <3>1
    <2>7. x + s <= y + N * s
      <3> HIDE DEF s, P, p
      <3>1. x + s <= y + Cardinality(P) * s
        BY <1>1, <1>2, <2>1, <2>5, <2>6, RoomForAll
      <3>2. QED BY <1>1, <3>1 DEF N
    <2>8. ~(y + others[d] + N * s > DailyPacks)
      BY <2>1, <2>5 DEF Excused, NoRoom, w
    <2> HIDE DEF x, y, s
    <2>9. DailyPacks \in Nat
      BY Numbers
    <2>10. x + others[d] + s <= DailyPacks
      BY <2>3, <2>4, <2>5, <2>7, <2>8, <2>9
    <2>11. QED BY <2>2, <2>10 DEF x, s
  <1>11. LockedKept(p, share)
    BY <1>9, <1>2 DEF LockedKept, N
  <1>12. Accepted(p, share)
    BY <1>8, <1>10, <1>11 DEF Accepted, c
  <1>13. QED BY <1>7, <1>12 DEF N, w

\* The step of the property.
LEMMA RefusedIsExcused ==
  ASSUME CalendarNumbers, World, Screen, Fresh, PersistSchedule, tab'.doing = "refused"
  PROVE  Excused
  <1> DEFINE N == Len(tab.plans)
             P == ToSet(tab.plans)
  <1> SUFFICES ASSUME ~Excused PROVE FALSE
    OBVIOUS
  <1>1. /\ tab.doing = "saving" /\ N \in Nat \ {0} /\ tab.next \in 1..N
        /\ ~Accepted(tab.plans[tab.next], Dealt(tab.draft, tab.next, N))
    BY PersistFacts
  <1>2. ~tab.stale /\ ~(Cardinality(P) > 1 /\ ~(tab.filled /\ \A p, q \in P : credits[p] = credits[q]))
    BY DEF Excused, DealtUnevenly
  <1>3. Lists(tab.plans, P) /\ Cardinality(P) = N
    BY ListSize DEF Screen
  <1>4. N # 1 => tab.filled /\ \A p, q \in P : credits[p] = credits[q]
    <2> HIDE DEF N, P
    <2>1. N # 1 => Cardinality(P) > 1
      BY <1>1, <1>3
    <2>2. QED BY <1>2, <2>1
  <1>5. CASE N = 1 /\ ~tab.filled
    <2>1. tab.next = 1
      BY <1>1, <1>5
    <2>2. QED BY <1>1, <1>2, <1>5, <2>1, OneIsAccepted
  <1>6. CASE tab.filled
    <2>1. \A p, q \in P : credits[p] = credits[q]
      <3>1. CASE N = 1
        <4>1. tab.plans \in Seq(P)
          BY <1>3 DEF Lists
        <4>2. P = {tab.plans[1]}
          BY <3>1, <4>1 DEF ToSet
        <4>3. QED BY <4>2
      <3>2. CASE N # 1
        BY <1>4, <3>2
      <3>3. QED BY <3>1, <3>2
    <2>2. QED BY <1>1, <1>2, <1>6, <2>1, FilledIsAccepted
  <1>7. QED BY <1>4, <1>5, <1>6

\* The draft of one plan is what its rows have.
LEMMA MergeOne ==
  ASSUME CalendarNumbers, World, NEW p \in 1..Sets, NEW d \in Days
  PROVE  MergeDeliveries({p})[d] = IF pickups[p][d].status # "SKIPPED" THEN pickups[p][d].meals ELSE None
  <1> DEFINE S == {q \in {p} : pickups[q][d].status # "SKIPPED"}
             l == [q \in {p} |-> pickups[q][d].meals["lunch"]]
             r == [q \in {p} |-> pickups[q][d].meals["dinner"]]
             a == pickups[p][d].meals.lunch
             b == pickups[p][d].meals.dinner
  <1>1. MergeDeliveries({p})[d] = [lunch |-> SumOf(l, S), dinner |-> SumOf(r, S)]
    BY DEF MergeDeliveries
  <1>2. pickups[p][d].meals \in Counts /\ a \in Nat /\ b \in Nat /\ pickups[p][d].meals = [lunch |-> a, dinner |-> b]
    <2>1. pickups[p][d].meals \in Counts
      BY Numbers DEF World, SoundRows, Rows
    <2>2. QED BY <2>1 DEF Counts
  <1>3. (\A x \in S : l[x] = a) /\ \A x \in S : r[x] = b
    OBVIOUS
  <1>4. CASE pickups[p][d].status # "SKIPPED"
    <2>1. S = {p}
      BY <1>4
    <2>2. IsFiniteSet(S) /\ Cardinality(S) = 1
      BY <2>1, FS_Singleton
    <2> HIDE DEF S, l, r, a, b
    <2>3. SumOf(l, S) = 1 * a /\ SumOf(r, S) = 1 * b
      BY <1>2, <1>3, <2>2, SumEqual
    <2>4. QED BY <1>1, <1>2, <1>4, <2>3
  <1>5. CASE pickups[p][d].status = "SKIPPED"
    <2>1. S = {}
      BY <1>5
    <2>2. IsFiniteSet(S) /\ Cardinality(S) = 0
      BY <2>1, FS_EmptySet
    <2> HIDE DEF S, l, r, a, b
    <2>3. SumOf(l, S) = 0 * a /\ SumOf(r, S) = 0 * b
      BY <1>2, <1>3, <2>2, SumEqual
    <2>4. QED BY <1>1, <1>2, <1>5, <2>3 DEF None
  <1>6. QED BY <1>4, <1>5

\* Plans whose draft is empty have nothing to come.
LEMMA MergeEmpty ==
  ASSUME CalendarNumbers, World, NEW P, P \subseteq 1..Sets, IsFiniteSet(P), MergeDeliveries(P) = Empty,
         NEW p \in P, NEW d \in Days
  PROVE  pickups[p][d].status # "SCHEDULED"
  <1> SUFFICES ASSUME pickups[p][d].status = "SCHEDULED" PROVE FALSE
    OBVIOUS
  <1> DEFINE S == {q \in P : pickups[q][d].status # "SKIPPED"}
             l == [q \in P |-> pickups[q][d].meals["lunch"]]
             r == [q \in P |-> pickups[q][d].meals["dinner"]]
  <1>1. SumOf(l, S) = 0 /\ SumOf(r, S) = 0
    <2>1. MergeDeliveries(P)[d] = [lunch |-> SumOf(l, S), dinner |-> SumOf(r, S)]
      BY DEF MergeDeliveries
    <2>2. MergeDeliveries(P)[d] = None
      BY DEF Empty
    <2> HIDE DEF S, l, r
    <2>3. QED BY <2>1, <2>2 DEF None
  <1>2. \A q \in P : pickups[q][d].meals \in Counts
    BY Numbers DEF World, SoundRows, Rows
  <1>3. \A q \in S : l[q] \in Nat /\ r[q] \in Nat
    BY <1>2 DEF Counts
  <1>4. p \in S
    OBVIOUS
  <1>5. IsFiniteSet(S)
    BY FS_Subset
  <1>6. l[p] = 0 /\ r[p] = 0
    <2> HIDE DEF S, l, r
    <2>1. l[p] <= SumOf(l, S) /\ r[p] <= SumOf(r, S)
      BY <1>3, <1>4, <1>5, SumFacts
    <2>2. QED BY <1>1, <1>3, <1>4, <2>1
  <1>7. pickups[p][d].meals = None
    BY <1>2, <1>6 DEF Counts, None
  <1>8. QED BY <1>7 DEF World, SoundRows

\* One plan can have its draft, whether it was filled in or not.
LEMMA OneIsOffered ==
  ASSUME CalendarNumbers, World, Screen, Fresh, tab.doing \in {"open", "saving", "refused"}, ~tab.stale,
         Len(tab.plans) = 1
  PROVE  Offered(tab.draft, pickups[tab.plans[1]])
  <1>1. CASE ~tab.filled
    BY <1>1 DEF Fresh
  <1>2. CASE tab.filled
    <2>1. FilledIn
      BY <1>2 DEF Fresh
    <2>2. \A d \in Days : tab.draft[d] # None => Fits(d)
      BY <2>1 DEF FilledIn
    <2>3. Dealt(tab.draft, 1, 1) = tab.draft
      BY DraftFacts, DealtToOne
    <2>4. 1 \in 1..Len(tab.plans)
      OBVIOUS
    <2>5. \A d \in Days : pickups[tab.plans[1]][d].status = "SCHEDULED" =>
                            pickups[tab.plans[1]][d].meals = tab.draft[d]
      BY <2>1, <2>3, <2>4 DEF FilledIn
    <2>6. QED BY <2>2, <2>5 DEF Offered
  <1>3. QED BY <1>1, <1>2

\* Operations that are taken up again close no day.
LEMMA FitsKept ==
  ASSUME CalendarNumbers, tab'.from = tab.from, tab'.rules = tab.rules, NEW d \in Days,
         opsEnd' = opsEnd \/ opsEnd' = NoEnd
  PROVE  (IsDateClosed(d)' => IsDateClosed(d)) /\ (Fits(d) => Fits(d)')
  <1>1. d \in Int /\ d <= NoEnd
    <2>1. MaxDay \in Nat
      BY Numbers
    <2>2. QED BY <2>1 DEF Days, NoEnd
  <1>2. NoEnd \in Int
    BY Numbers
  <1>3. IsDateClosed(d)' => IsDateClosed(d)
    BY <1>1, <1>2 DEF IsDateClosed
  <1>4. QED BY <1>3 DEF Fits

\* A calendar that keeps its draft, while rows are only handed out or saved.
LEMMA FreshKept ==
  ASSUME CalendarNumbers, World, Screen, Fresh, tab.doing \in {"open", "saving", "refused"},
         tab'.plans = tab.plans, tab'.draft = tab.draft, tab'.filled = tab.filled, tab'.stale = tab.stale,
         tab'.from = tab.from, tab'.rules = tab.rules,
         tab'.doing = "saving" => FilledDays(tab.draft) # {},
         UNCHANGED <<credits, today, clock>>, opsEnd' = opsEnd \/ opsEnd' = NoEnd,
         \A k \in 1..Len(tab.plans), d \in Days :
           LET r == pickups[tab.plans[k]][d]
               new == pickups'[tab.plans[k]][d] IN
           /\ Len(tab.plans) = 1 /\ new.status = "none" => r.status = "none"
           /\ new.status = "SCHEDULED" => new = r \/ new.meals = Dealt(tab.draft, k, Len(tab.plans))[d]
  PROVE  Fresh'
  <1> DEFINE N == Len(tab.plans)
             P == ToSet(tab.plans)
  <1> SUFFICES ASSUME ~tab.stale
               PROVE  /\ tab'.from = Earliest' /\ Ruled'
                      /\ ~tab.filled /\ N = 1 => Offered(tab.draft, pickups[tab.plans[1]])'
                      /\ tab.filled => FilledIn'
    BY DEF Fresh, FilledDays
  <1>1. Earliest' = Earliest /\ tab.from = Earliest /\ Ruled
    BY DEF Earliest, Fresh
  <1>2. Ruled'
    <2>1. \A d \in Days : IsDateClosed(d)' => IsDateClosed(d)
      BY FitsKept
    <2>2. QED BY <1>1, <2>1 DEF Ruled
  <1>3. ASSUME ~tab.filled, N = 1 PROVE Offered(tab.draft, pickups[tab.plans[1]])'
    <2>1. Offered(tab.draft, pickups[tab.plans[1]])
      BY <1>3 DEF Fresh
    <2>2. 1 \in 1..N
      BY <1>3
    <2>3. Dealt(tab.draft, 1, 1) = tab.draft
      BY DraftFacts, DealtToOne
    <2>4. \A d \in Days : (Fits(d) => Fits(d)') /\ (Locked(d)' <=> Locked(d))
      BY FitsKept DEF Locked
    <2>5. \A d \in Days :
            LET r == pickups[tab.plans[1]][d]
                new == pickups'[tab.plans[1]][d] IN
            /\ new.status = "none" => r.status = "none"
            /\ new.status = "SCHEDULED" => new = r \/ new.meals = tab.draft[d]
      BY <1>3, <2>2, <2>3
    <2>6. QED BY <2>1, <2>4, <2>5 DEF Offered
  <1>4. ASSUME tab.filled PROVE FilledIn'
    <2>1. FilledIn
      BY <1>4 DEF Fresh
    <2>2. Pool(P)' = Pool(P)
      BY DEF Pool
    <2>3. \A d \in Days : tab'.draft[d] # None => Fits(d)'
      BY <2>1, FitsKept DEF FilledIn
    <2>4. PICK D \in SUBSET Days : tab.draft = BuildAutoFill(D, Pool(P), N)
      BY <2>1 DEF FilledIn
    <2>5. tab'.draft = BuildAutoFill(D, Pool(P)', N')
      BY <2>2, <2>4
    <2>6. \A k \in 1..N, d \in Days :
            pickups'[tab.plans[k]][d].status = "SCHEDULED" =>
              pickups'[tab.plans[k]][d].meals = Dealt(tab.draft, k, N)[d]
      BY <2>1 DEF FilledIn
    <2>7. QED BY <2>3, <2>5, <2>6 DEF FilledIn
  <1>5. QED BY <1>1, <1>2, <1>3, <1>4

LEMMA FreshOpen ==
  ASSUME CalendarNumbers, World, Screen, OpenCalendar
  PROVE  Fresh'
  <1> DEFINE P == Scheduling
             window == Earliest..WindowEnd \cap Days
             merged == MergeDeliveries(P)
             plans == InOrder(P)
  <1>1. /\ tab'.doing = "open" /\ tab'.plans = plans /\ tab'.from = Earliest /\ tab'.rules = DefaultRules
        /\ tab'.draft = IF merged # Empty THEN merged ELSE BuildAutoFill(window, Pool(P), Cardinality(P))
        /\ tab'.filled = (merged = Empty)
        /\ UNCHANGED <<credits, newest, pickups, others, opsEnd, today, clock, saves, events>>
    BY OpenFacts
  <1>2. /\ P \subseteq 1..Sets /\ IsFiniteSet(P) /\ Lists(plans, P) /\ Len(plans) = Cardinality(P)
        /\ ToSet(plans) = P
    BY SchedulingFacts
  <1>3. plans \in Seq(P) /\ \A k \in 1..Len(plans) : plans[k] \in P
    <2>1. plans \in Seq(P)
      BY <1>2 DEF Lists
    <2>2. QED BY <2>1, SeqElements
  <1> HIDE DEF plans, P
  <1> SUFFICES ASSUME ~tab'.stale
               PROVE  /\ tab'.from = Earliest' /\ Ruled'
                      /\ ~tab'.filled /\ Len(tab'.plans) = 1 => Offered(tab.draft, pickups[tab.plans[1]])'
                      /\ tab'.filled => FilledIn'
    BY <1>1 DEF Fresh
  <1>4. tab'.from = Earliest' /\ Ruled'
    BY <1>1, DefaultKept DEF Earliest, Ruled
  <1>5. ASSUME ~tab'.filled, Len(tab'.plans) = 1 PROVE Offered(tab.draft, pickups[tab.plans[1]])'
    <2> DEFINE p == plans[1]
    <2>1. P = {p} /\ p \in 1..Sets
      <3>1. Len(plans) = 1 /\ 1 \in 1..Len(plans)
        BY <1>1, <1>5
      <3>2. P = {p}
        BY <1>2, <1>3, <3>1 DEF ToSet
      <3>3. QED BY <1>2, <3>2
    <2>2. tab'.draft = MergeDeliveries({p})
      BY <1>1, <1>5, <2>1
    <2>3. \A d \in Days :
            tab'.draft[d] = IF pickups[p][d].status # "SKIPPED" THEN pickups[p][d].meals ELSE None
      BY <2>1, <2>2, MergeOne
    <2>4. \A d \in Days : pickups[p][d].status = "none" => pickups[p][d].meals = None
      BY <2>1 DEF World, SoundRows
    <2>5. pickups'[tab'.plans[1]] = pickups[p]
      BY <1>1
    <2> HIDE DEF p
    <2>6. QED BY <2>3, <2>4, <2>5 DEF Offered
  <1>6. ASSUME tab'.filled PROVE FilledIn'
    <2>1. merged = Empty
      BY <1>1, <1>6
    <2>2. window \in SUBSET Days /\ \A d \in window : Fits(d)'
      <3>1. window \subseteq Days /\ tab'.rules.early = Days
        BY <1>1, DefaultKept
      <3>2. \A d \in window : d \in tab'.from..(tab'.from + DurationDays - 1)
        BY <1>1 DEF WindowEnd
      <3> HIDE DEF window
      <3>3. QED BY <3>1, <3>2 DEF Fits
    <2>3. tab'.draft = BuildAutoFill(window, Pool(ToSet(tab.plans))', Len(plans))
      <3>1. Pool(ToSet(tab.plans))' = Pool(P)
        BY <1>1, <1>2 DEF Pool
      <3> HIDE DEF window
      <3>2. QED BY <1>1, <1>2, <2>1, <3>1
    <2>4. \A k \in 1..Len(plans), d \in Days : pickups[plans[k]][d].status # "SCHEDULED"
      BY <1>2, <1>3, <2>1, MergeEmpty
    <2> HIDE DEF window, merged
    <2>5. \A d \in Days : tab'.draft[d] # None => Fits(d)'
      BY <2>2, <2>3 DEF BuildAutoFill
    <2>6. QED BY <1>1, <1>2, <2>2, <2>3, <2>4, <2>5 DEF FilledIn
  <1>7. QED BY <1>4, <1>5, <1>6

LEMMA FreshLoad ==
  ASSUME CalendarNumbers, World, Screen, Fresh, LoadRules \/ LoadCapacity
  PROVE  Fresh'
  <1>1. /\ tab.doing \in {"open", "saving", "refused"} /\ tab'.doing = tab.doing
        /\ tab'.plans = tab.plans /\ tab'.draft = tab.draft /\ tab'.from = tab.from
        /\ tab'.filled = tab.filled /\ tab'.stale = tab.stale
        /\ \/ tab'.rules = tab.rules
           \/ /\ tab'.rules.known /\ tab'.rules.early = {d \in FilledDays(tab.draft) : IsDateClosed(d)}
              /\ tab'.rules.shut = {d \in Days : d < Earliest \/ IsDateClosed(d)}
        /\ UNCHANGED <<credits, newest, pickups, others, opsEnd, today, clock, saves, events>>
    BY LoadFacts
  <1> SUFFICES ASSUME ~tab.stale
               PROVE  /\ tab'.from = Earliest' /\ Ruled'
                      /\ tab'.doing = "saving" => FilledDays(tab'.draft) # {}
                      /\ ~tab'.filled /\ Len(tab'.plans) = 1 => Offered(tab.draft, pickups[tab.plans[1]])'
                      /\ tab'.filled => FilledIn'
    BY <1>1 DEF Fresh, FilledDays
  <1>2. \A d \in Days : (IsDateClosed(d)' <=> IsDateClosed(d)) /\ (Locked(d)' <=> Locked(d))
    BY <1>1 DEF IsDateClosed, Locked
  <1>3. \A d \in Days : tab.draft[d] # None /\ Fits(d) => Fits(d)'
    <2> SUFFICES ASSUME NEW d \in Days, tab.draft[d] # None, Fits(d) PROVE Fits(d)'
      OBVIOUS
    <2>1. d \in tab'.from..(tab'.from + DurationDays - 1)
      BY <1>1 DEF Fits
    <2>2. IsDateClosed(d) => d \in tab'.rules.early
      BY <1>1 DEF Fits, FilledDays
    <2>3. QED BY <1>2, <2>1, <2>2 DEF Fits
  <1>4. tab'.from = Earliest' /\ Ruled'
    BY <1>1, <1>2 DEF Fresh, Ruled, Earliest
  <1>5. ASSUME ~tab'.filled, Len(tab'.plans) = 1 PROVE Offered(tab.draft, pickups[tab.plans[1]])'
    <2>1. Offered(tab.draft, pickups[tab.plans[1]])
      BY <1>1, <1>5 DEF Fresh
    <2>2. QED BY <1>1, <1>2, <1>3, <2>1 DEF Offered
  <1>6. ASSUME tab'.filled PROVE FilledIn'
    <2>1. FilledIn
      BY <1>1, <1>6 DEF Fresh
    <2>2. Pool(ToSet(tab.plans))' = Pool(ToSet(tab.plans))
      BY <1>1 DEF Pool
    <2>3. PICK D \in SUBSET Days : tab.draft = BuildAutoFill(D, Pool(ToSet(tab.plans)), Len(tab.plans))
      BY <2>1 DEF FilledIn
    <2>4. tab'.draft = BuildAutoFill(D, Pool(ToSet(tab.plans))', Len(tab'.plans))
      BY <1>1, <2>2, <2>3
    <2>5. \A d \in Days : tab'.draft[d] # None => Fits(d)'
      BY <1>1, <1>3, <2>1 DEF FilledIn
    <2>6. \A k \in 1..Len(tab'.plans), d \in Days :
            pickups'[tab'.plans[k]][d].status = "SCHEDULED" =>
              pickups'[tab'.plans[k]][d].meals = Dealt(tab'.draft, k, Len(tab'.plans))[d]
      BY <1>1, <2>1 DEF FilledIn
    <2>7. QED BY <2>4, <2>5, <2>6 DEF FilledIn
  <1>7. tab'.doing = "saving" => FilledDays(tab'.draft) # {}
    BY <1>1 DEF Fresh
  <1>8. QED BY <1>4, <1>5, <1>6, <1>7

\* A change of days that are interactive, or that are given up and not locked.
LEMMA FreshSetQty ==
  ASSUME CalendarNumbers, World, Screen, Fresh, NEW new, SetQty(new),
         ~tab.stale =>
           \A d \in Days : new[d] # tab.draft[d] => ~Locked(d) /\ (new[d] = None \/ Fits(d))
  PROVE  Fresh'
  <1>1. /\ tab.doing \in {"open", "refused"} /\ tab'.doing = "open" /\ tab'.plans = tab.plans
        /\ tab'.draft = new /\ tab'.filled = FALSE /\ tab'.stale = tab.stale
        /\ tab'.from = tab.from /\ tab'.rules = tab.rules
        /\ UNCHANGED <<credits, newest, pickups, others, opsEnd, today, clock, saves, events>>
    BY DEF SetQty, Screen, Tabs
  <1> SUFFICES ASSUME ~tab.stale
               PROVE  /\ tab.from = Earliest' /\ Ruled'
                      /\ Len(tab.plans) = 1 => Offered(tab.draft, pickups[tab.plans[1]])'
    BY <1>1 DEF Fresh
  <1>2. tab.from = Earliest' /\ Ruled'
    BY <1>1 DEF Fresh, Earliest, Ruled, IsDateClosed
  <1>3. ASSUME Len(tab.plans) = 1 PROVE Offered(tab.draft, pickups[tab.plans[1]])'
    <2>1. Offered(tab.draft, pickups[tab.plans[1]])
      BY <1>1, <1>3, OneIsOffered
    <2>2. \A d \in Days : (Fits(d)' <=> Fits(d)) /\ (Locked(d)' <=> Locked(d))
      BY <1>1 DEF Fits, Locked, IsDateClosed
    <2>3. QED BY <1>1, <2>1, <2>2 DEF Offered
  <1>4. QED BY <1>2, <1>3

LEMMA FreshTaps ==
  ASSUME CalendarNumbers, World, Screen, Fresh,
         \/ \E m \in {"lunch", "dinner"} :
              \/ \E d \in Days : TapDay(d, m)
              \/ \E from, to \in Days : TapRange(from, to, m)
         \/ ClearAll
  PROVE  Fresh'
  <1>1. ASSUME NEW new, SetQty(new), ~tab.stale
        PROVE  \A d \in Days : IsDayInteractive(d) => ~Locked(d) /\ Fits(d)
    BY <1>1 DEF SetQty, Fresh, Ruled, IsDayInteractive, Fits
  <1>2. ASSUME NEW m \in {"lunch", "dinner"}, NEW d \in Days, TapDay(d, m) PROVE Fresh'
    <2>1. PICK n : SetQty([tab.draft EXCEPT ![d][m] = n])
      BY <1>2 DEF TapDay
    <2> DEFINE new == [tab.draft EXCEPT ![d][m] = n]
    <2>2. tab.draft \in [Days -> Meals]
      BY DraftFacts
    <2>3. \A e \in Days : new[e] # tab.draft[e] => e = d
      BY <2>2
    <2>4. SetQty(new) /\ IsDayInteractive(d)
      BY <1>2, <2>1 DEF TapDay
    <2> HIDE DEF new
    <2>5. ~tab.stale => \A e \in Days : new[e] # tab.draft[e] => ~Locked(e) /\ (new[e] = None \/ Fits(e))
      BY <1>1, <2>3, <2>4
    <2>6. QED BY <2>4, <2>5, FreshSetQty
  <1>3. ASSUME NEW m \in {"lunch", "dinner"}, NEW from \in Days, NEW to \in Days, TapRange(from, to, m)
        PROVE  Fresh'
    <2> DEFINE With(n) == [d \in Days |-> IF d \in Tapped(from, to) THEN [tab.draft[d] EXCEPT ![m] = n[d]]
                                          ELSE tab.draft[d]]
    <2>1. PICK n \in [Tapped(from, to) -> 0..Most] : SetQty(With(n)) /\ With(n) \in [Days -> Meals]
      BY <1>3, TapRangeFacts
    <2>2. \A d \in Days : With(n)[d] # tab.draft[d] => IsDayInteractive(d)
      BY DEF Tapped
    <2> HIDE DEF With
    <2> DEFINE new == With(n)
    <2>3. SetQty(new) /\ \A d \in Days : new[d] # tab.draft[d] => IsDayInteractive(d)
      BY <2>1, <2>2
    <2> HIDE DEF new
    <2>4. ~tab.stale => \A d \in Days : new[d] # tab.draft[d] => ~Locked(d) /\ (new[d] = None \/ Fits(d))
      BY <1>1, <2>3
    <2>5. QED BY <2>3, <2>4, FreshSetQty
  <1>4. ASSUME ClearAll PROVE Fresh'
    <2> DEFINE new == [d \in Days |-> IF d < today \/ Locked(d) THEN tab.draft[d] ELSE None]
    <2>1. SetQty(new)
      BY <1>4 DEF ClearAll
    <2>2. \A d \in Days : new[d] # tab.draft[d] => ~Locked(d) /\ new[d] = None
      OBVIOUS
    <2> HIDE DEF new
    <2>3. QED BY <2>1, <2>2, FreshSetQty
  <1>5. QED BY <1>2, <1>3, <1>4

LEMMA FreshPersist ==
  ASSUME CalendarNumbers, World, Screen, Fresh, PersistSchedule
  PROVE  Fresh'
  <1> DEFINE s == tab.plans
             N == Len(s)
             k == tab.next
             p == s[k]
             w == Dealt(tab.draft, k, N)
  <1>1. /\ tab.doing = "saving" /\ N \in Nat \ {0} /\ k \in 1..N /\ p \in 1..Sets
        /\ tab'.plans = s /\ tab'.draft = tab.draft
        /\ \/ /\ pickups' = Rescheduled(p, w)
              /\ \/ tab'.doing = "saved"
                 \/ /\ k < N /\ tab'.doing = "saving" /\ tab'.from = tab.from /\ tab'.rules = tab.rules
                    /\ tab'.stale = tab.stale /\ tab'.filled = tab.filled
           \/ /\ UNCHANGED pickups /\ tab'.doing = "refused" /\ tab'.from = tab.from /\ tab'.rules = tab.rules
              /\ tab'.stale = tab.stale /\ tab'.filled = tab.filled
        /\ UNCHANGED <<credits, newest, others, opsEnd, today, clock, saves, events>>
    BY PersistFacts
  <1>2. CASE tab'.doing = "saved"
    BY <1>2 DEF Fresh
  <1>3. CASE tab.stale /\ tab'.stale = tab.stale
    BY <1>3 DEF Fresh
  <1>4. CASE ~tab.stale /\ tab'.doing = "refused"
    BY <1>1, <1>4, FreshKept
  <1>5. CASE ~tab.stale /\ tab'.doing = "saving"
    <2>1. /\ pickups' = Rescheduled(p, w) /\ N # 1 /\ tab'.from = tab.from /\ tab'.rules = tab.rules
          /\ tab'.stale = tab.stale /\ tab'.filled = tab.filled
      <3> HIDE DEF p, w, N, k
      <3>1. QED BY <1>1, <1>5
    <2>2. FilledDays(tab.draft) # {}
      BY <1>1, <1>5 DEF Fresh
    <2>3. \A i, j \in 1..N : s[i] = s[j] => i = j
      BY DEF Screen, Lists
    <2>4. \A i \in 1..N : s[i] \in 1..Sets
      BY SeqElements DEF Screen, Tabs
    <2>5. pickups \in [1..Sets -> [Days -> SoundRows]]
      BY DEF World
    <2>6. ASSUME NEW i \in 1..N, NEW d \in Days, pickups'[s[i]][d].status = "SCHEDULED"
          PROVE  pickups'[s[i]][d] = pickups[s[i]][d] \/ pickups'[s[i]][d].meals = Dealt(tab.draft, i, N)[d]
      <3>1. CASE i = k
        <4>1. \/ pickups'[p][d] = pickups[p][d]
              \/ pickups'[p][d] = NoPickup
              \/ pickups'[p][d] = [status |-> "SCHEDULED", meals |-> w[d]]
          <5> HIDE DEF p, w
          <5>1. QED BY <1>1, <2>1, <2>5 DEF Rescheduled
        <4> DEFINE m == w[d]
        <4>2. w[d] = m
          OBVIOUS
        <4> HIDE DEF m
        <4>3. pickups'[p][d] = pickups[p][d] \/ pickups'[p][d].meals = m
          BY <2>6, <3>1, <4>1, <4>2 DEF NoPickup
        <4>4. QED BY <3>1, <4>2, <4>3
      <3>2. CASE i # k
        <4>1. s[i] # p /\ s[i] \in 1..Sets
          BY <1>1, <2>3, <2>4, <3>2
        <4> HIDE DEF p, w
        <4>2. pickups'[s[i]] = pickups[s[i]]
          BY <2>1, <2>5, <4>1 DEF Rescheduled
        <4>3. QED BY <4>2
      <3>3. QED BY <3>1, <3>2
    <2>7. QED BY <1>1, <1>5, <2>1, <2>2, <2>6, FreshKept
  <1>6. QED BY <1>1, <1>2, <1>3, <1>4, <1>5

LEMMA FreshConfirm ==
  ASSUME CalendarNumbers, World, Screen, Fresh, HandleConfirm
  PROVE  Fresh'
  <1>1. /\ tab.doing \in {"open", "refused"} /\ tab'.plans = tab.plans /\ tab'.draft = tab.draft
        /\ tab'.filled = tab.filled /\ tab'.stale = tab.stale /\ tab'.from = tab.from /\ tab'.rules = tab.rules
        /\ tab'.doing = "saving"
    BY DEF HandleConfirm, Screen, Tabs
  <1>2. FilledDays(tab.draft) # {} /\ UNCHANGED <<credits, pickups, opsEnd, today, clock>>
    BY DEF HandleConfirm
  <1>3. QED BY <1>1, <1>2, FreshKept

LEMMA FreshNext ==
  ASSUME CalendarNumbers, World, Screen, Fresh, [CalendarNext]_calendarVars
  PROVE  Fresh'
  <1>1. ASSUME OpenCalendar \/ LoadRules \/ LoadCapacity PROVE Fresh'
    BY <1>1, FreshOpen, FreshLoad
  <1>2. ASSUME CloseCalendar PROVE Fresh'
    <2>1. tab'.doing = "closed"
      BY <1>2, ClosedFacts DEF CloseCalendar
    <2>2. QED BY <2>1 DEF Fresh
  <1>3. ASSUME tab'.doing = "closed" \/ tab'.stale = TRUE PROVE Fresh'
    BY <1>3 DEF Fresh
  <1>4. ASSUME NEW wrote \in BOOLEAN, Event(wrote) PROVE Fresh'
    BY <1>3, <1>4, EventFacts
  <1>5. ASSUME NEW d \in Days, FillDay(d) PROVE Fresh'
    BY <1>4, <1>5 DEF FillDay
  <1>6. ASSUME NEW cutoff \in 0..(MaxDay - 1), CloseOperations(cutoff) PROVE Fresh'
    BY <1>4, <1>6 DEF CloseOperations
  <1>7. ASSUME NEW p \in Subscriptions, NEW d \in Days, NEW m \in [lunch : 0..1, dinner : {0}],
               StaffSchedule(p, d, m)
        PROVE  Fresh'
    BY <1>4, <1>7 DEF StaffSchedule
  <1>8. ASSUME TimePasses PROVE Fresh'
    BY <1>3, <1>8, TickKeeps
  <1>9. ASSUME tab' = tab, UNCHANGED <<credits, today, clock>>, opsEnd' = opsEnd \/ opsEnd' = NoEnd,
               \A p \in 1..Sets, d \in Days :
                 pickups'[p][d] = pickups[p][d] \/ pickups'[p][d].status = "DELIVERED"
        PROVE  Fresh'
    <2>1. CASE tab.doing \in {"open", "saving", "refused"} /\ ~tab.stale
      <3>1. \A k \in 1..Len(tab.plans) : tab.plans[k] \in 1..Sets
        BY SeqElements DEF Screen, Tabs
      <3>2. \A k \in 1..Len(tab.plans), d \in Days :
              \/ pickups'[tab.plans[k]][d] = pickups[tab.plans[k]][d]
              \/ pickups'[tab.plans[k]][d].status = "DELIVERED"
        BY <1>9, <3>1
      <3>3. tab.doing = "saving" => FilledDays(tab.draft) # {}
        BY <2>1 DEF Fresh
      <3>4. QED BY <1>9, <2>1, <3>2, <3>3, FreshKept
    <2>2. CASE ~(tab.doing \in {"open", "saving", "refused"} /\ ~tab.stale)
      BY <1>9, <2>2 DEF Fresh
    <2>3. QED BY <2>1, <2>2
  <1>10. ASSUME Collect PROVE Fresh'
    <2>1. pickups \in [1..Sets -> [Days -> SoundRows]] /\ SoundRows \subseteq Rows
      BY DEF World, SoundRows
    <2>2. \A p \in 1..Sets, d \in Days :
            pickups'[p][d] = pickups[p][d] \/ pickups'[p][d].status = "DELIVERED"
      BY <1>10, <2>1 DEF Collect, Rows
    <2>3. QED BY <1>9, <1>10, <2>2 DEF Collect
  <1>11. CASE Buy \/ Reopen \/ UNCHANGED calendarVars
    BY <1>9, <1>11 DEF Buy, Reopen, calendarVars
  <1>12. QED BY <1>1, <1>2, <1>5, <1>6, <1>7, <1>8, <1>10, <1>11, FreshTaps, FreshPersist, FreshConfirm
             DEF CalendarNext

---------------------------------------------------------------------------
(* The theorems *)

\* No count of meals leaves its range and the calendar keeps the shape it has (CalendarScheduler).
THEOREM CalendarTypes ==
  CalendarSpec => []CalendarTypeOK
  <1>1. CalendarInit => World /\ Screen
    BY CalendarAssumption, InitRight
  <1>2. World /\ Screen /\ [CalendarNext]_calendarVars => World' /\ Screen'
    BY CalendarAssumption, NextKeeps
  <1>3. World /\ Screen => CalendarTypeOK
    BY CalendarAssumption, TypesFollow
  <1>4. QED BY <1>1, <1>2, <1>3, PTL DEF CalendarSpec

\* When the calendar says that a draft is saved, the rows of the plans together are the draft
\* (persistSchedule).
THEOREM SavedIsDraftedAlways ==
  CalendarSpec => []SavedIsDrafted
  <1>1. CalendarInit => World /\ Screen /\ Sent
    <2>1. CalendarInit => tab.doing = "closed"
      BY CalendarAssumption, ClosedFacts DEF CalendarInit
    <2>2. tab.doing = "closed" => Sent
      BY DEF Sent
    <2>3. QED BY <2>1, <2>2, CalendarAssumption, InitRight
  <1>2. World /\ Screen /\ Sent /\ [CalendarNext]_calendarVars => World' /\ Screen' /\ Sent'
    BY CalendarAssumption, NextKeeps, SentKept
  <1>3. World /\ Screen /\ Sent => SavedIsDrafted
    BY CalendarAssumption, SentIsSaved
  <1>4. QED BY <1>1, <1>2, <1>3, PTL DEF CalendarSpec

\* What the calendar offers for one plan, or has filled in for equal plans, is refused only when
\* something has changed, there is no room, or a day is closed that was in the draft before the
\* rules came (isDayInteractive, buildAutoFill, validateScheduleSlots).
THEOREM OfferedIsAcceptedAlways ==
  CalendarSpec => OfferedIsAccepted
  <1>1. CalendarInit => World /\ Screen /\ Fresh
    <2>1. CalendarInit => tab.doing = "closed"
      BY CalendarAssumption, ClosedFacts DEF CalendarInit
    <2>2. tab.doing = "closed" => Fresh
      BY DEF Fresh
    <2>3. QED BY <2>1, <2>2, CalendarAssumption, InitRight
  <1>2. World /\ Screen /\ Fresh /\ [CalendarNext]_calendarVars => World' /\ Screen' /\ Fresh'
    BY CalendarAssumption, NextKeeps, FreshNext
  <1>3. World /\ Screen /\ Fresh /\ [CalendarNext]_calendarVars =>
          [tab.doing = "saving" /\ tab'.doing = "refused" => Excused]_calendarVars
    <2> SUFFICES ASSUME World, Screen, Fresh, CalendarNext, tab.doing = "saving", tab'.doing = "refused"
                 PROVE  Excused
      OBVIOUS
    <2>1. ASSUME PersistSchedule PROVE Excused
      BY <2>1, CalendarAssumption, RefusedIsExcused
    <2>2. ASSUME Stirs PROVE FALSE
      BY <2>2, CalendarAssumption, ClosedFacts DEF Stirs
    <2>3. ASSUME HandleConfirm \/ CloseCalendar \/ ClearAll PROVE FALSE
      BY <2>3 DEF HandleConfirm, CloseCalendar, ClearAll, SetQty
    <2>4. ASSUME OpenCalendar \/ LoadRules \/ LoadCapacity PROVE FALSE
      <3>1. CASE OpenCalendar
        BY <3>1 DEF OpenCalendar
      <3>2. CASE LoadRules \/ LoadCapacity
        <4>1. tab'.doing = tab.doing
          BY <3>2, CalendarAssumption, LoadFacts
        <4>2. QED BY <4>1
      <3>3. QED BY <2>4, <3>1, <3>2
    <2>5. ASSUME NEW m, NEW d, TapDay(d, m) PROVE FALSE
      BY <2>5 DEF TapDay, SetQty
    <2>6. ASSUME NEW m, NEW from, NEW to, TapRange(from, to, m) PROVE FALSE
      BY <2>6, Zenon DEF TapRange, SetQty
    <2>7. ASSUME NEW d \in Days, FillDay(d) PROVE FALSE
      BY <2>2, <2>7, CalendarAssumption, FillDayKeeps
    <2>8. ASSUME NEW cutoff \in 0..(MaxDay - 1), CloseOperations(cutoff) PROVE FALSE
      BY <2>2, <2>8, CalendarAssumption, CloseOperationsKeeps
    <2>9. ASSUME NEW p \in Subscriptions, NEW d \in Days, NEW m \in [lunch : 0..1, dinner : {0}],
                 StaffSchedule(p, d, m)
          PROVE  FALSE
      BY <2>2, <2>9, CalendarAssumption, StaffScheduleKeeps
    <2>10. QED BY <2>9, <2>8, <2>7, <2>6, <2>5, <2>4, <2>3, <2>2, <2>1,
                  CalendarAssumption, BuyKeeps, CollectKeeps, ReopenKeeps, TickKeeps DEF CalendarNext
  <1>4. QED BY <1>1, <1>2, <1>3, PTL DEF CalendarSpec, OfferedIsAccepted
=============================================================================
