---------------------------- MODULE CommonLemmas ----------------------------
(***************************************************************************)
(* What the other proofs share: arithmetic with quotients and remainders,  *)
(* the searches of the bitmap, and the loops the models write as folds.    *)
(***************************************************************************)
EXTENDS BitmapSearch, FiniteSetTheorems, WellFoundedInduction, TLAPS

(* A nonempty set of naturals has a least element.                         *)
LEMMA LeastNat ==
  ASSUME NEW S, S \subseteq Nat, S # {}
  PROVE  \E x \in S : \A y \in S : x <= y
<1> DEFINE R == OpToRel(<, Nat)
<1>1. \E x \in S : \A y \in S : ~ (<<y, x>> \in R)
  BY NatLessThanWellFounded, WFMin
<1>2. PICK x \in S : \A y \in S : ~ (<<y, x>> \in R)
  BY <1>1
<1>3. \A y \in S : <<y, x>> \in R <=> y < x
  BY DEF OpToRel
<1> HIDE DEF R
<1>4. \A y \in S : ~ (y < x)
  BY <1>2, <1>3, Zenon
<1> QED BY <1>4, S \subseteq Nat

(* ... and one with an upper bound has a greatest element.                 *)
LEMMA GreatestNat ==
  ASSUME NEW S, NEW n \in Nat, S \subseteq 0 .. n, S # {}
  PROVE  \E x \in S : \A y \in S : y <= x
<1> DEFINE T == {n - x : x \in S}
<1>1. T \subseteq Nat /\ T # {}
  <2>1. \A x \in S : n - x \in Nat
    OBVIOUS
  <2> QED BY <2>1
<1>2. PICK t \in T : \A u \in T : t <= u
  BY <1>1, LeastNat
<1>3. PICK m \in S : t = n - m
  OBVIOUS
<1>4. \A y \in S : n - y \in T
  OBVIOUS
<1>5. \A y \in S : y <= m
  <2> SUFFICES ASSUME NEW y \in S PROVE y <= m
    OBVIOUS
  <2> HIDE DEF T
  <2>1. n - m <= n - y
    BY <1>2, <1>3, <1>4
  <2>2. m \in Int /\ y \in Int
    BY S \subseteq 0 .. n
  <2> QED BY <2>1, <2>2
<1> QED BY <1>5

-----------------------------------------------------------------------------
(* Division with remainder.                                                *)
LEMMA DivMod ==
  ASSUME NEW n \in Nat, NEW d \in Nat \ {0}
  PROVE  /\ n \div d \in Nat /\ n % d \in 0 .. d - 1
         /\ n = d * (n \div d) + (n % d)
  OBVIOUS

(* A product comparison gives back the comparison of the factors.          *)
LEMMA MulCancel ==
  ASSUME NEW a \in Int, NEW b \in Int, NEW d \in Nat \ {0}, d * a < d * b
  PROVE  a < b
  OBVIOUS

(* Multiplying by the block size keeps the order.                          *)
LEMMA MulMonotone ==
  ASSUME NEW a \in Int, NEW b \in Int, NEW d \in Nat \ {0}, a < b
  PROVE  d * a + d <= d * b
<1>1. d * (a + 1) <= d * b
  OBVIOUS
<1>2. d * (a + 1) = d * a + d
  OBVIOUS
<1>3. d * a \in Int /\ d * b \in Int
  OBVIOUS
<1> QED BY <1>1, <1>2, <1>3

(* A remainder is less than the modulus.                                   *)
LEMMA ModRange ==
  ASSUME NEW n \in Int, NEW d \in Nat \ {0}
  PROVE  n % d \in 0 .. d - 1
  OBVIOUS

(* Quotient and remainder are unique.                                      *)
LEMMA ModUnique ==
  ASSUME NEW n \in Int, NEW d \in Nat \ {0}, NEW q \in Int, NEW r \in 0 .. d - 1,
         n = d * q + r
  PROVE  n % d = r
<1> DEFINE p == n \div d
           s == n % d
<1>1. p \in Int /\ s \in 0 .. d - 1 /\ n = d * p + s
  OBVIOUS
<1>2. d * p \in Int /\ d * q \in Int /\ d * (p + 1) = d * p + d /\ d * (q + 1) = d * q + d
  BY <1>1
<1> HIDE DEF p, s
<1>3. d * p < d * (q + 1) /\ d * q < d * (p + 1)
  BY <1>1, <1>2
<1>4. p < q + 1 /\ q < p + 1
  BY <1>1, <1>3, MulCancel
<1>5. p = q
  BY <1>1, <1>4
<1>6. s = r
  BY <1>1, <1>2, <1>5
<1> QED BY <1>6 DEF s

(* The quotient is the one with a remainder below the divisor.             *)
LEMMA DivUnique ==
  ASSUME NEW n \in Nat, NEW d \in Nat \ {0}, NEW q \in Nat, NEW r \in 0 .. d - 1,
         n = d * q + r
  PROVE  n \div d = q
<1> DEFINE p == n \div d
<1>1. n % d = r
  BY ModUnique
<1>2. p \in Nat /\ n = d * p + r
  BY <1>1, DivMod
<1> HIDE DEF p
<1>3. d * p = d * q /\ d * p \in Int /\ d * q \in Int
  BY <1>2
<1>4. ~ (p < q) /\ ~ (q < p)
  BY <1>2, <1>3, MulMonotone
<1> QED BY <1>2, <1>4 DEF p

(* Adding before or after wrapping gives the same remainder.               *)
LEMMA ModAdd ==
  ASSUME NEW n \in Int, NEW k \in Int, NEW d \in Nat \ {0}
  PROVE  ((n % d) + k) % d = (n + k) % d
<1> DEFINE m == (n % d) + k
           q == n \div d
           p == m \div d
           r == m % d
<1>1. n % d \in Int /\ q \in Int /\ n = d * q + (n % d)
  OBVIOUS
<1>2. m \in Int /\ n + k = d * q + m
  BY <1>1
<1>3. p \in Int /\ r \in 0 .. d - 1 /\ m = d * p + r
  BY <1>2
<1>4. d * (q + p) = d * q + d * p /\ d * q \in Int /\ d * p \in Int
  BY <1>1, <1>3
<1> HIDE DEF m, q, p, r
<1>5. n + k = d * (q + p) + r
  BY <1>1, <1>2, <1>3, <1>4
<1>6. q + p \in Int /\ n + k \in Int
  BY <1>1, <1>3
<1>7. (n + k) % d = r
  BY <1>3, <1>5, <1>6, ModUnique
<1> QED BY <1>7 DEF m, r

(* Quotients keep the order, and numbers less than d apart have quotients  *)
(* at most one apart.                                                      *)
LEMMA DivMonotone ==
  ASSUME NEW a \in Nat, NEW b \in Nat, NEW d \in Nat \ {0}, a <= b
  PROVE  /\ a \div d <= b \div d
         /\ b - a < d => b \div d <= (a \div d) + 1
<1> DEFINE p == a \div d
           q == b \div d
<1>1. /\ p \in Nat /\ a % d \in 0 .. d - 1 /\ a = d * p + (a % d)
      /\ q \in Nat /\ b % d \in 0 .. d - 1 /\ b = d * q + (b % d)
  BY DivMod
<1>2. /\ d * p \in Int /\ d * q \in Int
      /\ d * (q + 1) = d * q + d /\ d * (p + 2) = d * p + d + d
  BY <1>1
<1> HIDE DEF p, q
<1>3. p <= q
  <2>1. d * p < d * (q + 1)
    BY <1>1, <1>2
  <2>2. p < q + 1
    BY <1>1, <2>1, MulCancel
  <2> QED BY <1>1, <2>2
<1>4. ASSUME b - a < d PROVE q <= p + 1
  <2>1. d * q < d * (p + 2)
    BY <1>1, <1>2, <1>4
  <2>2. q < p + 2
    BY <1>1, <2>1, MulCancel
  <2> QED BY <1>1, <2>2
<1> QED BY <1>3, <1>4 DEF p, q

(* Numbers less than d apart with the same remainder are equal.            *)
LEMMA SameRemainder ==
  ASSUME NEW a \in Nat, NEW b \in Nat, NEW d \in Nat \ {0},
         a <= b, b - a < d, a % d = b % d
  PROVE  a = b
<1> DEFINE p == a \div d
           q == b \div d
<1>1. /\ p \in Nat /\ a % d \in 0 .. d - 1 /\ a = d * p + (a % d)
      /\ q \in Nat /\ b % d \in 0 .. d - 1 /\ b = d * q + (b % d)
  BY DivMod
<1>2. d * p \in Int /\ d * q \in Int /\ d * (p + 1) = d * p + d
  BY <1>1
<1> HIDE DEF p, q
<1>3. d * q < d * (p + 1)
  BY <1>1, <1>2
<1>4. q < p + 1
  BY <1>1, <1>3, MulCancel
<1>5. p <= q
  <2>1. a \div d <= b \div d
    BY DivMonotone
  <2> QED BY <2>1 DEF p, q
<1>6. p = q
  BY <1>1, <1>4, <1>5
<1> QED BY <1>1, <1>2, <1>6

-----------------------------------------------------------------------------
(* Min chooses the least element of a set of naturals.                     *)
LEMMA MinOfNat ==
  ASSUME NEW S, S \subseteq Nat, S # {}
  PROVE  Min(S) \in S /\ \A y \in S : Min(S) <= y
  BY LeastNat DEF Min

(* Max chooses the greatest element of a bounded one.                      *)
LEMMA MaxOfBounded ==
  ASSUME NEW S, NEW n \in Nat, S \subseteq 0 .. n, S # {}
  PROVE  Max(S) \in S /\ \A y \in S : Max(S) >= y
<1>1. PICK x \in S : \A y \in S : y <= x
  BY GreatestNat
<1>2. \A y \in S : x >= y
  BY <1>1, S \subseteq 0 .. n
<1> QED BY <1>2 DEF Max

(* The bit mmap_find_free returns is 0 in the bitmap, if there is one.     *)
LEMMA FindFreeIsFree ==
  ASSUME NEW bm, NEW limit \in Nat
  PROVE  LET b == mmap_find_free(bm, limit)
         IN  b = 0 \/ (b \in 1 .. limit - 1 /\ b \notin bm)
<1> DEFINE free == {b \in 0 .. limit - 1 : b \notin bm}
<1>1. CASE free = {}
  BY <1>1 DEF mmap_find_free
<1>2. CASE free # {}
  <2>1. Min(free) \in free
    BY <1>2, MinOfNat
  <2>2. mmap_find_free(bm, limit) = Min(free)
    BY <1>2 DEF mmap_find_free
  <2> QED BY <2>1, <2>2
<1> QED BY <1>1, <1>2

(* When block 0 is taken, the frame mmap_find_free_frame returns is free   *)
(* in the bitmap from end to end and lies in the words it looked at.       *)
LEMMA FindFreeFrameIsFree ==
  ASSUME NEW bm, NEW limit \in Nat, NEW num \in Nat, 0 \in bm
  PROVE  LET b == mmap_find_free_frame(bm, limit, num)
         IN  \/ b = 0
             \/ /\ b \in Nat \ {0} /\ b + num <= limit /\ num # 0
                /\ \A i \in b .. b + num - 1 : i \notin bm
<1> DEFINE starts == {b \in 0 .. limit - num : \A i \in b .. b + num - 1 : i \notin bm}
           r == mmap_find_free_frame(bm, limit, num)
<1>1. CASE num = 0 \/ starts = {}
  BY <1>1 DEF mmap_find_free_frame
<1>2. CASE num # 0 /\ starts # {}
  <2>1. Min(starts) \in starts
    BY <1>2, MinOfNat
  <2>2. 0 \notin starts
    BY <1>2
  <2>3. Min(starts) # 0
    BY <2>1, <2>2
  <2>4. r = Min(starts)
    BY <1>2, <2>3 DEF mmap_find_free_frame
  <2>5. /\ r \in Nat \ {0} /\ r + num <= limit
        /\ \A i \in r .. r + num - 1 : i \notin bm
    BY <2>1, <2>2, <2>4
  <2> QED BY <1>2, <2>5
<1> QED BY <1>1, <1>2

-----------------------------------------------------------------------------
(* g is defined by recursion: from `down` of a point, but at rank 0.       *)
Recursive(g, D, rank, down, base, step) ==
  \A d \in D : g[d] = IF rank[d] = 0 THEN base ELSE step[<<d, g[down[d]]>>]

(* A function defined by recursion exists: `down` leads from every point   *)
(* to one of lower rank, and the points of rank 0 have the value `base`.   *)
LEMMA RecursionExists ==
  ASSUME NEW D, NEW M, NEW n \in Nat, NEW rank \in [D -> 0 .. n], NEW down \in [D -> D],
         NEW base \in M, NEW step \in [D \X M -> M],
         \A d \in D : rank[d] # 0 => rank[down[d]] < rank[d]
  PROVE  \E g \in [D -> M] : Recursive(g, D, rank, down, base, step)
<1> DEFINE next(g) == [d \in D |-> IF rank[d] = 0 THEN base ELSE step[<<d, g[down[d]]>>]]
           agrees(g, k) == \A d \in D : rank[d] <= k => g[d] = next(g)[d]
           bad == {k \in 0 .. n : ~ \E g \in [D -> M] : agrees(g, k)}
<1>1. bad = {}
  <2> SUFFICES ASSUME bad # {} PROVE FALSE
    OBVIOUS
  <2>1. bad \subseteq Nat
    OBVIOUS
  <2>2. PICK k \in bad : \A j \in bad : k <= j
    <3> HIDE DEF bad
    <3> QED BY <2>1, LeastNat
  <2>3. k # 0
    <3> DEFINE g == [d \in D |-> base]
    <3>1. g \in [D -> M]
      OBVIOUS
    <3>2. agrees(g, 0)
      OBVIOUS
    <3> QED BY <2>2, <3>1, <3>2
  <2>4. k \in 0 .. n /\ k - 1 \in 0 .. n /\ ~ (k <= k - 1)
    BY <2>2, <2>3
  <2>5. PICK g \in [D -> M] : agrees(g, k - 1)
    <3>1. k - 1 \notin bad
      BY <2>2, <2>4
    <3> QED BY <2>4, <3>1
  <2> DEFINE h == next(g)
  <2>6. h \in [D -> M]
    <3> SUFFICES ASSUME NEW d \in D PROVE h[d] \in M
      OBVIOUS
    <3>1. <<d, g[down[d]]>> \in D \X M
      OBVIOUS
    <3>2. step[<<d, g[down[d]]>>] \in M
      BY <3>1
    <3> QED BY <3>2
  <2>7. agrees(h, k)
    <3> SUFFICES ASSUME NEW d \in D, rank[d] <= k, rank[d] # 0 PROVE h[d] = next(h)[d]
      OBVIOUS
    <3>1. down[d] \in D /\ rank[down[d]] <= k - 1
      BY <2>4
    <3>2. g[down[d]] = h[down[d]]
      BY <2>5, <3>1
    <3>3. h[d] = step[<<d, g[down[d]]>>]
      OBVIOUS
    <3>4. next(h)[d] = step[<<d, h[down[d]]>>]
      OBVIOUS
    <3> QED BY <3>2, <3>3, <3>4
  <2> QED BY <2>2, <2>6, <2>7
<1>2. PICK g \in [D -> M] : agrees(g, n)
  <2>1. n \in 0 .. n
    OBVIOUS
  <2>2. n \notin bad
    <3> HIDE DEF bad
    <3> QED BY <1>1
  <2> HIDE DEF agrees
  <2> QED BY <2>1, <2>2
<1>3. \A d \in D : rank[d] <= n
  OBVIOUS
<1> QED BY <1>2, <1>3 DEF Recursive

(* What holds before a loop of n rounds and is kept by each round holds    *)
(* after it; I[i] is what holds after round i.                             *)
LEMMA RoundsKeep ==
  ASSUME NEW n \in Nat, NEW I, NEW x,
         x[0] \in I[0], \A i \in 1 .. n : x[i - 1] \in I[i - 1] => x[i] \in I[i]
  PROVE  x[n] \in I[n]
<1> DEFINE bad == {i \in 0 .. n : x[i] \notin I[i]}
<1> SUFFICES ASSUME bad # {} PROVE FALSE
  OBVIOUS
<1>1. bad \subseteq Nat
  OBVIOUS
<1>2. PICK i \in bad : \A j \in bad : i <= j
  <2> HIDE DEF bad
  <2> QED BY <1>1, LeastNat
<1>3. i \in 1 .. n /\ i - 1 \in 0 .. n /\ ~ (i <= i - 1)
  BY <1>2
<1>4. x[i - 1] \in I[i - 1]
  BY <1>2, <1>3
<1> QED BY <1>2, <1>3, <1>4

(* FoldLeft over 1 .. n takes the greatest index off a set of them: the    *)
(* sets from which it starts, and what it does to the prefixes.            *)
LEMMA PrefixSets ==
  ASSUME NEW n \in Nat
  PROVE  /\ \A s \in SUBSET (1 .. n) :
               /\ Cardinality(s) \in 0 .. n /\ (Cardinality(s) = 0 <=> s = {})
               /\ s # {} => /\ Max(s) \in s /\ s \ {Max(s)} \in SUBSET (1 .. n)
                            /\ Cardinality(s \ {Max(s)}) < Cardinality(s)
         /\ \A i \in 1 .. n : Max(1 .. i) = i /\ (1 .. i) \ {i} = 1 .. i - 1
<1>1. IsFiniteSet(1 .. n) /\ Cardinality(1 .. n) = n
  BY FS_Interval
<1>2. ASSUME NEW s \in SUBSET (1 .. n)
      PROVE  /\ Cardinality(s) \in 0 .. n /\ (Cardinality(s) = 0 <=> s = {})
             /\ s # {} => /\ Max(s) \in s /\ s \ {Max(s)} \in SUBSET (1 .. n)
                          /\ Cardinality(s \ {Max(s)}) < Cardinality(s)
  <2>1. IsFiniteSet(s) /\ Cardinality(s) \in Nat /\ Cardinality(s) <= n
    BY <1>1, FS_Subset, FS_CardinalityType
  <2>2. Cardinality(s) = 0 <=> s = {}
    BY <2>1, FS_EmptySet
  <2>3. ASSUME s # {} PROVE Max(s) \in s
    <3>1. s \subseteq 0 .. n
      OBVIOUS
    <3> QED BY <2>3, <3>1, MaxOfBounded
  <2>4. ASSUME s # {} PROVE Cardinality(s \ {Max(s)}) < Cardinality(s)
    <3>1. Cardinality(s \ {Max(s)}) = Cardinality(s) - 1
      BY <2>1, <2>3, <2>4, FS_RemoveElement
    <3> QED BY <2>1, <3>1
  <2>5. Cardinality(s) \in 0 .. n
    BY <2>1
  <2>6. s \ {Max(s)} \in SUBSET (1 .. n)
    OBVIOUS
  <2> QED BY <2>2, <2>3, <2>4, <2>5, <2>6, Zenon
<1>3. ASSUME NEW i \in 1 .. n PROVE Max(1 .. i) = i /\ (1 .. i) \ {i} = 1 .. i - 1
  <2>1. 1 .. i \subseteq 0 .. n /\ 1 .. i # {} /\ i \in 1 .. i
    OBVIOUS
  <2>2. Max(1 .. i) \in 1 .. i /\ Max(1 .. i) >= i
    BY <2>1, MaxOfBounded
  <2> QED BY <2>2
<1> QED BY <1>2, <1>3

(* The values of a loop of n rounds over states in M, as FoldLeft defines  *)
(* them: of a set of rounds, the last one is done last.                    *)
Loops(g, n, M, base, step) ==
  /\ g[{}] = base
  /\ \A s \in SUBSET (1 .. n) : s # {} /\ g[s \ {Max(s)}] \in M =>
       g[s] = step[<<Max(s), g[s \ {Max(s)}]>>]

(* There are such values.                                                  *)
LEMMA LoopExists ==
  ASSUME NEW n \in Nat, NEW M, NEW base \in M, NEW step \in [(1 .. n) \X M -> M]
  PROVE  \E g \in [SUBSET (1 .. n) -> M] : Loops(g, n, M, base, step)
<1> DEFINE D == SUBSET (1 .. n)
           rank == [s \in D |-> Cardinality(s)]
           down == [s \in D |-> IF s = {} THEN {} ELSE s \ {Max(s)}]
           move == [p \in D \X M |-> IF p[1] = {} THEN base ELSE step[<<Max(p[1]), p[2]>>]]
<1>1. rank \in [D -> 0 .. n] /\ down \in [D -> D]
  BY PrefixSets
<1>2. move \in [D \X M -> M]
  <2> SUFFICES ASSUME NEW p \in D \X M PROVE move[p] \in M
    BY Zenon
  <2>1. p[1] \in D /\ p[2] \in M
    OBVIOUS
  <2>2. ASSUME p[1] # {} PROVE step[<<Max(p[1]), p[2]>>] \in M
    <3>1. Max(p[1]) \in 1 .. n
      BY <2>1, <2>2, PrefixSets
    <3> QED BY <2>1, <3>1
  <2> QED BY <2>2
<1>3. \A s \in D : rank[s] # 0 => rank[down[s]] < rank[s]
  BY <1>1, PrefixSets
<1>4. \A s \in D : rank[s] = 0 <=> s = {}
  BY PrefixSets
<1> HIDE DEF rank, move
<1>5. PICK g \in [D -> M] : Recursive(g, D, rank, down, base, move)
  <2> HIDE DEF D, down
  <2> QED BY <1>1, <1>2, <1>3, RecursionExists, Zenon
<1>6. ASSUME NEW s \in D, s # {}
      PROVE  g[s] = step[<<Max(s), g[s \ {Max(s)}]>>]
  <2>1. down[s] \in D /\ down[s] = s \ {Max(s)}
    BY <1>1, <1>6
  <2>2. <<s, g[down[s]]>> \in D \X M
    BY <2>1
  <2>3. move[<<s, g[down[s]]>>] = step[<<Max(s), g[down[s]]>>]
    BY <1>6, <2>2 DEF move
  <2> QED BY <1>4, <1>5, <1>6, <2>1, <2>3 DEF Recursive
<1>7. g[{}] = base
  BY <1>4, <1>5 DEF Recursive
<1> QED BY <1>6, <1>7 DEF Loops

(* x[i] is the state of a loop after round i of n.                         *)
Rounds(x, n, M, base, step, end) ==
  /\ x \in [0 .. n -> M] /\ x[0] = base /\ x[n] = end
  /\ \A i \in 1 .. n : x[i] = step[<<i, x[i - 1]>>]

(* Such a loop has a state after each of its rounds.                       *)
LEMMA LoopRounds ==
  ASSUME NEW n \in Nat, NEW M, NEW base \in M, NEW step \in [(1 .. n) \X M -> M],
         NEW g, Loops(g, n, M, base, step)
  PROVE  \E x : Rounds(x, n, M, base, step, g[1 .. n])
<1> DEFINE x == [i \in 0 .. n |-> g[1 .. i]]
<1>1. x[0] = base
  <2>1. 1 .. 0 = {}
    OBVIOUS
  <2> QED BY <2>1 DEF Loops
<1>2. ASSUME NEW i \in 1 .. n, x[i - 1] \in M
      PROVE  x[i] = step[<<i, x[i - 1]>>] /\ x[i] \in M
  <2>1. /\ i - 1 \in 0 .. n /\ i \in 0 .. n
        /\ 1 .. i \in SUBSET (1 .. n) /\ 1 .. i # {}
    <3>1. i \in 1 .. i /\ \A j \in 1 .. i : j \in 1 .. n
      OBVIOUS
    <3>2. i - 1 \in 0 .. n /\ i \in 0 .. n
      OBVIOUS
    <3> QED BY <3>1, <3>2
  <2>2. Max(1 .. i) = i /\ (1 .. i) \ {i} = 1 .. i - 1
    BY PrefixSets
  <2>3. g[1 .. i] = step[<<i, g[1 .. i - 1]>>]
    BY <1>2, <2>1, <2>2 DEF Loops
  <2> QED BY <1>2, <2>1, <2>3
<1>3. x[n] = g[1 .. n]
  OBVIOUS
<1>4. ASSUME NEW k \in 0 .. n PROVE x[k] \in M
  <2> DEFINE I == [i \in 0 .. n |-> M]
  <2>1. x[0] \in I[0]
    BY <1>1
  <2>2. ASSUME NEW i \in 1 .. k, x[i - 1] \in I[i - 1] PROVE x[i] \in I[i]
    <3>1. i \in 1 .. n /\ i - 1 \in 0 .. n /\ i \in 0 .. n
      OBVIOUS
    <3>2. x[i - 1] \in M
      BY <2>2, <3>1
    <3>3. x[i] \in M
      BY <1>2, <3>1, <3>2
    <3> QED BY <3>1, <3>3
  <2> HIDE DEF x
  <2>3. x[k] \in I[k]
    <3> HIDE DEF I
    <3> QED BY <2>1, <2>2, RoundsKeep
  <2> QED BY <2>3
<1>5. x \in [0 .. n -> M]
  BY <1>4
<1>6. \A i \in 1 .. n : x[i] = step[<<i, x[i - 1]>>]
  <2> SUFFICES ASSUME NEW i \in 1 .. n PROVE x[i] = step[<<i, x[i - 1]>>]
    OBVIOUS
  <2>1. i - 1 \in 0 .. n
    OBVIOUS
  <2> QED BY <1>2, <1>4, <2>1
<1> HIDE DEF x
<1> QED BY <1>1, <1>3, <1>5, <1>6 DEF Rounds

(* What such a loop gives: I[i] is what holds after round i.               *)
LEMMA LoopGives ==
  ASSUME NEW n \in Nat, NEW M, NEW base \in M, NEW step \in [(1 .. n) \X M -> M],
         NEW g, Loops(g, n, M, base, step),
         NEW I \in [0 .. n -> SUBSET M], base \in I[0],
         \A i \in 1 .. n : \A m \in I[i - 1] : step[<<i, m>>] \in I[i]
  PROVE  g[1 .. n] \in I[n]
<1>1. PICK x : Rounds(x, n, M, base, step, g[1 .. n])
  BY LoopRounds
<1>2. \A i \in 1 .. n : x[i - 1] \in I[i - 1] => x[i] \in I[i]
  BY <1>1 DEF Rounds
<1>3. x[0] \in I[0]
  BY <1>1 DEF Rounds
<1>4. x[n] \in I[n]
  BY <1>2, <1>3, RoundsKeep
<1> QED BY <1>1, <1>4 DEF Rounds

=============================================================================
