----------------------------- MODULE VfsProofs -----------------------------
(***************************************************************************)
(* Proofs about the RAM disk and the file system, for every archive, list  *)
(* of devices and sequence of calls.                                       *)
(***************************************************************************)
EXTENDS Vfs, CommonLemmas, FiniteSetTheorems, TLAPS

(* The loops of module Initrd take the last index as those here do.        *)
LEMMA SameMax == \A S : Tar!Max(S) = Max(S)
  BY DEF Tar!Max, Max

-----------------------------------------------------------------------------
(* The size fields.  The value of a field, digit by digit from the first.  *)
LEMMA ValueRounds ==
  ASSUME NEW d \in Seq(Nat)
  PROVE  \E v \in [0 .. Len(d) -> Nat] :
           /\ v[0] = 0 /\ v[Len(d)] = Tar!value(d)
           /\ \A i \in 1 .. Len(d) : v[i] = 8 * v[i - 1] + d[i]
<1> DEFINE n == Len(d)
           val(g, r) == IF r = {} THEN 0 ELSE 8 * g[r \ {Tar!Max(r)}] + d[Tar!Max(r)]
           IsLoop(g) == g = [r \in SUBSET (DOMAIN d) |-> val(g, r)]
           loop == CHOOSE g : IsLoop(g)
           step == [p \in (1 .. n) \X Nat |-> 8 * p[2] + d[p[1]]]
<1>1. Tar!value(d) = loop[DOMAIN d]
  BY DEF Tar!value, Tar!FoldLeft, Tar!MapThenFoldSet
<1>2. n \in Nat /\ DOMAIN d = 1 .. n /\ \A i \in 1 .. n : d[i] \in Nat
  OBVIOUS
<1> HIDE DEF n
<1>3. step \in [(1 .. n) \X Nat -> Nat]
  BY <1>2
<1>4. \A i \in 1 .. n : \A m \in Nat : step[<<i, m>>] = 8 * m + d[i]
  OBVIOUS
<1> HIDE DEF step
<1>5. ASSUME NEW r \in SUBSET (1 .. n), NEW g, r # {}, g[r \ {Max(r)}] \in Nat
      PROVE  val(g, r) = step[<<Max(r), g[r \ {Max(r)}]>>]
  <2>1. Max(r) \in 1 .. n
    BY <1>2, <1>5, PrefixSets
  <2> QED BY <1>4, <1>5, <2>1, SameMax
<1>6. \A g : val(g, {}) = 0
  OBVIOUS
<1> HIDE DEF val
<1>7. \E g : IsLoop(g)
  <2>1. PICK g \in [SUBSET (1 .. n) -> Nat] : Loops(g, n, Nat, 0, step)
    BY <1>2, <1>3, LoopExists
  <2>2. \A r \in SUBSET (1 .. n) : g[r] = val(g, r)
    BY <1>5, <1>6, <2>1 DEF Loops
  <2>3. g = [r \in SUBSET (1 .. n) |-> g[r]]
    OBVIOUS
  <2>4. IsLoop(g)
    BY <1>2, <2>2, <2>3
  <2> HIDE DEF IsLoop
  <2> QED BY <2>4
<1>8. IsLoop(loop)
  BY <1>7
<1> HIDE DEF loop
<1>9. Loops(loop, n, Nat, 0, step)
  <2>1. \A r \in SUBSET (1 .. n) : loop[r] = val(loop, r)
    BY <1>2, <1>8
  <2> QED BY <1>5, <1>6, <2>1 DEF Loops
<1>10. PICK v : Rounds(v, n, Nat, 0, step, loop[1 .. n])
  BY <1>2, <1>3, <1>9, LoopRounds
<1>11. ASSUME NEW i \in 1 .. n PROVE v[i] = 8 * v[i - 1] + d[i]
  <2>1. v[i - 1] \in Nat
    BY <1>2, <1>10 DEF Rounds
  <2>2. v[i] = step[<<i, v[i - 1]>>]
    BY <1>10 DEF Rounds
  <2> QED BY <1>4, <2>1, <2>2
<1>12. v \in [0 .. n -> Nat] /\ v[0] = 0 /\ v[n] = Tar!value(d)
  BY <1>1, <1>2, <1>10 DEF Rounds
<1> QED BY <1>11, <1>12 DEF n

(* getsize, digit by digit from the last.                                  *)
Sums == [size : Nat, count : Nat]

LEMMA SizeRounds ==
  ASSUME NEW d \in Seq(Nat)
  PROVE  \E x \in [0 .. Len(d) -> Sums] :
           /\ x[0] = [size |-> 0, count |-> 1] /\ x[Len(d)].size = Tar!getsize(d)
           /\ \A i \in 1 .. Len(d) :
                x[i] = [size |-> x[i - 1].size + d[Len(d) - i + 1] * x[i - 1].count,
                        count |-> x[i - 1].count * 8]
<1> DEFINE n == Len(d)
           e == Tar!Reverse(d)
           base == [size |-> 0, count |-> 1]
           val(g, r) == IF r = {} THEN base
                        ELSE [size |-> g[r \ {Tar!Max(r)}].size
                                       + e[Tar!Max(r)] * g[r \ {Tar!Max(r)}].count,
                              count |-> g[r \ {Tar!Max(r)}].count * 8]
           IsLoop(g) == g = [r \in SUBSET (DOMAIN e) |-> val(g, r)]
           loop == CHOOSE g : IsLoop(g)
           step == [p \in (1 .. n) \X Sums |->
                      [size |-> p[2].size + e[p[1]] * p[2].count, count |-> p[2].count * 8]]
<1>1. Tar!getsize(d) = loop[DOMAIN e].size
  BY DEF Tar!getsize, Tar!FoldLeft, Tar!MapThenFoldSet
<1>2. /\ n \in Nat /\ DOMAIN e = 1 .. n
      /\ \A i \in 1 .. n : e[i] \in Nat /\ e[i] = d[n - i + 1]
  BY DEF Tar!Reverse
<1> HIDE DEF n, e
<1>3. base \in Sums /\ base.size = 0 /\ base.count = 1
  BY DEF Sums
<1>4. step \in [(1 .. n) \X Sums -> Sums]
  <2> SUFFICES ASSUME NEW i \in 1 .. n, NEW m \in Sums
               PROVE  [size |-> m.size + e[i] * m.count, count |-> m.count * 8] \in Sums
    OBVIOUS
  <2>1. m.size \in Nat /\ m.count \in Nat /\ e[i] \in Nat
    BY <1>2 DEF Sums
  <2>2. e[i] * m.count \in Nat /\ m.count * 8 \in Nat
    BY <2>1
  <2>3. m.size + e[i] * m.count \in Nat
    BY <2>1, <2>2
  <2> QED BY <2>2, <2>3 DEF Sums
<1>5. \A i \in 1 .. n : \A m \in Sums :
        step[<<i, m>>] = [size |-> m.size + e[i] * m.count, count |-> m.count * 8]
  OBVIOUS
<1> HIDE DEF step
<1>6. ASSUME NEW r \in SUBSET (1 .. n), NEW g, r # {}, g[r \ {Max(r)}] \in Sums
      PROVE  val(g, r) = step[<<Max(r), g[r \ {Max(r)}]>>]
  <2>1. Max(r) \in 1 .. n
    BY <1>2, <1>6, PrefixSets
  <2> QED BY <1>5, <1>6, <2>1, SameMax
<1>7. \A g : val(g, {}) = base
  OBVIOUS
<1> HIDE DEF val, base
<1>8. \E g : IsLoop(g)
  <2>1. PICK g \in [SUBSET (1 .. n) -> Sums] : Loops(g, n, Sums, base, step)
    BY <1>2, <1>3, <1>4, LoopExists
  <2>2. \A r \in SUBSET (1 .. n) : g[r] = val(g, r)
    BY <1>6, <1>7, <2>1 DEF Loops
  <2>3. g = [r \in SUBSET (1 .. n) |-> g[r]]
    OBVIOUS
  <2>4. IsLoop(g)
    BY <1>2, <2>2, <2>3
  <2> HIDE DEF IsLoop
  <2> QED BY <2>4
<1>9. IsLoop(loop)
  BY <1>8
<1> HIDE DEF loop
<1>10. Loops(loop, n, Sums, base, step)
  <2>1. \A r \in SUBSET (1 .. n) : loop[r] = val(loop, r)
    BY <1>2, <1>9
  <2> QED BY <1>6, <1>7, <2>1 DEF Loops
<1>11. PICK x : Rounds(x, n, Sums, base, step, loop[1 .. n])
  BY <1>2, <1>3, <1>4, <1>10, LoopRounds
<1>12. ASSUME NEW i \in 1 .. n
       PROVE  x[i] = [size |-> x[i - 1].size + d[n - i + 1] * x[i - 1].count,
                      count |-> x[i - 1].count * 8]
  <2>1. x[i - 1] \in Sums
    BY <1>2, <1>11 DEF Rounds
  <2>2. x[i] = step[<<i, x[i - 1]>>]
    BY <1>11 DEF Rounds
  <2> QED BY <1>2, <1>5, <2>1, <2>2
<1>13. /\ x \in [0 .. n -> Sums] /\ x[0] = base
       /\ x[n].size = Tar!getsize(d)
  BY <1>1, <1>2, <1>11 DEF Rounds
<1> QED BY <1>12, <1>13 DEF n, base

(* getsize reads the field: after round i, what it has and the value of    *)
(* the digits before, with the weight reached, are the value of all.       *)
LEMMA SizeRead ==
  ASSUME NEW d \in Seq(Nat)
  PROVE  Tar!getsize(d) = Tar!value(d) /\ Tar!value(d) \in Nat
<1> DEFINE n == Len(d)
<1>1. n \in Nat /\ \A i \in 1 .. n : d[i] \in Nat
  OBVIOUS
<1>2. PICK v \in [0 .. n -> Nat] :
        /\ v[0] = 0 /\ v[n] = Tar!value(d)
        /\ \A i \in 1 .. n : v[i] = 8 * v[i - 1] + d[i]
  BY ValueRounds
<1>3. PICK x \in [0 .. n -> Sums] :
        /\ x[0] = [size |-> 0, count |-> 1] /\ x[n].size = Tar!getsize(d)
        /\ \A i \in 1 .. n :
             x[i] = [size |-> x[i - 1].size + d[n - i + 1] * x[i - 1].count,
                     count |-> x[i - 1].count * 8]
  BY SizeRounds
<1> HIDE DEF n
<1> DEFINE I == [i \in 0 .. n |-> {m \in Sums : m.size + m.count * v[n - i] = v[n]}]
<1>4. x[0] \in I[0]
  <2>1. x[0] \in Sums /\ x[0].size = 0 /\ x[0].count = 1 /\ v[n] \in Nat
    BY <1>1, <1>3
  <2>2. 0 + 1 * v[n - 0] = v[n] /\ 0 \in 0 .. n
    BY <1>1, <2>1
  <2> QED BY <2>1, <2>2
<1>5. ASSUME NEW i \in 1 .. n, x[i - 1] \in I[i - 1]
      PROVE  x[i] \in I[i]
  <2> DEFINE s == x[i - 1].size
             c == x[i - 1].count
             w == v[n - i]
             e == d[n - i + 1]
  <2>1. i - 1 \in 0 .. n /\ i \in 0 .. n /\ n - i \in 0 .. n /\ n - i + 1 \in 1 .. n
    BY <1>1
  <2>2. s \in Nat /\ c \in Nat /\ w \in Nat /\ e \in Nat
    BY <1>1, <1>2, <1>3, <2>1 DEF Sums
  <2>3. n - (i - 1) = n - i + 1 /\ (n - i + 1) - 1 = n - i
    BY <1>1
  <2>4. s + c * v[n - i + 1] = v[n]
    BY <1>5, <2>1, <2>3
  <2>5. v[n - i + 1] = 8 * w + e
    BY <1>2, <2>1, <2>3
  <2>6. x[i].size = s + e * c /\ x[i].count = c * 8 /\ x[i] \in Sums
    <3>1. x[i] = [size |-> s + e * c, count |-> c * 8]
      BY <1>3
    <3>2. x[i] \in Sums
      BY <2>1
    <3> QED BY <3>1, <3>2
  <2> HIDE DEF s, c, w, e
  <2>7. s + c * (8 * w + e) = (s + e * c) + (c * 8) * w
    BY <2>2
  <2>8. x[i].size + x[i].count * w = v[n]
    BY <2>4, <2>5, <2>6, <2>7
  <2> QED BY <2>1, <2>6, <2>8 DEF w
<1>6. x[n] \in I[n]
  <2> HIDE DEF I
  <2> QED BY <1>1, <1>4, <1>5, RoundsKeep
<1>7. x[n] \in Sums /\ x[n].size + x[n].count * v[0] = v[n]
  <2>1. n - n = 0 /\ n \in 0 .. n
    BY <1>1
  <2> QED BY <1>6, <2>1
<1>8. x[n].size \in Nat /\ x[n].count \in Nat
  BY <1>7 DEF Sums
<1>9. x[n].count * 0 = 0
  BY <1>8
<1> QED BY <1>1, <1>2, <1>3, <1>7, <1>8, <1>9

-----------------------------------------------------------------------------
(* The walk.  next_header skips the header and the padded content.         *)
LEMMA HeaderStep ==
  ASSUME NEW a \in Nat, NEW n \in Nat
  PROVE  /\ Tar!next_header(a, n) = a + BLOCK + Tar!padded(n)
         /\ Tar!padded(n) \in Nat
<1> DEFINE q == n \div BLOCK
           r == n % BLOCK
           m == n + BLOCK - 1
<1>1. BLOCK \in Nat \ {0}
  BY VfsAssumption
<1>2. q \in Nat /\ r \in 0 .. BLOCK - 1 /\ n = BLOCK * q + r /\ m \in Nat
  <2>1. q \in Nat /\ r \in 0 .. BLOCK - 1 /\ n = BLOCK * q + r
    BY <1>1, DivMod, Zenon
  <2>2. m \in Nat
    BY <1>1
  <2> QED BY <2>1, <2>2
<1>3. Tar!padded(n) = (m \div BLOCK) * BLOCK
  BY DEF Tar!padded
<1>4. Tar!next_header(a, n) = a + (q + 1) * BLOCK + (IF r # 0 THEN BLOCK ELSE 0)
  BY DEF Tar!next_header
<1> HIDE DEF q, r
<1>5. CASE r = 0
  <2>1. m = BLOCK * q + (BLOCK - 1) /\ BLOCK - 1 \in 0 .. BLOCK - 1
    BY <1>1, <1>2, <1>5
  <2>2. m \div BLOCK = q
    <3> HIDE DEF m
    <3> QED BY <1>1, <1>2, <2>1, DivUnique
  <2>3. (q + 1) * BLOCK = BLOCK + q * BLOCK /\ q * BLOCK \in Nat
    BY <1>1, <1>2
  <2> QED BY <1>1, <1>3, <1>4, <1>5, <2>2, <2>3
<1>6. CASE r # 0
  <2>1. m = BLOCK * (q + 1) + (r - 1) /\ r - 1 \in 0 .. BLOCK - 1 /\ q + 1 \in Nat
    BY <1>1, <1>2, <1>6
  <2>2. m \div BLOCK = q + 1
    <3> HIDE DEF m
    <3> QED BY <1>1, <1>2, <2>1, DivUnique
  <2>3. (q + 1) * BLOCK \in Nat
    BY <1>1, <1>2
  <2> QED BY <1>1, <1>3, <1>4, <1>6, <2>2, <2>3
<1> QED BY <1>5, <1>6

(* What an archive is made of.                                             *)
LEMMA ArchiveType ==
  ASSUME NEW a \in Archives
  PROVE  /\ Len(a) \in Nat /\ DOMAIN a = 1 .. Len(a)
         /\ \A k \in 1 .. Len(a) :
              /\ a[k].size \in Seq(Nat) /\ a[k].type \in {"file", "dir"}
              /\ a[k].name # "none" /\ a[k].name # DevName
<1> DEFINE E == [name : STRING \ {Null.name, DevName},
                 type : {"file", "dir"}, size : Seq(0 .. 7)]
<1>1. a \in Seq(E)
  BY VfsAssumption
<1>2. \A e \in E : /\ e.size \in Seq(0 .. 7) /\ e.type \in {"file", "dir"}
                   /\ e.name # Null.name /\ e.name # DevName
  OBVIOUS
<1> HIDE DEF E
<1>3. \A s \in Seq(0 .. 7) : s \in Seq(Nat)
  OBVIOUS
<1>4. Len(a) \in Nat /\ DOMAIN a = 1 .. Len(a) /\ \A k \in 1 .. Len(a) : a[k] \in E
  BY <1>1
<1> QED BY <1>2, <1>3, <1>4 DEF Null

(* The place of a file, header by header.                                  *)
Space(file) == BLOCK + Tar!padded(Tar!value(file.size))

LEMMA SpaceType ==
  ASSUME NEW a \in Archives, NEW k \in 1 .. Len(a)
  PROVE  Space(a[k]) \in Nat /\ Space(a[k]) > 0
<1>1. Tar!value(a[k].size) \in Nat
  BY ArchiveType, SizeRead
<1>2. Tar!padded(Tar!value(a[k].size)) \in Nat
  BY <1>1, HeaderStep
<1> QED BY <1>2, VfsAssumption DEF Space

LEMMA OffsetRounds ==
  ASSUME NEW a \in Archives, NEW k \in 1 .. Len(a) + 1
  PROVE  \E x \in [0 .. k - 1 -> Nat] :
           /\ x[0] = 0 /\ x[k - 1] = Tar!offsetOf(a, k)
           /\ \A i \in 1 .. k - 1 : x[i] = x[i - 1] + Space(a[i])
<1> DEFINE n == k - 1
           b == SubSeq(a, 1, k - 1)
           val(g, r) == IF r = {} THEN 0
                        ELSE g[r \ {Tar!Max(r)}] + BLOCK
                             + Tar!padded(Tar!value(b[Tar!Max(r)].size))
           IsLoop(g) == g = [r \in SUBSET (DOMAIN b) |-> val(g, r)]
           loop == CHOOSE g : IsLoop(g)
           step == [p \in (1 .. n) \X Nat |-> p[2] + Space(a[p[1]])]
<1>1. Tar!offsetOf(a, k) = loop[DOMAIN b]
  BY DEF Tar!offsetOf, Tar!FoldLeft, Tar!MapThenFoldSet
<1>2. n \in Nat /\ DOMAIN b = 1 .. n /\ \A i \in 1 .. n : b[i] = a[i] /\ i \in 1 .. Len(a)
  <2>1. Len(a) \in Nat /\ DOMAIN a = 1 .. Len(a)
    BY ArchiveType
  <2> QED BY <2>1
<1> HIDE DEF n, b
<1>3. step \in [(1 .. n) \X Nat -> Nat]
  BY <1>2, SpaceType
<1>4. \A i \in 1 .. n : \A m \in Nat : step[<<i, m>>] = m + Space(a[i])
  OBVIOUS
<1> HIDE DEF step
<1>5. ASSUME NEW r \in SUBSET (1 .. n), NEW g, r # {}, g[r \ {Max(r)}] \in Nat
      PROVE  val(g, r) = step[<<Max(r), g[r \ {Max(r)}]>>]
  <2>1. Max(r) \in 1 .. n
    BY <1>2, <1>5, PrefixSets
  <2> DEFINE m == Max(r)
             y == g[r \ {m}]
             z == Tar!padded(Tar!value(a[m].size))
  <2>2. val(g, r) = y + BLOCK + z
    BY <1>2, <1>5, <2>1, SameMax
  <2>3. m \in 1 .. Len(a)
    BY <1>2, <2>1
  <2>4. Tar!value(a[m].size) \in Nat
    BY <2>3, ArchiveType, SizeRead
  <2>5. z \in Nat /\ y \in Nat
    BY <1>5, <2>4, HeaderStep
  <2>6. step[<<m, y>>] = y + (BLOCK + z)
    BY <1>4, <2>1, <2>5 DEF Space
  <2> HIDE DEF m, y, z, val
  <2>7. val(g, r) = step[<<m, y>>]
    BY <2>2, <2>5, <2>6, VfsAssumption
  <2> QED BY <2>7 DEF m, y
<1>6. \A g : val(g, {}) = 0
  OBVIOUS
<1> HIDE DEF val
<1>7. \E g : IsLoop(g)
  <2>1. PICK g \in [SUBSET (1 .. n) -> Nat] : Loops(g, n, Nat, 0, step)
    BY <1>2, <1>3, LoopExists
  <2>2. \A r \in SUBSET (1 .. n) : g[r] = val(g, r)
    BY <1>5, <1>6, <2>1 DEF Loops
  <2>3. g = [r \in SUBSET (1 .. n) |-> g[r]]
    OBVIOUS
  <2>4. IsLoop(g)
    BY <1>2, <2>2, <2>3
  <2> HIDE DEF IsLoop
  <2> QED BY <2>4
<1>8. IsLoop(loop)
  BY <1>7
<1> HIDE DEF loop
<1>9. Loops(loop, n, Nat, 0, step)
  <2>1. \A r \in SUBSET (1 .. n) : loop[r] = val(loop, r)
    BY <1>2, <1>8
  <2> QED BY <1>5, <1>6, <2>1 DEF Loops
<1>10. PICK x : Rounds(x, n, Nat, 0, step, loop[1 .. n])
  BY <1>2, <1>3, <1>9, LoopRounds
<1>11. ASSUME NEW i \in 1 .. n PROVE x[i] = x[i - 1] + Space(a[i])
  <2>1. x[i - 1] \in Nat
    BY <1>2, <1>10 DEF Rounds
  <2>2. x[i] = step[<<i, x[i - 1]>>]
    BY <1>10 DEF Rounds
  <2> QED BY <1>4, <2>1, <2>2
<1>12. x \in [0 .. n -> Nat] /\ x[0] = 0 /\ x[n] = Tar!offsetOf(a, k)
  BY <1>1, <1>2, <1>10 DEF Rounds
<1> QED BY <1>11, <1>12 DEF n

(* The first header is at the start, and each file follows the last one.   *)
LEMMA Offsets ==
  ASSUME NEW a \in Archives
  PROVE  /\ Tar!offsetOf(a, 1) = 0
         /\ \A k \in 1 .. Len(a) + 1 : Tar!offsetOf(a, k) \in Nat
         /\ \A k \in 1 .. Len(a) :
              Tar!offsetOf(a, k + 1) = Tar!offsetOf(a, k) + Space(a[k])
<1>1. Len(a) \in Nat
  BY ArchiveType
<1>2. ASSUME NEW k \in 1 .. Len(a) + 1 PROVE Tar!offsetOf(a, k) \in Nat
  <2>1. PICK x \in [0 .. k - 1 -> Nat] : x[k - 1] = Tar!offsetOf(a, k)
    BY OffsetRounds
  <2> QED BY <1>1, <2>1
<1>3. Tar!offsetOf(a, 1) = 0
  <2>1. 1 \in 1 .. Len(a) + 1 /\ 1 - 1 = 0
    BY <1>1
  <2> QED BY <2>1, OffsetRounds
<1>4. ASSUME NEW k \in 1 .. Len(a)
      PROVE  Tar!offsetOf(a, k + 1) = Tar!offsetOf(a, k) + Space(a[k])
  <2>1. k \in 1 .. Len(a) + 1 /\ k + 1 \in 1 .. Len(a) + 1 /\ (k + 1) - 1 = k
        /\ k - 1 \in Nat
    BY <1>1
  <2>2. PICK x \in [0 .. k -> Nat] :
          /\ x[0] = 0 /\ x[k] = Tar!offsetOf(a, k + 1)
          /\ \A i \in 1 .. k : x[i] = x[i - 1] + Space(a[i])
    <3> DEFINE h == k + 1
    <3>1. \E x \in [0 .. h - 1 -> Nat] :
            /\ x[0] = 0 /\ x[h - 1] = Tar!offsetOf(a, h)
            /\ \A i \in 1 .. h - 1 : x[i] = x[i - 1] + Space(a[i])
      <4> HIDE DEF h
      <4>1. h \in 1 .. Len(a) + 1
        BY <2>1 DEF h
      <4> QED BY <4>1, OffsetRounds
    <3>2. h - 1 = k
      BY <2>1
    <3> HIDE DEF h
    <3>3. \E x \in [0 .. k -> Nat] :
            /\ x[0] = 0 /\ x[k] = Tar!offsetOf(a, h)
            /\ \A i \in 1 .. k : x[i] = x[i - 1] + Space(a[i])
      BY <3>1, <3>2, Zenon
    <3> QED BY <3>3 DEF h
  <2>3. PICK y \in [0 .. k - 1 -> Nat] :
          /\ y[0] = 0 /\ y[k - 1] = Tar!offsetOf(a, k)
          /\ \A i \in 1 .. k - 1 : y[i] = y[i - 1] + Space(a[i])
    BY <2>1, OffsetRounds
  <2> DEFINE I == [i \in 0 .. k - 1 |-> {y[i]}]
  <2>4. x[0] \in I[0]
    BY <2>1, <2>2, <2>3
  <2>5. ASSUME NEW i \in 1 .. k - 1, x[i - 1] \in I[i - 1] PROVE x[i] \in I[i]
    <3>1. i \in 1 .. k /\ i - 1 \in 0 .. k - 1 /\ i \in 0 .. k - 1
      BY <2>1
    <3>2. x[i - 1] = y[i - 1]
      BY <2>5, <3>1
    <3>3. x[i] = y[i]
      BY <2>2, <2>3, <3>1, <3>2
    <3> QED BY <3>1, <3>3
  <2>6. x[k - 1] \in I[k - 1]
    <3> HIDE DEF I
    <3> QED BY <2>1, <2>4, <2>5, RoundsKeep
  <2>7. x[k - 1] = y[k - 1]
    BY <2>1, <2>6
  <2> QED BY <2>1, <2>2, <2>3, <2>7
<1> QED BY <1>2, <1>3, <1>4

(* Two files have different places, and the end is none of them.           *)
LEMMA OffsetsApart ==
  ASSUME NEW a \in Archives, NEW i \in 1 .. Len(a), NEW j \in i + 1 .. Len(a) + 1
  PROVE  Tar!offsetOf(a, i) < Tar!offsetOf(a, j)
<1> DEFINE n == j - i
           x == [m \in 0 .. n |-> Tar!offsetOf(a, i + m)]
           I == [m \in 0 .. n |-> {y \in Nat : y >= Tar!offsetOf(a, i) + m}]
<1>1. Len(a) \in Nat /\ n \in Nat \ {0}
  BY ArchiveType
<1>2. ASSUME NEW m \in 0 .. n PROVE x[m] = Tar!offsetOf(a, i + m) /\ x[m] \in Nat
  <2>1. i + m \in 1 .. Len(a) + 1
    BY <1>1
  <2> QED BY <2>1, Offsets
<1>3. x[0] \in I[0]
  <2>1. 0 \in 0 .. n /\ i + 0 = i /\ i \in 1 .. Len(a) + 1
    BY <1>1
  <2>2. Tar!offsetOf(a, i) \in Nat
    BY <2>1, Offsets
  <2> QED BY <1>2, <2>1, <2>2
<1>4. ASSUME NEW m \in 1 .. n, x[m - 1] \in I[m - 1] PROVE x[m] \in I[m]
  <2>1. /\ m - 1 \in 0 .. n /\ m \in 0 .. n /\ i + (m - 1) \in 1 .. Len(a)
        /\ i \in 1 .. Len(a) + 1
        /\ (i + (m - 1)) + 1 = i + m
    BY <1>1
  <2>2. x[m - 1] \in Nat /\ x[m - 1] >= Tar!offsetOf(a, i) + (m - 1)
    BY <1>4, <2>1
  <2>3. Tar!offsetOf(a, i + m) = Tar!offsetOf(a, i + (m - 1)) + Space(a[i + (m - 1)])
    BY <2>1, Offsets
  <2>4. x[m] = x[m - 1] + Space(a[i + (m - 1)])
    BY <1>2, <2>1, <2>3
  <2>5. Space(a[i + (m - 1)]) \in Nat /\ Space(a[i + (m - 1)]) > 0
    BY <2>1, SpaceType
  <2>6. Tar!offsetOf(a, i) \in Nat
    BY <2>1, Offsets
  <2> HIDE DEF x
  <2>7. x[m] \in Nat /\ x[m] >= Tar!offsetOf(a, i) + m
    BY <2>1, <2>2, <2>4, <2>5, <2>6
  <2> QED BY <2>1, <2>7
<1>5. x[n] \in I[n]
  <2> HIDE DEF x, I, n
  <2> QED BY <1>1, <1>3, <1>4, RoundsKeep
<1>6. /\ n \in 0 .. n /\ i + n = j /\ i \in 1 .. Len(a) + 1
  BY <1>1
<1>7. Tar!offsetOf(a, i) \in Nat /\ Tar!offsetOf(a, j) \in Nat
      /\ Tar!offsetOf(a, j) >= Tar!offsetOf(a, i) + n
  BY <1>2, <1>5, <1>6, Offsets
<1> QED BY <1>1, <1>7

(* A header is found at the place of its file, and none after the last.    *)
LEMMA FileFound ==
  ASSUME archive \in Archives
  PROVE  /\ \A k \in 1 .. Len(archive) : Tar!fileAt(Tar!offsetOf(archive, k)) = k
         /\ Tar!fileAt(Tar!offsetOf(archive, Len(archive) + 1)) = 0
<1> DEFINE n == Len(archive)
           O(k) == Tar!offsetOf(archive, k)
           ks(a) == {k \in DOMAIN archive : O(k) = a}
<1>1. n \in Nat /\ DOMAIN archive = 1 .. n
  BY ArchiveType
<1>2. \A a : Tar!fileAt(a) = IF ks(a) = {} THEN 0 ELSE CHOOSE k \in ks(a) : TRUE
  BY DEF Tar!fileAt
<1>3. \A i \in 1 .. n : \A j \in 1 .. n + 1 : i # j => O(i) # O(j)
  <2> SUFFICES ASSUME NEW i \in 1 .. n, NEW j \in 1 .. n + 1, i # j, O(i) = O(j)
               PROVE  FALSE
    OBVIOUS
  <2>1. i \in 1 .. n + 1 /\ O(i) \in Nat /\ O(j) \in Nat
    BY <1>1, Offsets
  <2>2. CASE i < j
    <3>1. j \in i + 1 .. n + 1
      BY <1>1, <2>2
    <3>2. O(i) < O(j)
      BY <3>1, OffsetsApart
    <3> QED BY <2>1, <3>2
  <2>3. CASE j < i
    <3>1. j \in 1 .. n /\ i \in j + 1 .. n + 1
      BY <1>1, <2>3
    <3>2. O(j) < O(i)
      BY <3>1, OffsetsApart
    <3> QED BY <2>1, <3>2
  <2> QED BY <1>1, <2>2, <2>3
<1> HIDE DEF O
<1>4. ASSUME NEW k \in 1 .. n PROVE Tar!fileAt(O(k)) = k
  <2>1. ks(O(k)) = {k}
    BY <1>1, <1>3
  <2> QED BY <1>2, <2>1
<1>5. Tar!fileAt(O(n + 1)) = 0
  <2>1. ks(O(n + 1)) = {}
    BY <1>1, <1>3
  <2> QED BY <1>2, <2>1
<1> QED BY <1>4, <1>5 DEF O

-----------------------------------------------------------------------------
(* The inductive invariant.  What the two walks have found so far, and the *)
(* nodes made from it.                                                     *)
Places(n) == [k \in 1 .. n |-> Tar!offsetOf(archive, k)]

FileNode(k) == [name |-> archive[k].name, type |-> archive[k].type,
                inode |-> k - 1, length |-> Tar!value(archive[k].size)]
FileNodes == [k \in 1 .. Len(archive) |-> FileNode(k)]
DevNode == [name |-> DevName, type |-> "devfs", inode |-> 0, length |-> 0]

WalkInv ==
  /\ archive \in Archives /\ pc \in {"list", "count", "build", "ready"}
  /\ size \in Nat \ {0} /\ Len(headers) <= size
  /\ pc = "list" => /\ Len(headers) \in 0 .. Len(archive)
                    /\ headers = Places(Len(headers))
                    /\ address = Tar!offsetOf(archive, Len(headers) + 1)
                    /\ nfiles = 0
  /\ pc # "list" => /\ headers = Places(Len(archive)) /\ nfiles \in 0 .. Len(archive)
                    /\ address = Tar!offsetOf(archive, nfiles + 1)
  /\ pc \in {"build", "ready"} => nfiles = Len(archive)
  /\ pc # "ready" => root_nodes = <<>>
  /\ pc = "ready" => root_nodes \in {FileNodes, Append(FileNodes, DevNode)}

(* Where an activation has got to, no node before it had the name.         *)
Passed(activation) ==
  \A j \in 1 .. Len(root_nodes) :
    (activation.fs = "initrd" => j <= activation.index) => root_nodes[j].name # path

(* What is listed, and how far; the flag is off once a device has been.    *)
Children == IF stack[1].fs = "devfs" THEN devices ELSE root_nodes
Index == stack[1].index

(* The lines for the children up to the i-th one, in a listing so far.     *)
Lines(nodes, i) ==
  {[index |-> j - 1, name |-> nodes[j].name] : j \in {k \in 1 .. i : prints(nodes[k].name)}}
ListedOK(nodes, i, lines) ==
  /\ lines \in Seq([index : Nat, name : {nodes[k].name : k \in 1 .. Len(nodes)}])
  /\ {lines[k] : k \in DOMAIN lines} = Lines(nodes, i)
  /\ inOrder(lines)

ListInv ==
  /\ Len(stack) = 1 /\ stack[1].fs \in {"initrd", "devfs"}
  /\ stack[1].fs = "devfs" /\ Index > 0 => ~ initrd_readdir_call
  /\ Index <= Len(Children)
  /\ ListedOK(Children, Index, listed)

(* The file vfs_open gave is the first of its name, if the archive has it. *)
ResultInv ==
  named(result.name) # {} =>
    result = root_nodes[Min(named(result.name))] /\ result.type = "file"

Names == STRING \ {Null.name}
DeviceNodes == [name : Names, type : {"file", "device_directory", "device"}]
Activations == [fs : {"initrd", "devfs", "none"}, index : Nat]

CallInv ==
  /\ devices \in Seq(DeviceNodes) /\ Len(devices) <= Len(Devices)
  /\ initrd_readdir_call \in BOOLEAN
  /\ call \in {"idle", "open", "ls"} /\ path \in Paths \cup {DevName}
  /\ directory \in Directories \cup {"none"} /\ temp \in {"none", DevName}
  /\ stack \in Seq(Activations)
  /\ call # "idle" => booted
  /\ ~ booted => result = Null
  /\ call = "open" => stack # <<>> /\ \A i \in 1 .. Len(stack) : Passed(stack[i])
  /\ call = "ls" => ListInv
  /\ call # "open" => ResultInv

IInv == WalkInv /\ CallInv

(* The nodes: the files in the order of the archive, then /dev.            *)
NodesOK ==
  /\ Len(root_nodes) \in Nat /\ DOMAIN root_nodes = 1 .. Len(root_nodes)
  /\ pc \in {"build", "ready"} => Len(root_nodes) <= nfiles + 1
  /\ root_nodes # <<>> => pc = "ready"
  /\ \A i \in 1 .. Len(root_nodes) :
       /\ root_nodes[i].name # "none"
       /\ \/ root_nodes[i].type = "devfs" /\ i = Len(root_nodes)
          \/ /\ root_nodes[i].type \in {"file", "dir"} /\ i \in 1 .. Len(archive)
             /\ root_nodes[i] = FileNode(i)

LEMMA NodesSound == WalkInv => NodesOK
<1> SUFFICES ASSUME WalkInv PROVE NodesOK
  OBVIOUS
<1> DEFINE n == Len(archive)
<1>1. n \in Nat
  BY ArchiveType DEF WalkInv
<1>2. /\ Len(FileNodes) = n /\ DOMAIN FileNodes = 1 .. n
      /\ \A i \in 1 .. n : FileNodes[i] = FileNode(i)
  BY <1>1 DEF FileNodes
<1>3. \A i \in 1 .. n : FileNode(i).name # "none" /\ FileNode(i).type \in {"file", "dir"}
  BY ArchiveType DEF FileNode, WalkInv
<1>4. CASE root_nodes = <<>>
  BY <1>1, <1>4 DEF WalkInv, NodesOK
<1>5. CASE pc = "ready" /\ root_nodes = FileNodes
  BY <1>1, <1>2, <1>3, <1>5 DEF WalkInv, NodesOK
<1>6. CASE pc = "ready" /\ root_nodes = Append(FileNodes, DevNode)
  <2>1. \A k \in 1 .. n : FileNodes[k] \in {FileNode(j) : j \in 1 .. n}
    BY <1>2
  <2>2. FileNodes \in Seq({FileNode(j) : j \in 1 .. n} \cup {DevNode})
    BY <1>1, <2>1 DEF FileNodes
  <2>3. /\ Len(root_nodes) = n + 1 /\ DOMAIN root_nodes = 1 .. n + 1
        /\ \A i \in 1 .. n : root_nodes[i] = FileNode(i)
        /\ root_nodes[n + 1] = DevNode
    BY <1>1, <1>2, <1>6, <2>2
  <2>4. DevNode.name # "none" /\ DevNode.type = "devfs"
    BY VfsAssumption DEF DevNode, Null
  <2>5. \A i \in 1 .. n + 1 : i = n + 1 \/ i \in 1 .. n
    BY <1>1
  <2>6. Len(root_nodes) <= nfiles + 1
    BY <1>1, <1>6, <2>3 DEF WalkInv
  <2> QED BY <1>1, <1>3, <1>6, <2>3, <2>4, <2>5, <2>6 DEF NodesOK
<1> QED BY <1>4, <1>5, <1>6 DEF WalkInv

(* The /dev node is there once root_nodes has it.                          *)
LEMMA DevSet ==
  ASSUME WalkInv, devfsSet
  PROVE  pc = "ready" /\ root_nodes = Append(FileNodes, DevNode)
<1>1. PICK i \in DOMAIN root_nodes : root_nodes[i].type = "devfs"
  BY DEF devfsSet
<1>2. pc = "ready"
  BY <1>1 DEF WalkInv
<1>3. root_nodes # FileNodes
  <2> SUFFICES ASSUME root_nodes = FileNodes PROVE FALSE
    OBVIOUS
  <2>1. i \in 1 .. Len(archive) /\ root_nodes[i] = FileNode(i)
    BY <1>1 DEF FileNodes
  <2>2. root_nodes[i].type = archive[i].type
    BY <2>1 DEF FileNode
  <2> QED BY <1>1, <2>1, <2>2, ArchiveType DEF WalkInv
<1> QED BY <1>2, <1>3 DEF WalkInv

LEMMA DevicesType ==
  Len(Devices) \in Nat \ {0} /\ \A i \in 1 .. Len(Devices) : Devices[i] \in Names
<1>1. Devices \in Seq(Names) /\ Devices # <<>>
  BY VfsAssumption DEF Names
<1> QED BY <1>1

LEMMA InitInv == Init => IInv
<1> SUFFICES ASSUME Init PROVE IInv
  OBVIOUS
<1>1. /\ archive \in Archives /\ pc = "list" /\ address = 0 /\ headers = <<>>
      /\ size = 1 /\ nfiles = 0 /\ root_nodes = <<>>
  BY DEF Init, Tar!Init
<1>2. Len(archive) \in Nat /\ Tar!offsetOf(archive, 1) = 0
  BY <1>1, ArchiveType, Offsets
<1>3. headers = Places(Len(headers)) /\ Len(headers) = 0
  BY <1>1 DEF Places
<1>4. WalkInv
  BY <1>1, <1>2, <1>3 DEF WalkInv
<1>5. ~ devfsSet /\ ~ booted
  BY <1>1 DEF devfsSet, booted
<1>6. ResultInv
  <2>1. named(result.name) = {}
    BY <1>1 DEF named
  <2> QED BY <2>1 DEF ResultInv
<1>7. devices \in Seq(DeviceNodes) /\ Len(devices) <= Len(Devices)
  BY VfsAssumption DEF Init
<1>8. stack \in Seq(Activations)
  BY DEF Init
<1>9. CallInv
  BY <1>5, <1>6, <1>7, <1>8 DEF Init, CallInv
<1> QED BY <1>4, <1>9 DEF IInv

-----------------------------------------------------------------------------
(* The walks.  The size read from a header leads to the next one.          *)
LEMMA WalkOn ==
  ASSUME WalkInv, NEW m \in Nat, address = Tar!offsetOf(archive, m + 1), m <= Len(archive)
  PROVE  /\ Tar!fileAt(address) = (IF m < Len(archive) THEN m + 1 ELSE 0)
         /\ m < Len(archive) =>
              Tar!next_header(address, Tar!headerSize(address))
                = Tar!offsetOf(archive, (m + 1) + 1)
<1> DEFINE k == m + 1
<1>1. archive \in Archives /\ Len(archive) \in Nat
  BY ArchiveType DEF WalkInv
<1>2. CASE m = Len(archive)
  <2>1. Tar!fileAt(Tar!offsetOf(archive, Len(archive) + 1)) = 0
    BY <1>1, FileFound
  <2> QED BY <1>1, <1>2, <2>1
<1>3. CASE m < Len(archive)
  <2>1. k \in 1 .. Len(archive) /\ k \in 1 .. Len(archive) + 1
    BY <1>1, <1>3
  <2> HIDE DEF k
  <2>2. address = Tar!offsetOf(archive, k)
    BY DEF k
  <2>3. Tar!fileAt(address) = k /\ address \in Nat
    BY <1>1, <2>1, <2>2, FileFound, Offsets
  <2>4. /\ Tar!headerSize(address) = Tar!value(archive[k].size)
        /\ Tar!value(archive[k].size) \in Nat
    BY <1>1, <2>1, <2>3, ArchiveType, SizeRead DEF Tar!headerSize
  <2> DEFINE z == Tar!padded(Tar!value(archive[k].size))
  <2>5. Tar!next_header(address, Tar!headerSize(address)) = address + BLOCK + z /\ z \in Nat
    BY <2>3, <2>4, HeaderStep
  <2>6. Tar!offsetOf(archive, k + 1) = address + (BLOCK + z)
    BY <1>1, <2>1, <2>2, Offsets DEF Space
  <2> HIDE DEF z
  <2>7. Tar!next_header(address, Tar!headerSize(address)) = Tar!offsetOf(archive, k + 1)
    BY <2>3, <2>5, <2>6, VfsAssumption
  <2> QED BY <1>3, <2>3, <2>7 DEF k
<1> QED BY <1>1, <1>2, <1>3

LEMMA WalkSame ==
  ASSUME WalkInv, UNCHANGED <<tarVars, root_nodes>>
  PROVE  WalkInv'
<1>1. /\ archive' = archive /\ pc' = pc /\ address' = address /\ headers' = headers
      /\ size' = size /\ nfiles' = nfiles /\ root_nodes' = root_nodes
  BY DEF tarVars
<1>2. Tar!offsetOf(archive, Len(headers) + 1)' = Tar!offsetOf(archive, Len(headers) + 1)
  BY <1>1
<1> QED BY <1>1 DEF WalkInv, Places, FileNodes, FileNode

LEMMA WalkKeeps ==
  ASSUME WalkInv, Tar!Next
  PROVE  /\ WalkInv' /\ root_nodes = <<>>
         /\ pc' # "ready" => root_nodes' = <<>>
<1> DEFINE n == Len(archive)
<1>1. archive \in Archives /\ n \in Nat
  BY ArchiveType DEF WalkInv
<1>2. CASE Tar!ListHeader
  <2>0. PICK m : m = Len(headers)
    OBVIOUS
  <2>1. /\ m \in 0 .. n /\ headers = Places(m) /\ nfiles = 0 /\ root_nodes = <<>>
        /\ address = Tar!offsetOf(archive, m + 1) /\ pc = "list"
        /\ size \in Nat \ {0} /\ m <= size
    BY <1>2, <2>0 DEF WalkInv, Tar!ListHeader
  <2>2. /\ archive' = archive /\ pc' = pc /\ nfiles' = nfiles /\ root_nodes' = root_nodes
        /\ size' = (IF m = size THEN size * 2 ELSE size)
        /\ headers' = Append(headers, address) /\ Tar!fileAt(address) # 0
        /\ address' = Tar!next_header(address, Tar!headerSize(address))
    BY <1>2, <2>0 DEF Tar!ListHeader, Tar!grown
  <2>3. m < n /\ address' = Tar!offsetOf(archive, (m + 1) + 1)
    BY <1>1, <2>1, <2>2, WalkOn
  <2>4. headers' = Places(m + 1) /\ Len(headers') = m + 1
    <3>1. \A k \in 1 .. m : Places(m)[k] \in Nat
      BY <1>1, <2>1, Offsets DEF Places
    <3>2. address \in Nat
      BY <1>1, <2>1, Offsets
    <3>3. headers \in Seq(Nat) /\ Len(headers) = m
      <4>1. Places(m) \in Seq(Nat)
        BY <2>1, <3>1 DEF Places
      <4> QED BY <2>0, <2>1, <4>1
    <3>4. \A k \in 1 .. m : headers[k] = Tar!offsetOf(archive, k)
      BY <2>1 DEF Places
    <3>5. \A k \in 1 .. m + 1 : k \in 1 .. m \/ k = m + 1
      BY <2>1
    <3>6. /\ DOMAIN headers' = 1 .. m + 1 /\ headers' \in Seq(Nat) /\ Len(headers') = m + 1
          /\ \A k \in 1 .. m + 1 : headers'[k] = Tar!offsetOf(archive, k)
      BY <2>1, <2>2, <3>2, <3>3, <3>4, <3>5
    <3>7. headers' = [k \in 1 .. m + 1 |-> headers'[k]]
      BY <3>6
    <3> QED BY <3>6, <3>7 DEF Places
  <2>5. size' \in Nat \ {0} /\ m + 1 <= size'
    BY <2>1, <2>2
  <2>6. m + 1 \in 0 .. n
    BY <1>1, <2>1, <2>3
  <2>7. Places(m + 1)' = Places(m + 1)
    BY <2>2 DEF Places
  <2>8. WalkInv'
    BY <1>1, <2>1, <2>2, <2>3, <2>4, <2>5, <2>6, <2>7 DEF WalkInv, Places
  <2> QED BY <2>1, <2>2, <2>8
<1>3. CASE Tar!EndList
  <2> DEFINE m == Len(headers)
  <2>1. /\ m \in 0 .. n /\ headers = Places(m) /\ nfiles = 0 /\ root_nodes = <<>>
        /\ address = Tar!offsetOf(archive, m + 1) /\ pc = "list"
    BY <1>3 DEF WalkInv, Tar!EndList
  <2>2. /\ archive' = archive /\ pc' = "count" /\ nfiles' = nfiles /\ headers' = headers
        /\ root_nodes' = root_nodes /\ size' = size /\ address' = 0
        /\ Tar!fileAt(address) = 0
    BY <1>3 DEF Tar!EndList
  <2> HIDE DEF m
  <2>3. m = n
    BY <1>1, <2>1, <2>2, WalkOn
  <2>4. address' = Tar!offsetOf(archive, 0 + 1)
    BY <1>1, <2>2, Offsets
  <2>5. WalkInv'
    BY <1>1, <2>1, <2>2, <2>3, <2>4 DEF WalkInv, Places
  <2> QED BY <2>1, <2>2, <2>5
<1>4. CASE Tar!CountHeader
  <2>1. /\ nfiles \in 0 .. n /\ address = Tar!offsetOf(archive, nfiles + 1)
        /\ headers = Places(n) /\ root_nodes = <<>> /\ pc = "count"
    BY <1>4 DEF WalkInv, Tar!CountHeader
  <2>2. /\ archive' = archive /\ pc' = pc /\ nfiles' = nfiles + 1 /\ headers' = headers
        /\ root_nodes' = root_nodes /\ size' = size /\ Tar!fileAt(address) # 0
        /\ address' = Tar!next_header(address, Tar!headerSize(address))
    BY <1>4 DEF Tar!CountHeader
  <2>3. nfiles < n /\ address' = Tar!offsetOf(archive, (nfiles + 1) + 1)
    BY <1>1, <2>1, <2>2, WalkOn
  <2>4. nfiles' \in 0 .. n
    BY <1>1, <2>1, <2>2, <2>3
  <2>5. WalkInv'
    BY <1>1, <2>1, <2>2, <2>3, <2>4 DEF WalkInv, Places
  <2> QED BY <2>1, <2>2, <2>5
<1>5. CASE Tar!EndCount
  <2>1. /\ nfiles \in 0 .. n /\ address = Tar!offsetOf(archive, nfiles + 1)
        /\ headers = Places(n) /\ root_nodes = <<>> /\ pc = "count"
    BY <1>5 DEF WalkInv, Tar!EndCount
  <2>2. /\ archive' = archive /\ pc' = "build" /\ nfiles' = nfiles /\ headers' = headers
        /\ root_nodes' = root_nodes /\ size' = size /\ Tar!fileAt(address) = 0
        /\ address' = address
    BY <1>5 DEF Tar!EndCount
  <2>3. nfiles = n
    BY <1>1, <2>1, <2>2, WalkOn
  <2>4. WalkInv'
    BY <1>1, <2>1, <2>2, <2>3 DEF WalkInv, Places
  <2> QED BY <2>1, <2>2, <2>4
<1>6. CASE Tar!Build
  <2>1. /\ nfiles = n /\ address = Tar!offsetOf(archive, nfiles + 1)
        /\ headers = Places(n) /\ root_nodes = <<>> /\ pc = "build"
    BY <1>6 DEF WalkInv, Tar!Build
  <2>2. /\ archive' = archive /\ pc' = "ready" /\ nfiles' = nfiles /\ headers' = headers
        /\ size' = size /\ address' = address
        /\ root_nodes' = [i \in 1 .. nfiles |-> Tar!node(i)]
    BY <1>6 DEF Tar!Build
  <2>3. ASSUME NEW i \in 1 .. n PROVE Tar!node(i) = FileNode(i)
    <3>1. headers[i] = Tar!offsetOf(archive, i)
      BY <2>1 DEF Places
    <3>2. Tar!fileAt(headers[i]) = i
      BY <1>1, <3>1, FileFound
    <3>3. Tar!headerSize(headers[i]) = Tar!value(archive[i].size)
      BY <1>1, <3>2, ArchiveType, SizeRead DEF Tar!headerSize
    <3> QED BY <3>2, <3>3 DEF Tar!node, FileNode
  <2>4. root_nodes' = FileNodes
    BY <2>1, <2>2, <2>3 DEF FileNodes
  <2>5. FileNodes' = FileNodes
    BY <2>2 DEF FileNodes, FileNode
  <2>6. WalkInv'
    BY <1>1, <2>1, <2>2, <2>4, <2>5 DEF WalkInv, Places
  <2> QED BY <2>1, <2>2, <2>6
<1> QED BY <1>2, <1>3, <1>4, <1>5, <1>6 DEF Tar!Next

-----------------------------------------------------------------------------
(* Until the boot is over no call is under way: what the boot does keeps   *)
(* the rest.                                                               *)
LEMMA BootKeeps ==
  ASSUME IInv, WalkInv', ~ booted,
         UNCHANGED <<initrd_readdir_call, stack, call, path, result, directory, temp, listed>>,
         devices' \in Seq(DeviceNodes), Len(devices') <= Len(Devices)
  PROVE  CallInv'
<1>1. /\ call = "idle" /\ result = Null
  BY DEF IInv, CallInv
<1>2. ResultInv'
  <2>1. NodesOK'
    BY NodesSound, PTL
  <2>2. named(result.name)' = {}
    BY <1>1, <2>1 DEF named, Null, NodesOK
  <2> QED BY <2>2 DEF ResultInv
<1> QED BY <1>1, <1>2 DEF IInv, CallInv

LEMMA WalkStepKeeps ==
  ASSUME IInv, Tar!Next, UNCHANGED fsVars
  PROVE  IInv'
<1>1. WalkInv' /\ root_nodes = <<>>
  BY WalkKeeps DEF IInv
<1>2. ~ booted
  BY <1>1 DEF booted, devfsSet
<1>3. /\ UNCHANGED <<initrd_readdir_call, stack, call, path, result, directory, temp, listed>>
      /\ devices' = devices
  BY DEF fsVars, shellVars
<1>4. devices' \in Seq(DeviceNodes) /\ Len(devices') <= Len(Devices)
  BY <1>3 DEF IInv, CallInv
<1>5. CallInv'
  BY <1>1, <1>2, <1>3, <1>4, BootKeeps
<1> QED BY <1>1, <1>5 DEF IInv

LEMMA SetDevNodeKeeps ==
  ASSUME IInv, SetDevNode
  PROVE  IInv'
<1>1. /\ pc = "ready" /\ ~ devfsSet /\ root_nodes' = Append(root_nodes, DevNode)
      /\ UNCHANGED <<archive, pc, address, headers, size, nfiles>> /\ devices' = devices
      /\ UNCHANGED <<initrd_readdir_call, stack, call, path, result, directory, temp, listed>>
  BY DEF SetDevNode, tarVars, fsVars, shellVars, DevNode
<1>2. root_nodes = FileNodes
  <2> SUFFICES ASSUME root_nodes = Append(FileNodes, DevNode) PROVE FALSE
    BY <1>1 DEF IInv, WalkInv
  <2>1. Len(archive) \in Nat
    BY ArchiveType DEF IInv, WalkInv
  <2> DEFINE S == {FileNode(k) : k \in 1 .. Len(archive)}
  <2>2. FileNodes \in Seq(S)
    <3>1. \A k \in 1 .. Len(archive) : FileNode(k) \in S
      OBVIOUS
    <3> HIDE DEF S
    <3> QED BY <2>1, <3>1 DEF FileNodes
  <2>3. Len(root_nodes) \in DOMAIN root_nodes /\ root_nodes[Len(root_nodes)] = DevNode
    <3> HIDE DEF S
    <3>1. FileNodes \in Seq(S \cup {DevNode})
      BY <2>2
    <3> QED BY <3>1
  <2>4. DevNode.type = "devfs"
    BY DEF DevNode
  <2> QED BY <1>1, <2>3, <2>4 DEF devfsSet
<1>3. FileNodes' = FileNodes
  BY <1>1 DEF FileNodes, FileNode
<1>4. WalkInv'
  BY <1>1, <1>2, <1>3 DEF IInv, WalkInv, Places, DevNode
<1>5. devices' \in Seq(DeviceNodes) /\ Len(devices') <= Len(Devices)
  BY <1>1 DEF IInv, CallInv
<1>6. ~ booted
  BY <1>1 DEF booted
<1>7. CallInv'
  BY <1>1, <1>4, <1>5, <1>6, BootKeeps
<1> QED BY <1>4, <1>7 DEF IInv

LEMMA RegisterDeviceKeeps ==
  ASSUME IInv, RegisterDevice
  PROVE  IInv'
<1>1. /\ ~ booted /\ devfsSet
      /\ UNCHANGED <<initrd_readdir_call, stack, call, path, result, directory, temp, listed>>
      /\ UNCHANGED <<tarVars, root_nodes>>
  BY DEF RegisterDevice, shellVars
<1>2. PICK kind \in {"file", "device_directory", "device"} :
        devices' = Append(devices, [name |-> Devices[Len(devices) + 1], type |-> kind])
  BY DEF RegisterDevice
<1>3. devices \in Seq(DeviceNodes) /\ Len(devices) <= Len(Devices) /\ Len(devices) \in Nat
  BY DEF IInv, CallInv
<1>4. Len(devices) + 1 \in 1 .. Len(Devices)
  <2>1. Len(devices) # Len(Devices)
    BY <1>1 DEF booted
  <2> QED BY <1>3, <2>1, DevicesType
<1>5. [name |-> Devices[Len(devices) + 1], type |-> kind] \in DeviceNodes
  BY <1>2, <1>4, DevicesType DEF DeviceNodes
<1>6. devices' \in Seq(DeviceNodes) /\ Len(devices') <= Len(Devices)
  <2> DEFINE d == [name |-> Devices[Len(devices) + 1], type |-> kind]
  <2>1. d \in DeviceNodes /\ devices' = Append(devices, d)
    BY <1>2, <1>5
  <2> HIDE DEF d
  <2>2. devices' \in Seq(DeviceNodes) /\ Len(devices') = Len(devices) + 1
    BY <1>3, <2>1
  <2> QED BY <1>3, <1>4, <2>2, DevicesType
<1>7. WalkInv'
  BY <1>1, WalkSame DEF IInv
<1>8. CallInv'
  BY <1>1, <1>6, <1>7, BootKeeps
<1> QED BY <1>7, <1>8 DEF IInv

-----------------------------------------------------------------------------
(* Once the boot is over the nodes stay as they are.                       *)
LEMMA CallFrame ==
  ASSUME IInv, UNCHANGED <<tarVars, root_nodes, devices>>
  PROVE  /\ WalkInv' /\ (booted' <=> booted)
         /\ \A p : named(p)' = named(p)
<1>1. WalkInv'
  BY WalkSame DEF IInv
<1>2. root_nodes' = root_nodes /\ devices' = devices
  OBVIOUS
<1> QED BY <1>1, <1>2 DEF booted, devfsSet, named

LEMMA OpenKeeps ==
  ASSUME IInv, NEW p \in Paths, Open(p)
  PROVE  IInv'
<1>1. /\ UNCHANGED <<tarVars, root_nodes, devices>> /\ booted /\ call' = "open"
      /\ path' = p /\ stack' = <<[fs |-> "initrd", index |-> 0]>>
      /\ initrd_readdir_call' = initrd_readdir_call /\ result' = result
      /\ devices' = devices /\ UNCHANGED <<directory, temp>>
  BY DEF Open, shellVars
<1>2. WalkInv' /\ booted'
  BY <1>1, CallFrame
<1>3. /\ stack' \in Seq(Activations) /\ stack' # <<>>
      /\ Len(stack') = 1 /\ stack'[1] = [fs |-> "initrd", index |-> 0]
  BY <1>1 DEF Activations
<1>4. \A i \in 1 .. Len(stack') : Passed(stack[i])'
  BY <1>1, <1>3 DEF Passed
<1>5. CallInv'
  BY <1>1, <1>2, <1>3, <1>4 DEF IInv, CallInv
<1> QED BY <1>2, <1>5 DEF IInv

(* The shell moves between its calls only.                                 *)
LEMMA CdKeeps ==
  ASSUME IInv, NEW d \in Directories \cup {"none"}, Cd(d)
  PROVE  IInv'
<1>1. /\ UNCHANGED <<tarVars, root_nodes, devices>> /\ call = "idle" /\ call' = "idle"
      /\ UNCHANGED <<initrd_readdir_call, stack, path, result, temp>>
      /\ directory' = d /\ root_nodes' = root_nodes /\ devices' = devices
  BY DEF Cd
<1>2. WalkInv' /\ (booted' <=> booted)
  BY <1>1, CallFrame
<1>3. ResultInv'
  BY <1>1 DEF IInv, CallInv, ResultInv, named
<1>4. CallInv'
  BY <1>1, <1>2, <1>3 DEF IInv, CallInv
<1> QED BY <1>2, <1>4 DEF IInv

(* A child that is printed comes after the lines there are.                *)
LEMMA LinesRound ==
  ASSUME NEW nodes, Len(nodes) \in Nat, NEW i \in 0 .. Len(nodes), i < Len(nodes),
         NEW lines, ListedOK(nodes, i, lines)
  PROVE  ListedOK(nodes, i + 1,
                  IF prints(nodes[i + 1].name)
                  THEN Append(lines, [index |-> i, name |-> nodes[i + 1].name])
                  ELSE lines)
<1> DEFINE N == {nodes[k].name : k \in 1 .. Len(nodes)}
           T == [index : Nat, name : N]
           line(j) == [index |-> j - 1, name |-> nodes[j].name]
           D(m) == {k \in 1 .. m : prints(nodes[k].name)}
           e == [index |-> i, name |-> nodes[i + 1].name]
<1>1. i \in Nat /\ i + 1 \in 1 .. Len(nodes) /\ i + 1 - 1 = i
  OBVIOUS
<1>2. e \in T /\ e.index = i /\ e = line(i + 1)
  BY <1>1
<1>3. /\ lines \in Seq(T) /\ {lines[k] : k \in DOMAIN lines} = {line(j) : j \in D(i)}
      /\ \A a, b \in DOMAIN lines : a < b => lines[a].index < lines[b].index
  BY DEF ListedOK, Lines, inOrder
<1>4. CASE ~ prints(nodes[i + 1].name)
  <2>1. D(i + 1) = D(i)
    BY <1>1, <1>4
  <2> QED BY <1>4, <2>1 DEF ListedOK, Lines
<1>5. CASE prints(nodes[i + 1].name)
  <2> DEFINE g == Append(lines, e)
  <2>1. D(i + 1) = D(i) \cup {i + 1}
    BY <1>1, <1>5
  <2>2. {line(j) : j \in D(i + 1)} = {line(j) : j \in D(i)} \cup {e}
    <3> HIDE DEF line, D, e
    <3> QED BY <1>2, <2>1
  <2>3. \A k \in DOMAIN lines : lines[k].index < i
    <3> SUFFICES ASSUME NEW k \in DOMAIN lines PROVE lines[k].index < i
      OBVIOUS
    <3>1. PICK j \in D(i) : lines[k] = line(j)
      BY <1>3
    <3> QED BY <1>1, <3>1
  <2> HIDE DEF T, e, line, D
  <2>4. /\ g \in Seq(T) /\ Len(g) = Len(lines) + 1 /\ Len(lines) \in Nat
        /\ DOMAIN g = DOMAIN lines \cup {Len(lines) + 1}
        /\ DOMAIN lines = 1 .. Len(lines)
        /\ \A k \in DOMAIN lines : g[k] = lines[k]
        /\ g[Len(lines) + 1] = e
    BY <1>2, <1>3
  <2> HIDE DEF g
  <2>5. {g[k] : k \in DOMAIN g} = {lines[k] : k \in DOMAIN lines} \cup {e}
    BY <2>4
  <2>6. ASSUME NEW a \in DOMAIN g, NEW b \in DOMAIN g, a < b
        PROVE  g[a].index < g[b].index
    <3>1. a \in DOMAIN lines
      BY <2>4, <2>6
    <3>2. CASE b \in DOMAIN lines
      BY <1>3, <2>4, <2>6, <3>1, <3>2
    <3>3. CASE b = Len(lines) + 1
      BY <1>2, <2>3, <2>4, <3>1, <3>3
    <3> QED BY <2>4, <3>2, <3>3
  <2>7. ListedOK(nodes, i + 1, g)
    <3>1. inOrder(g)
      BY <2>6 DEF inOrder
    <3>2. {g[k] : k \in DOMAIN g} = Lines(nodes, i + 1)
      BY <1>3, <2>2, <2>5 DEF Lines, line, D
    <3> QED BY <2>4, <3>1, <3>2 DEF ListedOK, T
  <2> QED BY <1>5, <2>7 DEF g, e
<1> QED BY <1>4, <1>5

LEMMA ListKeeps ==
  ASSUME IInv, NEW fs \in {"initrd", "devfs"}, NEW t \in {"none", DevName}, List(fs, t)
  PROVE  IInv'
<1>1. /\ UNCHANGED <<tarVars, root_nodes, devices>> /\ booted /\ call' = "ls"
      /\ path' = DevName /\ stack' = <<[fs |-> fs, index |-> 0]>> /\ listed' = <<>>
      /\ initrd_readdir_call' = initrd_readdir_call /\ result' = result
      /\ devices' = devices /\ root_nodes' = root_nodes /\ call = "idle"
      /\ temp' = t /\ directory' = directory
  BY DEF List
<1>2. WalkInv' /\ booted'
  BY <1>1, CallFrame
<1>3. /\ stack' \in Seq(Activations)
      /\ Len(stack') = 1 /\ stack'[1] = [fs |-> fs, index |-> 0]
  BY <1>1 DEF Activations
<1>4. ListInv'
  <2>1. NodesOK
    BY NodesSound DEF IInv
  <2>2. Len(root_nodes) \in Nat
    BY <2>1 DEF NodesOK
  <2>3. Len(devices) \in Nat
    BY DEF IInv, CallInv
  <2>4. stack'[1].fs = fs /\ Index' = 0
    BY <1>3 DEF Index
  <2>5. Children' \in {root_nodes, devices}
    BY <1>1 DEF Children
  <2>6. Len(Children') \in Nat
    BY <2>2, <2>3, <2>5
  <2>7. PICK nodes : nodes = Children'
    OBVIOUS
  <2>8. ListedOK(nodes, 0, listed)'
    <3>1. Lines(nodes, 0)' = {}
      BY DEF Lines
    <3>2. DOMAIN listed' = {} /\ listed' = <<>>
      BY <1>1
    <3> QED BY <3>1, <3>2 DEF ListedOK, inOrder
  <2> HIDE DEF Index, Children
  <2> QED BY <1>3, <2>4, <2>6, <2>7, <2>8 DEF ListInv
<1>5. ResultInv'
  BY <1>1 DEF IInv, CallInv, ResultInv, named
<1>6. CallInv'
  BY <1>1, <1>2, <1>3, <1>4, <1>5 DEF IInv, CallInv
<1> QED BY <1>2, <1>6 DEF IInv

-----------------------------------------------------------------------------
(* The activations after a round of a loop.                                *)
LEMMA StackRound ==
  ASSUME stack \in Seq(Activations), stack # <<>>
  PROVE  /\ Len(stack) \in Nat \ {0} /\ top \in Activations
         /\ advanced \in Seq(Activations) /\ Len(advanced) = Len(stack)
         /\ \A i \in 1 .. Len(stack) - 1 : advanced[i] = stack[i]
         /\ advanced[Len(stack)] = [fs |-> top.fs, index |-> top.index + 1]
         /\ Front(stack) \in Seq(Activations) /\ Len(Front(stack)) = Len(stack) - 1
         /\ \A i \in 1 .. Len(stack) - 1 : Front(stack)[i] = stack[i]
<1> DEFINE n == Len(stack)
           a == [fs |-> top.fs, index |-> top.index + 1]
<1>1. n \in Nat \ {0} /\ DOMAIN stack = 1 .. n /\ \A i \in 1 .. n : stack[i] \in Activations
  OBVIOUS
<1>2. top \in Activations
  BY <1>1 DEF top
<1>3. [stack[n] EXCEPT !.index = @ + 1] = a
  BY <1>2 DEF top, Activations
<1>4. a \in Activations
  BY <1>2 DEF Activations
<1> HIDE DEF a
<1>5. advanced = [stack EXCEPT ![n] = a]
  BY <1>1, <1>3 DEF advanced
<1>6. /\ advanced \in Seq(Activations) /\ Len(advanced) = n
      /\ \A i \in 1 .. n - 1 : advanced[i] = stack[i]
      /\ advanced[n] = a
  <2>1. \A i \in 1 .. n : advanced[i] = IF i = n THEN a ELSE stack[i]
    BY <1>1, <1>5
  <2>2. advanced = [i \in 1 .. n |-> advanced[i]]
    BY <1>1, <1>5
  <2>3. \A i \in 1 .. n : advanced[i] \in Activations
    BY <1>1, <1>4, <2>1
  <2> DEFINE f == [i \in 1 .. n |-> advanced[i]]
  <2>4. f \in Seq(Activations) /\ Len(f) = n
    BY <1>1, <2>3
  <2>5. advanced = f
    BY <2>2
  <2> HIDE DEF f
  <2>6. advanced[n] = a /\ \A i \in 1 .. n - 1 : advanced[i] = stack[i]
    <3> HIDE DEF n
    <3>1. n \in 1 .. n /\ \A i \in 1 .. n - 1 : i \in 1 .. n /\ i # n
      BY <1>1
    <3> QED BY <2>1, <3>1
  <2> QED BY <2>4, <2>5, <2>6
<1>7. /\ Front(stack) \in Seq(Activations) /\ Len(Front(stack)) = n - 1
      /\ \A i \in 1 .. n - 1 : Front(stack)[i] = stack[i]
  BY <1>1 DEF Front
<1> QED BY <1>1, <1>2, <1>6, <1>7 DEF a

(* A name nobody has.                                                      *)
LEMMA NobodyNamed ==
  ASSUME NodesOK, NEW p
  PROVE  named(p) = {} <=> \A j \in 1 .. Len(root_nodes) : root_nodes[j].name # p
  BY DEF named, NodesOK

(* A round of vfs_search_node reads nothing more, when nobody has the      *)
(* name; the next node of the archive; or a device, when no node has the   *)
(* name.                                                                   *)
LEMMA SearchReads ==
  ASSUME IInv, call = "open"
  PROVE  /\ read.flag \in BOOLEAN
         /\ \/ read.child = Null /\ named(path) = {}
            \/ /\ top.fs = "initrd" /\ top.index + 1 \in 1 .. Len(root_nodes)
               /\ read.child = root_nodes[top.index + 1]
            \/ /\ top.fs # "initrd" /\ named(path) = {}
               /\ \E i \in 1 .. Len(devices) : read.child = devices[i]
<1>1. stack \in Seq(Activations) /\ stack # <<>> /\ initrd_readdir_call \in BOOLEAN
  BY DEF IInv, CallInv
<1>2. top \in Activations /\ Len(stack) \in Nat \ {0}
  BY <1>1, StackRound
<1>3. Passed(top)
  BY <1>2 DEF IInv, CallInv, top
<1>4. NodesOK /\ Len(root_nodes) \in Nat
  BY NodesSound DEF IInv, NodesOK
<1>5. devices \in Seq(DeviceNodes) /\ Len(devices) = Len(Devices) /\ Len(devices) \in Nat \ {0}
  BY DevicesType DEF IInv, CallInv, booted
<1>6. CASE top.fs = "initrd"
  <2>1. /\ read.flag = TRUE
        /\ read.child = IF top.index >= Len(root_nodes) THEN Null
                        ELSE root_nodes[top.index + 1]
    BY <1>6 DEF read, readdir_fs, initrd_readdir, nroot_nodes
  <2>2. top.index \in Nat
    BY <1>2 DEF Activations
  <2>3. CASE top.index >= Len(root_nodes)
    <3>1. \A j \in 1 .. Len(root_nodes) : root_nodes[j].name # path
      BY <1>3, <1>4, <2>2, <2>3 DEF Passed
    <3> QED BY <1>4, <2>1, <2>3, <3>1, NobodyNamed
  <2>4. CASE ~ (top.index >= Len(root_nodes))
    <3>1. top.index + 1 \in 1 .. Len(root_nodes)
      BY <1>4, <2>2, <2>4
    <3> QED BY <1>6, <2>1, <2>4, <3>1
  <2> QED BY <2>3, <2>4
<1>7. CASE top.fs # "initrd"
  <2>1. named(path) = {}
    BY <1>3, <1>4, <1>7, NobodyNamed DEF Passed
  <2>2. CASE top.fs = "devfs"
    <3>1. top.index \in Nat
      BY <1>2 DEF Activations
    <3>2. read = devfs_readdir(top.index)
      BY <2>2 DEF read, readdir_fs
    <3>3. CASE top.index < Len(devices)
      <4>1. read.child = devices[top.index + 1] /\ read.flag = FALSE
        BY <3>2, <3>3 DEF devfs_readdir
      <4>2. top.index + 1 \in 1 .. Len(devices)
        BY <1>5, <3>1, <3>3
      <4> QED BY <1>7, <2>1, <4>1, <4>2
    <3>4. CASE ~ (top.index < Len(devices)) /\ initrd_readdir_call
      <4>1. read.child = devices[1] /\ read.flag = FALSE
        BY <3>2, <3>4 DEF devfs_readdir
      <4>2. 1 \in 1 .. Len(devices)
        BY <1>5
      <4> QED BY <1>7, <2>1, <4>1, <4>2
    <3>5. CASE ~ (top.index < Len(devices)) /\ ~ initrd_readdir_call
      <4>1. read.child = Null /\ read.flag = FALSE
        BY <3>2, <3>5 DEF devfs_readdir
      <4> QED BY <2>1, <4>1
    <3> QED BY <3>3, <3>4, <3>5
  <2>3. CASE top.fs # "devfs"
    <3>1. read.child = Null /\ read.flag = initrd_readdir_call
      BY <1>7, <2>3 DEF read, readdir_fs
    <3> QED BY <1>1, <2>1, <3>1
  <2> QED BY <2>2, <2>3
<1> QED BY <1>6, <1>7

(* What a round of the search does: it goes on, past what does not match;  *)
(* it ends with what matches; or it ends with nothing.                     *)
Kept(s) == s \in Seq(Activations) /\ \A i \in 1 .. Len(s) : Passed(s[i])

LEMMA SearchRound ==
  ASSUME IInv, SearchStep
  PROVE  /\ initrd_readdir_call' \in BOOLEAN
         /\ Kept(stack')
         /\ stack' = <<>> =>
              \/ result' = Null /\ named(path) = {}
              \/ named(path) = {} /\ path \in deviceNames
                  /\ (result'.name = path \/ result' = Null)
              \/ /\ named(path) # {}
                 /\ result' = LET node == root_nodes[Min(named(path))]
                              IN  IF node.type = "file" THEN node ELSE Null
<1>0. PICK c : c = read.child
  OBVIOUS
<1>1. /\ call = "open" /\ stack # <<>> /\ initrd_readdir_call' = read.flag
      /\ c = Null => stack' = Front(stack)
      /\ c # Null /\ c.name = path => stack' = <<>>
      /\ c # Null /\ c.name # path /\ isDirectory(c) => stack' = enter(c)
      /\ c # Null /\ c.name # path /\ ~ isDirectory(c) => stack' = advanced
      /\ result' = IF c.name = path /\ c.type = "file" THEN c ELSE Null
  BY <1>0 DEF SearchStep
<1>2. stack \in Seq(Activations) /\ \A i \in 1 .. Len(stack) : Passed(stack[i])
  BY <1>1 DEF IInv, CallInv
<1>3. /\ Len(stack) \in Nat \ {0} /\ top \in Activations
      /\ advanced \in Seq(Activations) /\ Len(advanced) = Len(stack)
      /\ \A i \in 1 .. Len(stack) - 1 : advanced[i] = stack[i]
      /\ advanced[Len(stack)] = [fs |-> top.fs, index |-> top.index + 1]
      /\ Front(stack) \in Seq(Activations) /\ Len(Front(stack)) = Len(stack) - 1
      /\ \A i \in 1 .. Len(stack) - 1 : Front(stack)[i] = stack[i]
  BY <1>1, <1>2, StackRound
<1>4. Passed(top) /\ NodesOK /\ Len(root_nodes) \in Nat
  <2>1. Passed(top)
    BY <1>2, <1>3 DEF top
  <2>2. NodesOK
    BY NodesSound DEF IInv
  <2>3. Len(root_nodes) \in Nat
    BY <2>2 DEF NodesOK
  <2> QED BY <2>1, <2>2, <2>3
<1>5. initrd_readdir_call' \in BOOLEAN
  BY <1>1, SearchReads
<1>6. CASE c = Null
  <2>1. \A i \in 1 .. Len(root_nodes) : root_nodes[i].name # Null.name
    BY <1>4 DEF NodesOK, Null
  <2>2. \A i \in 1 .. Len(devices) : devices[i].name # Null.name
    <3>1. devices \in Seq(DeviceNodes)
      BY DEF IInv, CallInv
    <3>2. \A i \in 1 .. Len(devices) : devices[i] \in DeviceNodes
      BY <3>1
    <3> QED BY <3>2 DEF DeviceNodes, Names
  <2>3. named(path) = {}
    BY <1>0, <1>1, <1>6, <2>1, <2>2, SearchReads
  <2>4. result' = Null /\ stack' = Front(stack)
    <3>1. Null.type # "file"
      BY DEF Null
    <3> QED BY <1>1, <1>6, <3>1
  <2>5. Kept(stack')
    BY <1>2, <1>3, <2>4 DEF Kept
  <2> QED BY <1>5, <2>3, <2>4, <2>5
<1>7. CASE /\ top.fs = "initrd" /\ top.index + 1 \in 1 .. Len(root_nodes)
           /\ c = root_nodes[top.index + 1]
  <2> DEFINE k == top.index + 1
  <2>1. c # Null
    <3>1. Null.name = "none" /\ c.name # "none"
      BY <1>4, <1>7 DEF NodesOK, Null
    <3> QED BY <3>1
  <2>2. top.index \in Nat /\ k \in Nat /\ Len(root_nodes) \in Nat
    BY <1>3, <1>4 DEF Activations
  <2>3. \A j \in 1 .. k - 1 : root_nodes[j].name # path
    BY <1>4, <1>7, <2>2 DEF Passed
  <2>4. CASE root_nodes[k].name = path
    <3>1. stack' = <<>>
      BY <1>1, <1>7, <2>1, <2>4
    <3>2. k \in named(path) /\ named(path) \subseteq 1 .. Len(root_nodes)
      BY <1>4, <1>7, <2>4 DEF named, NodesOK
    <3>3. Min(named(path)) = k
      <4>1. /\ Min(named(path)) \in named(path) /\ Min(named(path)) <= k
        BY <2>2, <3>2, MinOfNat
      <4>2. ~ (Min(named(path)) \in 1 .. k - 1)
        BY <2>3, <4>1 DEF named
      <4> QED BY <2>2, <3>2, <4>1, <4>2
    <3>4. result' = IF root_nodes[k].type = "file" THEN root_nodes[k] ELSE Null
      BY <1>1, <1>7, <2>4
    <3>5. Kept(stack')
      BY <3>1 DEF Kept
    <3> QED BY <1>5, <3>2, <3>3, <3>4, <3>5
  <2>5. CASE root_nodes[k].name # path
    <3>1. \A j \in 1 .. k : root_nodes[j].name # path
      <4>1. \A j \in 1 .. k : j = k \/ j \in 1 .. k - 1
        BY <2>2
      <4> QED BY <2>3, <2>5, <4>1
    <3>2. \A a : a.fs = "initrd" /\ a.index = k => Passed(a)
      BY <2>2, <3>1 DEF Passed
    <3>3. Kept(advanced)
      <4>1. Passed(advanced[Len(stack)])
        BY <1>3, <1>7, <3>2
      <4>2. \A i \in 1 .. Len(stack) : i = Len(stack) \/ i \in 1 .. Len(stack) - 1
        BY <1>3
      <4> QED BY <1>2, <1>3, <4>1, <4>2 DEF Kept
    <3>4. CASE isDirectory(root_nodes[k])
      <4> DEFINE a == [fs |-> callback(root_nodes[k]), index |-> k]
      <4>1. stack' = Append(advanced, a)
        BY <1>1, <1>7, <2>1, <2>5, <3>4 DEF enter
      <4>2. \/ root_nodes[k].type = "devfs" /\ k = Len(root_nodes)
            \/ root_nodes[k].type \in {"file", "dir"}
        BY <1>4, <1>7 DEF NodesOK
      <4>3. a \in Activations /\ Passed(a)
        <5>1. CASE root_nodes[k].type = "devfs" /\ k = Len(root_nodes)
          <6>1. a = [fs |-> "devfs", index |-> k]
            BY <5>1 DEF callback
          <6> QED BY <2>2, <3>1, <5>1, <6>1 DEF Passed, Activations
        <5>2. CASE root_nodes[k].type \in {"file", "dir"}
          <6>1. a = [fs |-> "initrd", index |-> k]
            BY <5>2 DEF callback
          <6> QED BY <2>2, <3>2, <6>1 DEF Activations
        <5> QED BY <4>2, <5>1, <5>2
      <4> HIDE DEF a
      <4>4. Kept(stack') /\ stack' # <<>>
        <5>1. /\ stack' \in Seq(Activations) /\ Len(stack') = Len(advanced) + 1
              /\ stack'[Len(advanced) + 1] = a
              /\ \A i \in 1 .. Len(advanced) : stack'[i] = advanced[i]
          BY <1>3, <4>1, <4>3
        <5>2. \A i \in 1 .. Len(stack') : i = Len(advanced) + 1 \/ i \in 1 .. Len(advanced)
          BY <1>3, <5>1
        <5>3. stack' # <<>>
          BY <1>3, <5>1
        <5> QED BY <3>3, <4>3, <5>1, <5>2, <5>3 DEF Kept
      <4> QED BY <1>5, <4>4
    <3>5. CASE ~ isDirectory(root_nodes[k])
      <4>1. stack' = advanced
        BY <1>1, <1>7, <2>1, <2>5, <3>5
      <4>2. advanced # <<>>
        BY <1>3
      <4> QED BY <1>5, <3>3, <4>1, <4>2
    <3> QED BY <3>4, <3>5
  <2> QED BY <2>4, <2>5
<1>8. CASE /\ top.fs # "initrd" /\ named(path) = {}
           /\ \E i \in 1 .. Len(devices) : c = devices[i]
  <2>1. PICK i \in 1 .. Len(devices) : c = devices[i]
    BY <1>8
  <2>2. devices \in Seq(DeviceNodes) /\ devices[i] \in DeviceNodes
    BY DEF IInv, CallInv
  <2>3. c # Null
    BY <2>1, <2>2 DEF DeviceNodes, Names
  <2>4. \A a : Passed(a)
    BY <1>4, <1>8, NobodyNamed DEF Passed
  <2>5. CASE devices[i].name = path
    <3>1. stack' = <<>> /\ path \in deviceNames
      BY <1>1, <2>1, <2>2, <2>3, <2>5 DEF deviceNames
    <3>2. result'.name = path \/ result' = Null
      BY <1>1, <2>1, <2>5
    <3> QED BY <1>5, <1>8, <3>1, <3>2 DEF Kept
  <2>6. CASE devices[i].name # path
    <3>1. CASE isDirectory(devices[i])
      <4> DEFINE a == [fs |-> callback(devices[i]), index |-> top.index + 1]
      <4>1. stack' = Append(advanced, a)
        BY <1>1, <2>1, <2>3, <2>6, <3>1 DEF enter
      <4>2. devices[i].type = "device_directory"
        BY <2>2, <3>1 DEF isDirectory, DeviceNodes
      <4>3. a \in Activations
        BY <1>3, <4>2 DEF callback, Activations
      <4> HIDE DEF a
      <4>4. stack' \in Seq(Activations) /\ stack' # <<>>
        BY <1>3, <4>1, <4>3
      <4> QED BY <1>5, <2>4, <4>4 DEF Kept
    <3>2. CASE ~ isDirectory(devices[i])
      <4>1. stack' = advanced
        BY <1>1, <2>1, <2>3, <2>6, <3>2
      <4>2. advanced # <<>>
        BY <1>3
      <4> QED BY <1>3, <1>5, <2>4, <4>1, <4>2 DEF Kept
    <3> QED BY <3>1, <3>2
  <2> QED BY <2>5, <2>6
<1> QED BY <1>0, <1>1, <1>6, <1>7, <1>8, SearchReads

LEMMA SearchKeeps ==
  ASSUME IInv, SearchStep
  PROVE  IInv'
<1>1. /\ UNCHANGED <<tarVars, root_nodes, devices>> /\ call = "open" /\ path' = path
      /\ UNCHANGED <<directory, temp>>
      /\ call' = (IF stack' = <<>> THEN "idle" ELSE "open")
      /\ root_nodes' = root_nodes /\ devices' = devices
  BY DEF SearchStep, shellVars
<1>2. WalkInv' /\ booted' /\ \A p : named(p)' = named(p)
  BY <1>1, CallFrame DEF IInv, CallInv
<1>3. /\ initrd_readdir_call' \in BOOLEAN /\ Kept(stack')
  BY SearchRound
<1>4. \A i \in 1 .. Len(stack') : Passed(stack[i])'
  BY <1>1, <1>3 DEF Kept, Passed
<1>5. ASSUME stack' = <<>> PROVE ResultInv'
  <2>1. NodesOK
    BY NodesSound DEF IInv
  <2>2. named(Null.name) = {}
    BY <2>1, NobodyNamed DEF NodesOK, Null
  <2>3. named(result.name)' = named(result'.name)
    BY <1>1 DEF named
  <2>4. CASE result' = Null
    BY <2>2, <2>3, <2>4 DEF ResultInv
  <2>5. CASE result'.name = path /\ named(path) = {}
    BY <2>3, <2>5 DEF ResultInv
  <2>6. CASE /\ named(path) # {} /\ result' # Null
             /\ result' = LET node == root_nodes[Min(named(path))]
                          IN  IF node.type = "file" THEN node ELSE Null
    <3> DEFINE m == Min(named(path))
    <3>1. m \in named(path)
      <4>1. named(path) \subseteq Nat
        BY <2>1 DEF named, NodesOK
      <4> QED BY <2>6, <4>1, MinOfNat
    <3>2. root_nodes[m].name = path
      BY <3>1 DEF named
    <3>3. result' = root_nodes[m] /\ root_nodes[m].type = "file"
      BY <2>6
    <3>4. named(result.name)' = named(path)
      BY <2>3, <3>2, <3>3
    <3> QED BY <1>1, <3>3, <3>4 DEF ResultInv
  <2> QED BY <1>5, <2>4, <2>5, <2>6, SearchRound
<1>6. CallInv'
  BY <1>1, <1>2, <1>3, <1>4, <1>5 DEF IInv, CallInv, Kept
<1> QED BY <1>2, <1>6 DEF IInv

(* A round of a listing: the next child, or the end after the last one.    *)
LEMMA ListRound ==
  ASSUME IInv, ListStep
  PROVE  /\ Len(Children) \in Nat /\ Index \in 0 .. Len(Children)
         /\ DOMAIN Children = 1 .. Len(Children)
         /\ ListedOK(Children, Index, listed)
         /\ initrd_readdir_call' \in BOOLEAN
         /\ stack[1].fs = "devfs" => ~ initrd_readdir_call'
         /\ Index = Len(Children) => call' = "idle" /\ stack' = <<>> /\ temp' = "none"
         /\ Index < Len(Children) =>
              /\ call' = call /\ stack' = advanced /\ temp' = temp
              /\ listed' = IF prints(Children[Index + 1].name)
                           THEN Append(listed, [index |-> Index,
                                                name |-> Children[Index + 1].name])
                           ELSE listed
<1>0. PICK c : c = read.child
  OBVIOUS
<1>1. /\ call = "ls" /\ initrd_readdir_call' = read.flag
      /\ c = Null => call' = "idle" /\ stack' = <<>> /\ temp' = "none"
      /\ c # Null => /\ call' = call /\ stack' = advanced /\ temp' = temp
                     /\ listed' = IF prints(c.name)
                                  THEN Append(listed, [index |-> top.index, name |-> c.name])
                                  ELSE listed
  BY <1>0 DEF ListStep
<1>2. /\ stack \in Seq(Activations) /\ Len(stack) = 1
      /\ stack[1].fs \in {"initrd", "devfs"} /\ Index <= Len(Children)
      /\ stack[1].fs = "devfs" /\ Index > 0 => ~ initrd_readdir_call
      /\ ListedOK(Children, Index, listed)
  BY <1>1 DEF IInv, CallInv, ListInv
<1>3. top = stack[1] /\ Index \in Nat /\ top.index = Index
  <2>1. stack \in Seq(Activations) /\ Len(stack) = 1
    BY <1>2
  <2>2. stack[1] \in Activations
    BY <2>1
  <2> QED BY <2>1, <2>2 DEF top, Activations, Index
<1>4. NodesOK /\ Len(root_nodes) \in Nat /\ DOMAIN root_nodes = 1 .. Len(root_nodes)
  BY NodesSound DEF IInv, NodesOK
<1>5. /\ devices \in Seq(DeviceNodes) /\ Len(devices) \in Nat \ {0}
      /\ DOMAIN devices = 1 .. Len(devices)
      /\ \A k \in 1 .. Len(devices) : devices[k] \in DeviceNodes
  BY <1>1, DevicesType DEF IInv, CallInv, booted
<1>6. CASE stack[1].fs = "initrd"
  <2>1. Children = root_nodes
    BY <1>6 DEF Children
  <2>2. read = initrd_readdir(Index)
    BY <1>3, <1>6 DEF read, readdir_fs
  <2>3. /\ read.flag = TRUE
        /\ c = IF Index >= Len(root_nodes) THEN Null ELSE root_nodes[Index + 1]
    BY <1>0, <2>2 DEF initrd_readdir, nroot_nodes
  <2>4. ASSUME Index < Len(root_nodes) PROVE c # Null /\ c = root_nodes[Index + 1]
    <3>1. c = root_nodes[Index + 1] /\ Index + 1 \in 1 .. Len(root_nodes)
      BY <1>3, <1>4, <2>3, <2>4
    <3>2. c.name # "none"
      BY <1>4, <3>1 DEF NodesOK
    <3> QED BY <3>1, <3>2 DEF Null
  <2>5. Index = Len(root_nodes) => c = Null
    BY <1>4, <2>3
  <2>6. initrd_readdir_call' \in BOOLEAN
    BY <1>1, <2>3
  <2>7. Index \in 0 .. Len(root_nodes)
    BY <1>2, <1>3, <1>4, <2>1
  <2>8. Index = Len(root_nodes) =>
          call' = "idle" /\ stack' = <<>> /\ temp' = "none"
    BY <1>1, <2>5
  <2>9. Index < Len(root_nodes) =>
          /\ call' = call /\ stack' = advanced /\ temp' = temp
          /\ listed' = IF prints(root_nodes[Index + 1].name)
                       THEN Append(listed, [index |-> Index,
                                            name |-> root_nodes[Index + 1].name])
                       ELSE listed
    BY <1>1, <1>3, <2>4
  <2> QED BY <1>2, <1>4, <1>6, <2>1, <2>6, <2>7, <2>8, <2>9
<1>7. CASE stack[1].fs = "devfs"
  <2>1. Children = devices
    BY <1>7 DEF Children
  <2>2. read = devfs_readdir(Index)
    BY <1>3, <1>7 DEF read, readdir_fs
  <2>3. ASSUME Index < Len(devices)
        PROVE  c # Null /\ c = devices[Index + 1] /\ read.flag = FALSE
    <3>1. /\ c = devices[Index + 1] /\ read.flag = FALSE
      BY <1>0, <2>2, <2>3 DEF devfs_readdir
    <3>2. Index + 1 \in 1 .. Len(devices)
      BY <1>3, <1>5, <2>3
    <3>3. c \in DeviceNodes
      BY <1>5, <3>1, <3>2
    <3> QED BY <3>1, <3>3 DEF Null, DeviceNodes, Names
  <2>4. ASSUME Index = Len(devices) PROVE c = Null /\ read.flag = FALSE
    <3>1. ~ initrd_readdir_call /\ ~ (Index < Len(devices))
      BY <1>2, <1>5, <1>7, <2>4
    <3> QED BY <1>0, <2>2, <3>1 DEF devfs_readdir
  <2>5. Index <= Len(devices) /\ Len(devices) \in Nat
    BY <1>2, <1>5, <2>1
  <2>6. Index < Len(devices) \/ Index = Len(devices)
    BY <1>3, <2>5
  <2>7. initrd_readdir_call' = FALSE
    BY <1>1, <2>3, <2>4, <2>6
  <2>8. DOMAIN devices = 1 .. Len(devices) /\ Index \in 0 .. Len(devices)
    BY <1>3, <1>5, <2>5
  <2>9. Index = Len(devices) =>
          call' = "idle" /\ stack' = <<>> /\ temp' = "none"
    BY <1>1, <2>4
  <2>10. Index < Len(devices) =>
           /\ call' = call /\ stack' = advanced /\ temp' = temp
           /\ listed' = IF prints(devices[Index + 1].name)
                        THEN Append(listed, [index |-> Index,
                                             name |-> devices[Index + 1].name])
                        ELSE listed
    BY <1>1, <1>3, <2>3
  <2> QED BY <1>2, <2>1, <2>5, <2>7, <2>8, <2>9, <2>10
<1> QED BY <1>2, <1>6, <1>7

LEMMA ListStepKeeps ==
  ASSUME IInv, ListStep
  PROVE  IInv'
<1>1. /\ UNCHANGED <<tarVars, root_nodes, devices>> /\ call = "ls" /\ path' = path
      /\ result' = result /\ root_nodes' = root_nodes /\ devices' = devices
      /\ directory' = directory
  BY DEF ListStep
<1>2. WalkInv' /\ booted'
  BY <1>1, CallFrame DEF IInv, CallInv
<1>3. ResultInv'
  BY <1>1 DEF IInv, CallInv, ResultInv, named
<1>4. /\ stack \in Seq(Activations) /\ Len(stack) = 1
      /\ stack[1].fs \in {"initrd", "devfs"}
  BY <1>1 DEF IInv, CallInv, ListInv
<1>5. PICK i : i = Index
  OBVIOUS
<1>6. PICK nodes : nodes = Children
  OBVIOUS
<1>7. /\ Len(nodes) \in Nat /\ i \in 0 .. Len(nodes)
      /\ ListedOK(nodes, i, listed)
      /\ initrd_readdir_call' \in BOOLEAN
      /\ stack[1].fs = "devfs" => ~ initrd_readdir_call'
      /\ i = Len(nodes) => call' = "idle" /\ stack' = <<>> /\ temp' = "none"
      /\ i < Len(nodes) =>
           /\ call' = call /\ stack' = advanced /\ temp' = temp
           /\ listed' = IF prints(nodes[i + 1].name)
                        THEN Append(listed, [index |-> i, name |-> nodes[i + 1].name])
                        ELSE listed
  BY <1>5, <1>6, ListRound
<1>8. CASE i = Len(nodes)
  <2>1. CallInv'
    <3>1. <<>> \in Seq(Activations)
      OBVIOUS
    <3> QED BY <1>1, <1>2, <1>3, <1>7, <1>8, <3>1 DEF IInv, CallInv
  <2> QED BY <1>2, <2>1 DEF IInv
<1>9. CASE i < Len(nodes)
  <2>1. /\ stack' \in Seq(Activations) /\ Len(stack') = 1
        /\ stack'[1] = [fs |-> stack[1].fs, index |-> i + 1]
    <3>1. stack # <<>>
      BY <1>4
    <3>2. top = stack[1]
      BY <1>4 DEF top
    <3>3. top.index = i
      BY <1>5, <3>2 DEF Index
    <3>4. /\ advanced \in Seq(Activations) /\ Len(advanced) = Len(stack)
          /\ advanced[Len(stack)] = [fs |-> top.fs, index |-> top.index + 1]
      BY <1>4, <3>1, StackRound
    <3>5. stack' = advanced
      BY <1>7, <1>9
    <3>6. advanced[1] = [fs |-> stack[1].fs, index |-> i + 1]
      BY <1>4, <3>2, <3>3, <3>4
    <3> QED BY <1>4, <3>4, <3>5, <3>6
  <2>2. Children' = nodes /\ Index' = i + 1
    BY <1>1, <1>6, <2>1 DEF Children, Index
  <2>3. ListedOK(nodes, i + 1, listed)'
    <3>1. PICK lines : lines = listed'
      OBVIOUS
    <3>2. ListedOK(nodes, i + 1, lines)
      BY <1>7, <1>9, <3>1, LinesRound
    <3>3. UNCHANGED <<directory, temp>>
      BY <1>1, <1>7, <1>9
    <3> QED BY <3>1, <3>2, <3>3 DEF ListedOK, Lines, inOrder, prints
  <2>4. ListInv'
    <3>1. stack'[1].fs = stack[1].fs /\ i + 1 <= Len(nodes)
      BY <1>7, <1>9, <2>1
    <3>2. stack'[1].fs = "devfs" => ~ initrd_readdir_call'
      BY <1>7, <3>1
    <3> QED BY <1>4, <2>1, <2>2, <2>3, <3>1, <3>2 DEF ListInv
  <2>5. initrd_readdir_call' \in BOOLEAN /\ call' = "ls"
    BY <1>1, <1>7, <1>9
  <2>6. CallInv'
    BY <1>1, <1>2, <1>3, <1>7, <1>9, <2>1, <2>4, <2>5 DEF IInv, CallInv
  <2> QED BY <1>2, <2>6 DEF IInv
<1> QED BY <1>7, <1>8, <1>9

-----------------------------------------------------------------------------
LEMMA NextInv == IInv /\ [Next]_vars => IInv'
<1> SUFFICES ASSUME IInv, [Next]_vars PROVE IInv'
  OBVIOUS
<1>1. CASE Tar!Next /\ UNCHANGED fsVars
  BY <1>1, WalkStepKeeps
<1>2. CASE SetDevNode
  BY <1>2, SetDevNodeKeeps
<1>3. CASE RegisterDevice
  BY <1>3, RegisterDeviceKeeps
<1>4. CASE \E p \in Paths : Open(p)
  BY <1>4, OpenKeeps
<1>5. CASE List("initrd", "none") \/ List("devfs", "none") \/ List("devfs", DevName)
  BY <1>5, ListKeeps
<1>9. CASE \E d \in Directories \cup {"none"} : Cd(d)
  BY <1>9, CdKeeps
<1>6. CASE SearchStep
  BY <1>6, SearchKeeps
<1>7. CASE ListStep
  BY <1>7, ListStepKeeps
<1>8. CASE UNCHANGED vars
  <2>1. UNCHANGED <<tarVars, root_nodes, devices>> /\ UNCHANGED fsVars
    BY <1>8 DEF vars, fsVars, shellVars
  <2>2. WalkInv' /\ (booted' <=> booted)
    BY <2>1, CallFrame
  <2>3. CallInv'
    BY <2>1, <2>2
      DEF IInv, CallInv, fsVars, shellVars, ListInv, Children, Index, ListedOK, Lines, inOrder,
          prints, ResultInv, named, Passed
  <2> QED BY <2>2, <2>3 DEF IInv
<1> QED BY <1>1, <1>2, <1>3, <1>4, <1>5, <1>6, <1>7, <1>8, <1>9 DEF Next

-----------------------------------------------------------------------------
(* Where the headers are, whatever the step of the boot.                   *)
LEMMA HeadersKnown ==
  ASSUME WalkInv
  PROVE  /\ headers \in Seq(Nat) /\ address \in Nat /\ nfiles \in Nat
         /\ pc \in {"build", "ready"} =>
              /\ Len(headers) = Len(archive)
              /\ headers = [k \in 1 .. Len(archive) |-> Tar!offsetOf(archive, k)]
<1>1. /\ Len(archive) \in Nat
      /\ \A k \in 1 .. Len(archive) + 1 : Tar!offsetOf(archive, k) \in Nat
  BY ArchiveType, Offsets DEF WalkInv
<1>2. ASSUME NEW n \in 0 .. Len(archive)
      PROVE  /\ Places(n) \in Seq(Nat) /\ Len(Places(n)) = n
             /\ Tar!offsetOf(archive, n + 1) \in Nat
  <2>1. n \in Nat /\ n + 1 \in 1 .. Len(archive) + 1
    BY <1>1
  <2>2. \A k \in 1 .. n : Tar!offsetOf(archive, k) \in Nat
    BY <1>1
  <2> QED BY <1>1, <2>1, <2>2 DEF Places
<1>3. CASE pc = "list"
  <2>1. PICK n \in 0 .. Len(archive) :
          headers = Places(n) /\ address = Tar!offsetOf(archive, n + 1)
    BY <1>3 DEF WalkInv
  <2> QED BY <1>2, <1>3, <2>1 DEF WalkInv
<1>4. CASE pc # "list"
  <2>1. /\ headers = Places(Len(archive)) /\ nfiles \in 0 .. Len(archive)
        /\ address = Tar!offsetOf(archive, nfiles + 1)
    BY <1>4 DEF WalkInv
  <2>2. Len(archive) \in 0 .. Len(archive) /\ nfiles \in Nat
    BY <1>1, <2>1
  <2>3. headers \in Seq(Nat) /\ Len(headers) = Len(archive) /\ address \in Nat
    BY <1>2, <2>1, <2>2
  <2> QED BY <2>1, <2>2, <2>3 DEF Places
<1> QED BY <1>3, <1>4

(* The two walks over the archive agree, for archives of any length and    *)
(* files of any size: initrd_get_number_files counts the headers that      *)
(* generate_list_files_initrd collected, they are where tar put them, and  *)
(* neither the growing array of headers nor the array of nodes, which has  *)
(* one place more than files, is written past its end.                     *)
THEOREM WalksRight == Spec => []WalksAgree
<1>1. ASSUME IInv PROVE WalksAgree
  <2>1. WalkInv /\ NodesOK
    BY <1>1, NodesSound DEF IInv
  <2>2. Tar!TypeOK
    BY <2>1, HeadersKnown DEF WalkInv, Tar!TypeOK
  <2>3. \A i \in DOMAIN root_nodes : root_nodes[i].type \in NodeTypes
    BY <2>1 DEF NodesOK, NodeTypes
  <2>4. \A i \in DOMAIN devices : devices[i].type \in NodeTypes
    <3>1. devices \in Seq(DeviceNodes)
      BY <1>1 DEF IInv, CallInv
    <3>2. \A i \in DOMAIN devices : devices[i] \in DeviceNodes
      BY <3>1
    <3> QED BY <3>2 DEF DeviceNodes, NodeTypes
  <2>5. \A i \in DOMAIN stack : stack[i].index \in Nat
    <3>1. stack \in Seq(Activations)
      BY <1>1 DEF IInv, CallInv
    <3>2. \A i \in DOMAIN stack : stack[i] \in Activations
      BY <3>1
    <3> QED BY <3>2 DEF Activations
  <2>6. TypeOK
    BY <1>1, <2>2, <2>3, <2>4, <2>5 DEF TypeOK, IInv, CallInv
  <2>7. Tar!WalksAgree
    <3>1. SUFFICES ASSUME pc \in {"build", "ready"}
                   PROVE  /\ nfiles = Len(headers) /\ Len(root_nodes) <= nfiles + 1
                          /\ headers = [k \in DOMAIN archive |->
                                          Tar!offsetOf(archive, k)]
      BY DEF Tar!WalksAgree
    <3>2. DOMAIN archive = 1 .. Len(archive) /\ nfiles = Len(archive)
      BY <2>1, <3>1, ArchiveType DEF WalkInv
    <3>3. Len(root_nodes) <= nfiles + 1
      BY <2>1, <3>1 DEF NodesOK
    <3> QED BY <2>1, <3>1, <3>2, <3>3, HeadersKnown
  <2> QED BY <2>6, <2>7 DEF WalksAgree
<1> QED BY InitInv, NextInv, <1>1, PTL DEF Spec

(* What initrd_read copies for the file vfs_open found last is the content *)
(* of that file in the archive: getsize, the walk and the inode agree on   *)
(* where it starts and how long it is.                                     *)
THEOREM CatRight == Spec => []CatReadsContent
<1>1. ASSUME IInv PROVE CatReadsContent
  <2> SUFFICES ASSUME call = "idle", named(result.name) # {}
               PROVE  Tar!initrd_read(result)
                        = Tar!contentOf(Min(named(result.name)))
    BY DEF CatReadsContent
  <2>1. PICK m : m = Min(named(result.name))
    OBVIOUS
  <2>2. result = root_nodes[m] /\ result.type = "file"
    BY <1>1, <2>1 DEF IInv, CallInv, ResultInv
  <2>3. WalkInv /\ NodesOK
    BY <1>1, NodesSound DEF IInv
  <2>4. m \in 1 .. Len(root_nodes)
    <3>1. DOMAIN root_nodes = 1 .. Len(root_nodes) /\ Len(root_nodes) \in Nat
      BY <2>3 DEF NodesOK
    <3>2. named(result.name) \subseteq 1 .. Len(root_nodes)
      BY <3>1 DEF named
    <3>3. named(result.name) \subseteq Nat
      BY <3>1, <3>2
    <3> QED BY <2>1, <3>2, <3>3, MinOfNat
  <2>5. result = FileNode(m) /\ m \in 1 .. Len(archive)
    BY <2>2, <2>3, <2>4 DEF NodesOK
  <2>6. pc = "ready"
    <3>1. root_nodes # <<>>
      BY <2>4
    <3> QED BY <2>3, <3>1 DEF NodesOK
  <2>7. headers[m] = Tar!offsetOf(archive, m)
    BY <2>3, <2>5, <2>6, HeadersKnown
  <2>8. result.inode + 1 = m /\ result.length = Tar!value(archive[m].size)
    <3>1. Len(archive) \in Nat
      BY <2>3, ArchiveType DEF WalkInv
    <3> QED BY <2>5, <3>1 DEF FileNode
  <2>9. Tar!initrd_read(result) = Tar!contentOf(m)
    BY <2>7, <2>8 DEF Tar!initrd_read, Tar!contentOf
  <2> QED BY <2>1, <2>9
<1> QED BY InitInv, NextInv, <1>1, PTL DEF Spec

(* Only a round of its own loop ends a call.                               *)
LEMMA CallEnds ==
  ASSUME [Next]_vars, call # "idle", call' = "idle"
  PROVE  \/ call = "open" /\ SearchStep
         \/ call = "ls" /\ ListStep
<1>1. CASE Tar!Next /\ UNCHANGED fsVars
  BY <1>1 DEF fsVars
<1>2. CASE SetDevNode
  BY <1>2 DEF SetDevNode, fsVars
<1>3. CASE RegisterDevice
  BY <1>3 DEF RegisterDevice
<1>4. CASE \E p \in Paths : Open(p)
  BY <1>4 DEF Open
<1>5. CASE List("initrd", "none") \/ List("devfs", "none") \/ List("devfs", DevName)
  BY <1>5 DEF List
<1>9. CASE \E d \in Directories \cup {"none"} : Cd(d)
  BY <1>9 DEF Cd
<1>6. CASE SearchStep
  BY <1>6 DEF SearchStep
<1>7. CASE ListStep
  BY <1>7 DEF ListStep
<1>8. CASE UNCHANGED vars
  BY <1>8 DEF vars, fsVars
<1> QED BY <1>1, <1>2, <1>3, <1>4, <1>5, <1>6, <1>7, <1>8, <1>9 DEF Next

(* vfs_open, which walks one flat list through nested activations of       *)
(* vfs_search_node, ends with the first node of that name if it is a file, *)
(* and with nothing if it is not one or if nobody has the name: no         *)
(* directory before it, no listing before and no device changes that.      *)
THEOREM OpenRight == Spec => OpenFindsFile
<1> DEFINE Found ==
      call = "open" /\ call' = "idle" /\ (named(path) # {} \/ path \notin deviceNames)
      => result' = IF named(path) = {} THEN Null
                   ELSE LET node == root_nodes[Min(named(path))]
                        IN  IF node.type = "file" THEN node ELSE Null
<1>1. ASSUME IInv, [Next]_vars PROVE [Found]_vars
  <2> SUFFICES ASSUME call = "open", call' = "idle",
                      named(path) # {} \/ path \notin deviceNames
               PROVE  Found
    OBVIOUS
  <2>1. SearchStep
    BY <1>1, CallEnds
  <2>2. stack' = <<>>
    BY <2>1 DEF SearchStep
  <2> QED BY <1>1, <2>1, <2>2, SearchRound
<1> QED BY InitInv, NextInv, <1>1, PTL DEF Spec, OpenFindsFile

(* `ls` prints one line for every child whose name the shell's directory   *)
(* lets through, with its index and in the order of the list, for every    *)
(* archive, every directory and every history of calls, although the       *)
(* readdir of /dev starts over when the flag it shares with the readdir of *)
(* the RAM disk says so.                                                   *)
THEOREM ListRight == Spec => ListingExact
<1> DEFINE Exact ==
      call = "ls" /\ call' = "idle"
      => /\ {listed[i] : i \in DOMAIN listed}
            = linesFor(IF stack[1].fs = "devfs" THEN devices ELSE root_nodes)
         /\ inOrder(listed)
<1>1. ASSUME IInv, [Next]_vars PROVE [Exact]_vars
  <2> SUFFICES ASSUME call = "ls", call' = "idle" PROVE Exact
    OBVIOUS
  <2>1. ListStep
    BY <1>1, CallEnds
  <2>2. PICK nodes : nodes = Children
    OBVIOUS
  <2>3. PICK i : i = Index
    OBVIOUS
  <2>4. /\ i \in 0 .. Len(nodes) /\ Len(nodes) \in Nat
        /\ DOMAIN nodes = 1 .. Len(nodes)
        /\ ListedOK(nodes, i, listed)
        /\ i < Len(nodes) => call' = call
    BY <1>1, <2>1, <2>2, <2>3, ListRound
  <2>5. i = Len(nodes)
    <3>1. ~ (i < Len(nodes))
      BY <2>4
    <3>2. i \in 0 .. Len(nodes) /\ Len(nodes) \in Nat
      BY <2>4
    <3> QED BY <3>1, <3>2
  <2>6. Lines(nodes, i) = linesFor(nodes)
    <3>1. \A name : prints(name) <=> \/ directory = "none" \/ temp = DevName
                                     \/ name \in Inside[directory]
      BY DEF prints
    <3>2. {k \in 1 .. i : prints(nodes[k].name)}
            = {j \in DOMAIN nodes : directory = "none" \/ temp = DevName
                                      \/ nodes[j].name \in Inside[directory]}
      BY <2>4, <2>5, <3>1
    <3> QED BY <3>2 DEF Lines, linesFor
  <2> QED BY <2>2, <2>4, <2>6 DEF Children, ListedOK
<1> QED BY InitInv, NextInv, <1>1, PTL DEF Spec, ListingExact

=============================================================================
