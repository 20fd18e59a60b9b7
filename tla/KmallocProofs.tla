--------------------------- MODULE KmallocProofs ---------------------------
(***************************************************************************)
(* Proofs about the kernel heap, for every heap, every set of clients and  *)
(* all sizes and alignments they ask for.                                  *)
(***************************************************************************)
EXTENDS Kmalloc, CommonLemmas, FiniteSetTheorems, TLAPS

(* The constants of the code, and that requests are numbers.               *)
LEMMA HeapConstants ==
  /\ header_size = 8 /\ SIZEOF = 12 /\ MIN_ALIGN = 4
  /\ HEAP_BEGIN \in Nat \ {0} /\ HEAP_END \in Nat /\ UINT32 \in Nat \ {0}
  /\ HEAP_BEGIN + SIZEOF < HEAP_END /\ HEAP_END < UINT32
  /\ \A align \in Aligns \cup {MIN_ALIGN} : align \in Nat \ {0}
  /\ \A req \in Sizes : req \in Nat
  BY HeapBlocksAssumption, HeapAssumption
  DEF header_size, SIZEOF, MIN_ALIGN, HEAP_END

(* align_to rounds up to a multiple, where it does not wrap.               *)
LEMMA AlignTo ==
  ASSUME NEW n \in Nat, NEW a \in Nat \ {0}, n + a <= UINT32
  PROVE  /\ align_to(n, a) \in Nat
         /\ n <= align_to(n, a) /\ align_to(n, a) < n + a
         /\ align_to(n, a) % a = 0
<1>1. CASE n % a = 0
  BY <1>1 DEF align_to
<1>2. CASE n % a # 0
  <2> DEFINE r == n % a
             q == n \div a
             m == n + (a - r)
  <2>1. q \in Nat /\ r \in 0 .. a - 1 /\ n = a * q + r
    BY DivMod
  <2>2. a * q \in Nat /\ a * (q + 1) = a * q + a
    BY <2>1
  <2>3. r # 0
    BY <1>2
  <2> HIDE DEF r, q
  <2>4. m \in Nat /\ n <= m /\ m < n + a /\ m = a * (q + 1) + 0
    BY <2>1, <2>2, <2>3
  <2> HIDE DEF m
  <2>5. m % a = 0
    BY <2>1, <2>4, ModUnique
  <2>6. m < UINT32 /\ UINT32 \in Nat \ {0}
    BY <2>4, HeapConstants
  <2>7. m % UINT32 = m
    BY <2>4, <2>6
  <2>8. align_to(n, a) = m
    BY <1>2, <2>7 DEF align_to, m, r
  <2> QED BY <2>4, <2>5, <2>8
<1> QED BY <1>1, <1>2

-----------------------------------------------------------------------------
(* A list of separate blocks inside the heap whose bottom block is used.   *)
Separate(b, d) == \/ b.addr + mem_block_size(b) <= d.addr
                  \/ d.addr + mem_block_size(d) <= b.addr

WellFormed(h) ==
  /\ h \subseteq Block
  /\ \A b, d \in h : b # d => Separate(b, d)
  /\ \A b \in h : /\ b.addr >= HEAP_BEGIN
                  /\ b.addr + header_size + b.size <= HEAP_END
                  /\ b.addr = HEAP_BEGIN => b.used

Used(h) == {b \in h : b.used}

(* A block is known by its address.                                        *)
LEMMA SameAddress ==
  ASSUME NEW h, WellFormed(h), NEW b \in h, NEW d \in h, b.addr = d.addr
  PROVE  b = d
  BY HeapConstants DEF WellFormed, Separate, mem_block_size, Block

(* mem_get_block finds it.                                                 *)
LEMMA GetBlock ==
  ASSUME NEW h, WellFormed(h), NEW b \in h
  PROVE  mem_get_block(h, b.addr) = b
<1>1. mem_get_block(h, b.addr) \in h /\ mem_get_block(h, b.addr).addr = b.addr
  BY DEF mem_get_block
<1> QED BY <1>1, SameAddress

(* A list that is not empty has a top block, the one with the highest      *)
(* address.                                                                *)
LEMMA TopOfHeap ==
  ASSUME NEW h, WellFormed(h), h # {}
  PROVE  top(h) \in h /\ \A d \in h : d.addr <= top(h).addr
<1> DEFINE A == {b.addr : b \in h}
<1>1. A \subseteq 0 .. HEAP_END /\ A # {}
  BY HeapConstants DEF WellFormed, Block
<1>2. \E x \in A : \A y \in A : y <= x
  BY <1>1, HeapConstants, GreatestNat
<1>3. \E b \in h : \A d \in h : d.addr <= b.addr
  BY <1>2
<1> QED BY <1>3 DEF top

(* mem_find_block returns a block that fits, if there is one.              *)
LEMMA FoundBlockFits ==
  ASSUME NEW h, WellFormed(h), NEW size, NEW align, fitting(h, size, align) # {}
  PROVE  mem_find_block(h, size, align) \in fitting(h, size, align)
<1> DEFINE fit == fitting(h, size, align)
           A == {b.addr : b \in fit}
<1>1. fit \subseteq h
  BY DEF fitting
<1>2. A \subseteq Nat /\ A # {}
  BY <1>1 DEF WellFormed, Block
<1>3. \E x \in A : \A y \in A : x <= y
  BY <1>2, LeastNat
<1>4. \E b \in fit : \A d \in fit : b.addr <= d.addr
  BY <1>3
<1> QED BY <1>4 DEF mem_find_block

(* Setting the list up keeps it in order.                                  *)
LEMMA SetupWellFormed ==
  ASSUME NEW h, WellFormed(h)
  PROVE  WellFormed(setup(h)) /\ setup(h) # {}
<1>1. CASE h = {}
  <2> DEFINE b == [addr |-> HEAP_BEGIN, size |-> 0, used |-> TRUE]
  <2>1. setup(h) = {b}
    BY <1>1 DEF setup
  <2>2. b \in Block /\ b.addr + header_size + b.size <= HEAP_END
    BY HeapConstants DEF Block
  <2> QED BY <2>1, <2>2, HeapConstants DEF WellFormed
<1>2. CASE h # {}
  BY <1>2 DEF setup
<1> QED BY <1>1, <1>2

(* Changing the flag of a block leaves the list in order, unless it frees  *)
(* the bottom block.                                                       *)
LEMMA MarkWellFormed ==
  ASSUME NEW h, WellFormed(h), NEW b \in h, NEW flag \in BOOLEAN,
         b.addr = HEAP_BEGIN => flag
  PROVE  /\ WellFormed(mark(h, b, flag))
         /\ flag => Used(mark(h, b, flag)) = (Used(h) \ {b}) \cup {[b EXCEPT !.used = flag]}
         /\ ~flag => Used(mark(h, b, flag)) = Used(h) \ {b}
<1> DEFINE m == [b EXCEPT !.used = flag]
<1>1. b \in Block
  BY DEF WellFormed
<1>2. m \in Block /\ m.addr = b.addr /\ m.size = b.size /\ m.used = flag
  BY <1>1 DEF Block
<1>3. mark(h, b, flag) = (h \ {b}) \cup {m}
  BY DEF mark
<1> HIDE DEF m
<1>4. \A d \in h : d # b => Separate(m, d) /\ Separate(d, m)
  BY <1>2 DEF WellFormed, Separate, mem_block_size
<1>5. WellFormed(mark(h, b, flag))
  <2> SUFFICES WellFormed((h \ {b}) \cup {m})
    BY <1>3
  <2>1. (h \ {b}) \cup {m} \subseteq Block
    BY <1>2 DEF WellFormed
  <2>2. \A c, d \in (h \ {b}) \cup {m} : c # d => Separate(c, d)
    BY <1>4 DEF WellFormed
  <2>3. \A d \in (h \ {b}) \cup {m} : /\ d.addr >= HEAP_BEGIN
                                      /\ d.addr + header_size + d.size <= HEAP_END
                                      /\ d.addr = HEAP_BEGIN => d.used
    BY <1>2 DEF WellFormed
  <2> QED BY <2>1, <2>2, <2>3 DEF WellFormed
<1>6. /\ flag => Used(mark(h, b, flag)) = (Used(h) \ {b}) \cup {m}
      /\ ~flag => Used(mark(h, b, flag)) = Used(h) \ {b}
  BY <1>2, <1>3 DEF Used
<1> QED BY <1>5, <1>6 DEF m

(* A request for which no address computation wraps.                       *)
Bounded(size, align) ==
  /\ size \in Nat /\ align \in Nat /\ align >= MIN_ALIGN
  /\ HEAP_END + SIZEOF + align + size <= UINT32

(* Where mem_new_block puts a block: after the top block, aligned, and     *)
(* with its data ending where aligned_alloc computed it.                   *)
LEMMA AfterTop ==
  ASSUME NEW h, WellFormed(h), NEW t \in h, NEW size, NEW align, Bounded(size, align)
  PROVE  /\ after(t, align) \in Nat /\ after(t, align) >= t.addr + mem_block_size(t)
         /\ (after(t, align) + header_size) % align = 0
         /\ end(t, size, align) = after(t, align) + header_size + size
<1> DEFINE n == t.addr + mem_block_size(t) + header_size
           a == align_to(n, align)
<1>1. t \in Block /\ t.addr + header_size + t.size <= HEAP_END
  BY DEF WellFormed
<1>2. n \in Nat /\ n <= HEAP_END + SIZEOF /\ n >= header_size
      /\ t.addr + mem_block_size(t) = n - header_size
  BY <1>1, HeapConstants DEF Block, mem_block_size
<1>3. n + align + size <= UINT32 /\ size \in Nat /\ align \in Nat \ {0}
  BY <1>2, HeapConstants DEF Bounded
<1> HIDE DEF n
<1>4. n + align <= UINT32
  BY <1>2, <1>3, HeapConstants
<1>5. a \in Nat /\ n <= a /\ a < n + align /\ a % align = 0
  BY <1>2, <1>3, <1>4, AlignTo
<1>6. after(t, align) = a - header_size
  BY DEF after, n
<1> HIDE DEF a
<1>7. a + size < UINT32 /\ a + size \in Nat
  BY <1>2, <1>3, <1>5, HeapConstants
<1>8. (a + size) % UINT32 = a + size
  BY <1>7, HeapConstants
<1>9. end(t, size, align) = a + size
  BY <1>8 DEF end, a, n
<1>10. /\ after(t, align) \in Nat /\ after(t, align) >= n - header_size
       /\ after(t, align) + header_size = a
  BY <1>2, <1>5, <1>6, HeapConstants
<1> QED BY <1>2, <1>3, <1>5, <1>9, <1>10, HeapConstants

(* A block that lies above every block of the list can be added.           *)
LEMMA AddAbove ==
  ASSUME NEW h, WellFormed(h), NEW n \in Block,
         n.addr > HEAP_BEGIN, n.addr + header_size + n.size <= HEAP_END,
         \A d \in h : d.addr + mem_block_size(d) <= n.addr
  PROVE  WellFormed(h \cup {n})
<1>1. h \cup {n} \subseteq Block
  BY DEF WellFormed
<1>2. \A b, d \in h \cup {n} : b # d => Separate(b, d)
  BY DEF WellFormed, Separate
<1>3. \A d \in h \cup {n} : /\ d.addr >= HEAP_BEGIN
                            /\ d.addr + header_size + d.size <= HEAP_END
                            /\ d.addr = HEAP_BEGIN => d.used
  BY HeapConstants DEF WellFormed, Block
<1> QED BY <1>1, <1>2, <1>3 DEF WellFormed

(* The blocks of the list end where its top block ends, or before.         *)
LEMMA EndBelowTop ==
  ASSUME NEW h, WellFormed(h), NEW d \in h, NEW n \in Nat,
         top(h).addr + mem_block_size(top(h)) <= n
  PROVE  d.addr + mem_block_size(d) <= n
<1>1. top(h) \in h /\ d.addr <= top(h).addr
  BY TopOfHeap
<1>2. d = top(h) \/ Separate(d, top(h))
  BY <1>1 DEF WellFormed
<1>3. top(h) \in Block /\ d \in Block
  BY <1>1 DEF WellFormed
<1> HIDE DEF WellFormed
<1> QED BY <1>1, <1>2, <1>3, HeapConstants DEF Separate, mem_block_size, Block

(* mem_new_block keeps the list in order: the filler and the new block lie *)
(* above the top block, one above the other, and inside the heap.          *)
LEMMA NewBlockWellFormed ==
  ASSUME NEW h, WellFormed(h), h # {}, NEW size, NEW align, Bounded(size, align),
         end(top(h), size, align) <= HEAP_END
  PROVE  LET n == [addr |-> after(top(h), align), size |-> size, used |-> TRUE]
         IN  /\ WellFormed(mem_new_block(h, top(h), size, align))
             /\ Used(mem_new_block(h, top(h), size, align)) = Used(h) \cup {n}
             /\ n \in Block /\ n.addr > HEAP_BEGIN /\ mem_is_aligned(n, align)
             /\ \A d \in h : d.addr < n.addr
<1> DEFINE t == top(h)
           a == after(t, align)
           m == after(t, MIN_ALIGN)
           n == [addr |-> a, size |-> size, used |-> TRUE]
           f == [addr |-> m, size |-> (a - m) - SIZEOF, used |-> FALSE]
<1>1. t \in h /\ t \in Block /\ t.addr >= HEAP_BEGIN
  BY TopOfHeap DEF WellFormed
<1>2. size \in Nat /\ align \in Nat \ {0}
  BY HeapConstants DEF Bounded
<1>3. /\ a \in Nat /\ a >= t.addr + mem_block_size(t)
      /\ (a + header_size) % align = 0
      /\ a + header_size + size <= HEAP_END
  BY <1>1, AfterTop
<1>4. Bounded(0, MIN_ALIGN)
  BY HeapConstants DEF Bounded
<1>5. m \in Nat /\ m >= t.addr + mem_block_size(t)
  BY <1>1, <1>4, AfterTop
<1>6. t.addr + mem_block_size(t) \in Nat /\ t.addr + mem_block_size(t) > HEAP_BEGIN
  BY <1>1, HeapConstants DEF Block, mem_block_size
<1>7. a \in Nat /\ n \in Block /\ n.addr = a /\ n.size = size /\ n.used = TRUE /\ a > HEAP_BEGIN
  BY <1>2, <1>3, <1>6, HeapConstants DEF Block
<1>8. \A d \in h : d.addr < a
  <2> SUFFICES ASSUME NEW d \in h PROVE d.addr < a
    OBVIOUS
  <2>1. d.addr + mem_block_size(d) <= a /\ d \in Block
    BY <1>3, EndBelowTop DEF WellFormed
  <2> HIDE DEF a
  <2> QED BY <1>7, <2>1, HeapConstants DEF mem_block_size, Block
<1>9. mem_is_aligned(n, align)
  BY <1>3, <1>7 DEF mem_is_aligned
<1>10. ASSUME a - m > SIZEOF + MIN_ALIGN
       PROVE  /\ WellFormed((h \cup {f}) \cup {n})
              /\ Used((h \cup {f}) \cup {n}) = Used(h) \cup {n}
  <2>1. f \in Block /\ f.addr = m /\ f.size = (a - m) - SIZEOF /\ f.used = FALSE
    <3> HIDE DEF a, m
    <3> QED BY <1>3, <1>5, <1>10, HeapConstants DEF Block
  <2>2. m > HEAP_BEGIN /\ m + header_size + ((a - m) - SIZEOF) <= HEAP_END
    <3> HIDE DEF a, m
    <3> QED BY <1>2, <1>3, <1>5, <1>6, <1>10, HeapConstants
  <2>3. \A d \in h : d.addr + mem_block_size(d) <= m
    BY <1>5, EndBelowTop
  <2>4. WellFormed(h \cup {f})
    <3> HIDE DEF f, m
    <3> QED BY <2>1, <2>2, <2>3, AddAbove
  <2>5. \A d \in h \cup {f} : d.addr + mem_block_size(d) <= a
    <3>1. \A d \in h : d.addr + mem_block_size(d) <= a
      BY <1>3, EndBelowTop
    <3>2. f.addr + mem_block_size(f) = a
      <4> HIDE DEF f, a, m
      <4> QED BY <1>3, <1>5, <2>1, HeapConstants DEF mem_block_size
    <3> HIDE DEF f, a, m
    <3> QED BY <1>3, <3>1, <3>2
  <2> HIDE DEF f, a, m, n
  <2>6. WellFormed((h \cup {f}) \cup {n})
    BY <1>3, <1>7, <2>4, <2>5, AddAbove
  <2>7. Used((h \cup {f}) \cup {n}) = Used(h) \cup {n}
    BY <1>7, <2>1 DEF Used
  <2> QED BY <2>6, <2>7
<1>11. WellFormed(h \cup {n}) /\ Used(h \cup {n}) = Used(h) \cup {n}
  <2>1. \A d \in h : d.addr + mem_block_size(d) <= a
    BY <1>3, EndBelowTop
  <2> HIDE DEF a, n
  <2>2. WellFormed(h \cup {n})
    BY <1>3, <1>7, <2>1, AddAbove
  <2> QED BY <1>7, <2>2 DEF Used
<1>12. CASE a - m > SIZEOF + MIN_ALIGN
  <2>1. mem_new_block(h, t, size, align) = (h \cup {f}) \cup {n}
    BY <1>12 DEF mem_new_block, filler
  <2> HIDE DEF f, a, m, n
  <2> QED BY <1>7, <1>8, <1>9, <1>10, <1>12, <2>1 DEF n, a
<1>13. CASE ~(a - m > SIZEOF + MIN_ALIGN)
  <2>1. mem_new_block(h, t, size, align) = h \cup {n}
    BY <1>13 DEF mem_new_block, filler
  <2> QED BY <1>7, <1>8, <1>9, <1>11, <2>1
<1> QED BY <1>12, <1>13

(* A size rounded up to 8 bytes.                                           *)
LEMMA RoundedSize ==
  ASSUME RequestsBounded, NEW req \in Sizes, NEW align \in Aligns \cup {MIN_ALIGN}
  PROVE  align_to(req, 8) >= req /\ Bounded(align_to(req, 8), align)
<1>1. req \in Nat /\ HEAP_END + SIZEOF + align + req + 7 <= UINT32 /\ align \in Nat \ {0}
  BY HeapConstants DEF RequestsBounded
<1>2. req + 8 <= UINT32
  BY <1>1, HeapConstants
<1>3. /\ align_to(req, 8) \in Nat
      /\ req <= align_to(req, 8) /\ align_to(req, 8) < req + 8
  BY <1>1, <1>2, AlignTo
<1>4. align >= MIN_ALIGN
  BY HeapAssumption, <1>1 DEF MIN_ALIGN
<1> QED BY <1>1, <1>3, <1>4, HeapConstants DEF Bounded

(* What aligned_alloc does.  It aborts, or the block it returns is large   *)
(* enough, aligned, not the bottom block, and was not used before.         *)
LEMMA AllocSpec ==
  ASSUME RequestsBounded, NEW h0, WellFormed(h0),
         NEW req \in Sizes, NEW align \in Aligns \cup {MIN_ALIGN},
         NEW r, r = aligned_alloc(h0, align, req)
  PROVE  /\ WellFormed(r.heap)
         /\ \/ /\ r.block = 0 /\ r.added = 0
               /\ r.heap = setup(h0)
            \/ \E n \in Block :
                 /\ r.block = n.addr /\ r.added = n.size
                 /\ n.addr > HEAP_BEGIN /\ n.size >= req /\ mem_is_aligned(n, align)
                 /\ n.used /\ Used(r.heap) = Used(setup(h0)) \cup {n}
                 /\ \A d \in Used(setup(h0)) : d.addr # n.addr
<1> DEFINE h == setup(h0)
           size == align_to(req, 8)
           b == mem_find_block(h, size, align)
           t == top(h)
<1>1. WellFormed(h) /\ h # {}
  BY SetupWellFormed
<1>2. size >= req /\ Bounded(size, align) /\ req \in Nat /\ size \in Nat
  BY RoundedSize, HeapConstants DEF Bounded
<1>3. CASE fitting(h, size, align) # {}
  <2> DEFINE n == [b EXCEPT !.used = TRUE]
  <2>1. r.heap = mark(h, b, TRUE) /\ r.block = b.addr /\ r.added = b.size
    BY <1>3 DEF aligned_alloc
  <2>2. b \in fitting(h, size, align)
    BY <1>1, <1>3, FoundBlockFits
  <2> HIDE DEF b, h, size
  <2>3. b \in h /\ b.size >= size /\ ~b.used /\ mem_is_aligned(b, align)
    BY <2>2 DEF fitting
  <2>4. b \in Block /\ b.addr > HEAP_BEGIN
    BY <1>1, <2>3, HeapConstants DEF WellFormed, Block
  <2>5. /\ WellFormed(r.heap)
        /\ Used(r.heap) = (Used(h) \ {b}) \cup {n}
    <3>1. TRUE \in BOOLEAN /\ (b.addr = HEAP_BEGIN => TRUE)
      OBVIOUS
    <3>2. /\ WellFormed(mark(h, b, TRUE))
          /\ TRUE => Used(mark(h, b, TRUE)) = (Used(h) \ {b}) \cup {[b EXCEPT !.used = TRUE]}
      BY <1>1, <2>3, <3>1, MarkWellFormed, Zenon
    <3> QED BY <2>1, <3>2
  <2>6. Used(r.heap) = Used(h) \cup {n}
    BY <2>3, <2>5 DEF Used
  <2>7. n \in Block /\ n.addr = b.addr /\ n.size = b.size /\ n.used = TRUE
    BY <2>4 DEF Block
  <2>8. \A d \in Used(h) : d.addr # b.addr
    BY <1>1, <2>3, SameAddress DEF Used
  <2>9. mem_is_aligned(n, align)
    BY <2>3, <2>7 DEF mem_is_aligned
  <2> HIDE DEF n
  <2>10. n.size >= req
    BY <1>2, <2>3, <2>4, <2>7 DEF Block
  <2> QED BY <2>1, <2>4, <2>5, <2>6, <2>7, <2>8, <2>9, <2>10 DEF h
<1>4. CASE fitting(h, size, align) = {} /\ end(t, size, align) > HEAP_END
  <2>1. r.heap = h /\ r.block = 0 /\ r.added = 0
    BY <1>4 DEF aligned_alloc
  <2> QED BY <1>1, <2>1
<1>5. CASE fitting(h, size, align) = {} /\ ~(end(t, size, align) > HEAP_END)
  <2> DEFINE n == [addr |-> after(t, align), size |-> size, used |-> TRUE]
  <2>1. /\ r.heap = mem_new_block(h, t, size, align) /\ r.block = after(t, align)
        /\ r.added = size
    BY <1>5 DEF aligned_alloc
  <2> HIDE DEF h, size
  <2>2. end(t, size, align) <= HEAP_END
    <3>1. t \in h
      BY <1>1, TopOfHeap
    <3>2. end(t, size, align) \in Nat
      BY <1>1, <1>2, <3>1, AfterTop, HeapConstants
    <3> QED BY <1>5, <3>2, HeapConstants
  <2>3. /\ WellFormed(r.heap) /\ Used(r.heap) = Used(h) \cup {n}
        /\ n \in Block /\ n.addr > HEAP_BEGIN /\ mem_is_aligned(n, align)
        /\ \A d \in h : d.addr < n.addr
    BY <1>1, <1>2, <2>1, <2>2, NewBlockWellFormed
  <2>4. r.block = n.addr /\ r.added = n.size /\ n.used /\ n.size >= req
    BY <1>2, <2>1
  <2> HIDE DEF n
  <2>5. \A d \in Used(h) : d.addr # n.addr
    <3>1. \A d \in Used(h) : d \in h /\ d \in Block
      BY <1>1 DEF Used, WellFormed
    <3> QED BY <2>3, <3>1 DEF Block
  <2> QED BY <2>3, <2>4, <2>5 DEF h
<1> QED BY <1>3, <1>4, <1>5

(* What kfree does with a used block other than the bottom one.            *)
LEMMA FreeSpec ==
  ASSUME NEW h, WellFormed(h), NEW b \in Used(h), b.addr # HEAP_BEGIN
  PROVE  /\ mem_get_block(h, b.addr) = b
         /\ WellFormed(kfree(h, b.addr)) /\ Used(kfree(h, b.addr)) = Used(h) \ {b}
<1>1. b \in h
  BY DEF Used
<1>2. mem_get_block(h, b.addr) = b
  BY <1>1, GetBlock
<1>3. kfree(h, b.addr) = mark(h, b, FALSE)
  BY <1>2 DEF kfree
<1> QED BY <1>1, <1>2, <1>3, MarkWellFormed

(* Setting the list up adds no used block but the bottom one.              *)
LEMMA SetupUsed ==
  ASSUME NEW h
  PROVE  /\ Used(h) \subseteq Used(setup(h))
         /\ \A b \in Used(setup(h)) : b \in Used(h) \/ b.addr = HEAP_BEGIN
<1>1. CASE h = {}
  BY <1>1 DEF setup, Used
<1>2. CASE h # {}
  BY <1>2 DEF setup
<1> QED BY <1>1, <1>2

-----------------------------------------------------------------------------
(* The sum of UsageExact.  It is defined by choosing the blocks one after  *)
(* the other; it is shown to be the number of bytes, a byte being a block  *)
(* and an offset, so that the order does not matter.                       *)
SumSize(S) == MapThenSumSet(LAMBDA b : b.size, S)

some(S) == CHOOSE b \in S : TRUE
Adds(g, S) ==
  g = [s \in SUBSET S |-> IF s = {} THEN 0 ELSE some(s).size + g[s \ {some(s)}]]

BlocksBelow(n) == [addr : Nat, size : 0 .. n, used : BOOLEAN]
Bytes(S, n) == {p \in S \X (1 .. n) : p[2] <= p[1].size}

(* The recursive function of the sum.                                      *)
LEMMA SumDefinition ==
  ASSUME NEW S
  PROVE  SumSize(S) = (CHOOSE g : Adds(g, S))[S]
  BY DEF SumSize, MapThenSumSet, MapThenFoldSet, Adds, some

(* Counting from 1.                                                        *)
LEMMA CountToK ==
  ASSUME NEW k \in Nat
  PROVE  IsFiniteSet(1 .. k) /\ Cardinality(1 .. k) = k
<1>1. 1 \in Int /\ k \in Int
  OBVIOUS
<1>2. IsFiniteSet(1 .. k) /\ Cardinality(1 .. k) = IF 1 > k THEN 0 ELSE k - 1 + 1
  BY <1>1, FS_Interval
<1> QED BY <1>2

(* A block more has as many bytes more.                                    *)
LEMMA BytesOfOneMore ==
  ASSUME NEW n \in Nat, NEW S \in SUBSET BlocksBelow(n), IsFiniteSet(S),
         NEW b \in BlocksBelow(n), b \notin S
  PROVE  /\ Cardinality(Bytes(S, n)) \in Nat
         /\ Cardinality(Bytes(S \cup {b}, n)) = Cardinality(Bytes(S, n)) + b.size
<1> DEFINE mine == {b} \X (1 .. b.size)
           k == b.size
<1>1. k \in Nat /\ k <= n
  BY DEF BlocksBelow
<1>2. IsFiniteSet(1 .. n) /\ IsFiniteSet(1 .. k) /\ Cardinality(1 .. k) = k
  BY <1>1, CountToK
<1>3. IsFiniteSet(S \X (1 .. n))
  BY <1>2, FS_Product
<1>4. IsFiniteSet(Bytes(S, n)) /\ Cardinality(Bytes(S, n)) \in Nat
  BY <1>3, FS_Subset, FS_CardinalityType DEF Bytes
<1>5. IsFiniteSet(mine) /\ Cardinality(mine) = k
  <2>1. IsFiniteSet({b}) /\ Cardinality({b}) = 1
    BY FS_Singleton
  <2>2. IsFiniteSet(mine) /\ Cardinality(mine) = 1 * k
    BY <1>2, <2>1, FS_Product
  <2> QED BY <1>1, <2>2
<1>6. Bytes(S \cup {b}, n) = Bytes(S, n) \cup mine
  <2>1. \A p \in Bytes(S \cup {b}, n) : p \in Bytes(S, n) \cup mine
    BY <1>1 DEF Bytes
  <2>2. \A p \in mine : p \in (S \cup {b}) \X (1 .. n) /\ p[2] <= p[1].size
    BY <1>1
  <2> QED BY <2>1, <2>2 DEF Bytes
<1>7. Bytes(S, n) \cap mine = {}
  BY DEF Bytes
<1> HIDE DEF mine, k
<1>8. Cardinality(Bytes(S, n) \cap mine) = 0
  BY <1>7, FS_EmptySet
<1>9. Cardinality(Bytes(S, n) \cup mine) = Cardinality(Bytes(S, n)) + k - 0
  BY <1>4, <1>5, <1>8, FS_Union
<1>10. Cardinality(Bytes(S, n) \cup mine) = Cardinality(Bytes(S, n)) + k
  BY <1>1, <1>4, <1>9
<1> QED BY <1>4, <1>6, <1>10 DEF k

(* The sum counts the bytes.                                               *)
LEMMA SumCountsBytes ==
  ASSUME NEW n \in Nat, NEW S \in SUBSET BlocksBelow(n), IsFiniteSet(S)
  PROVE  SumSize(S) = Cardinality(Bytes(S, n))
<1> DEFINE count == [s \in SUBSET S |-> Cardinality(Bytes(s, n))]
           g == CHOOSE f : Adds(f, S)
<1>1. \A s \in SUBSET S : IsFiniteSet(s) /\ Cardinality(s) \in Nat
  BY FS_Subset, FS_CardinalityType
<1>2. count[{}] = 0
  <2>1. Bytes({}, n) = {}
    BY DEF Bytes
  <2> QED BY <2>1, FS_EmptySet
<1>3. ASSUME NEW s \in SUBSET S, s # {}
      PROVE  /\ some(s) \in s /\ s \ {some(s)} \in SUBSET S
             /\ count[s] = some(s).size + count[s \ {some(s)}]
             /\ Cardinality(s \ {some(s)}) < Cardinality(s)
  <2> DEFINE x == some(s)
             t == s \ {x}
  <2>1. x \in s
    BY <1>3 DEF some
  <2> HIDE DEF x
  <2>2. t \in SUBSET S /\ t \in SUBSET BlocksBelow(n) /\ IsFiniteSet(t) /\ x \notin t
        /\ x \in BlocksBelow(n) /\ s = t \cup {x} /\ x.size \in Nat
    BY <1>1, <2>1 DEF BlocksBelow
  <2>3. Cardinality(Bytes(t, n)) \in Nat
        /\ Cardinality(Bytes(t \cup {x}, n)) = Cardinality(Bytes(t, n)) + x.size
    BY <2>2, BytesOfOneMore
  <2>4. count[s] = x.size + count[t]
    BY <2>2, <2>3
  <2>5. Cardinality(t) < Cardinality(s)
    BY <1>1, <2>1, <2>2, FS_RemoveElement
  <2> QED BY <2>1, <2>2, <2>4, <2>5 DEF x
<1>4. Adds(count, S)
  <2>1. \A s \in SUBSET S :
          count[s] = IF s = {} THEN 0 ELSE some(s).size + count[s \ {some(s)}]
    BY <1>2, <1>3
  <2>2. count = [s \in SUBSET S |-> count[s]]
    OBVIOUS
  <2> HIDE DEF count
  <2> QED BY <2>1, <2>2 DEF Adds
<1>5. Adds(g, S)
  BY <1>4
<1> HIDE DEF g, count
<1>6. /\ g[{}] = 0
      /\ \A s \in SUBSET S : s # {} => g[s] = some(s).size + g[s \ {some(s)}]
  BY <1>5 DEF Adds
<1>7. \A s \in SUBSET S : g[s] = count[s]
  <2> DEFINE bad == {s \in SUBSET S : g[s] # count[s]}
             sizes == {Cardinality(s) : s \in bad}
  <2> SUFFICES ASSUME bad # {} PROVE FALSE
    OBVIOUS
  <2>1. sizes \subseteq Nat /\ sizes # {}
    BY <1>1
  <2>2. PICK s \in bad : \A t \in bad : Cardinality(s) <= Cardinality(t)
    <3> HIDE DEF bad
    <3>1. \E m \in sizes : \A k \in sizes : m <= k
      <4> HIDE DEF sizes
      <4> QED BY <2>1, LeastNat
    <3> QED BY <3>1
  <2>3. s # {}
    BY <1>2, <1>6, <2>2
  <2> DEFINE t == s \ {some(s)}
  <2>4. t \in SUBSET S /\ Cardinality(t) < Cardinality(s) /\ count[s] = some(s).size + count[t]
    BY <1>3, <2>3
  <2>5. t \notin bad
    BY <1>1, <2>2, <2>4
  <2>6. g[t] = count[t]
    BY <2>4, <2>5
  <2>7. g[s] = some(s).size + g[t]
    BY <1>6, <2>3
  <2> QED BY <2>2, <2>4, <2>6, <2>7
<1> QED BY <1>7, SumDefinition DEF g, count

(* So a block more adds its size.                                          *)
LEMMA SumOfOneMore ==
  ASSUME NEW n \in Nat, NEW S \in SUBSET BlocksBelow(n), IsFiniteSet(S),
         NEW b \in BlocksBelow(n), b \notin S
  PROVE  SumSize(S) \in Nat /\ SumSize(S \cup {b}) = SumSize(S) + b.size
<1>1. S \cup {b} \in SUBSET BlocksBelow(n) /\ IsFiniteSet(S \cup {b})
  BY FS_AddElement
<1> QED BY <1>1, BytesOfOneMore, SumCountsBytes

-----------------------------------------------------------------------------
(* The inductive invariant.  Neither HeapWellFormed nor PointersGood is    *)
(* inductive alone: that a pointer is to a used block keeps kfree inside   *)
(* the list and off the bottom block, and that blocks are separate keeps   *)
(* two pointers from sharing one.  WellFormed adds that the bottom block   *)
(* is never free, so it is never given away.                               *)
IInv == TypeOK /\ WellFormed(heap) /\ PointersGood

(* It implies what the run checks.                                         *)
LEMMA InvImplies == IInv => HeapWellFormed /\ PointersGood
  BY DEF IInv, WellFormed, Separate, HeapWellFormed, Stacked, DataInHeap

(* The heap is empty at first.                                             *)
LEMMA InitInv == Init => IInv
<1> SUFFICES ASSUME Init PROVE IInv
  OBVIOUS
<1>1. TypeOK
  <2>1. used_memory \in 0 .. UINT32 - 1
    BY HeapConstants DEF Init
  <2>2. NoRequest \in [size : Nat, align : Nat]
    BY HeapConstants DEF NoRequest
  <2>3. asked \in [Clients -> [size : Nat, align : Nat]] /\ ptr \in [Clients -> Nat]
    BY <2>2 DEF Init
  <2>4. overrun \in BOOLEAN
    BY Zenon DEF Init
  <2> QED BY <2>1, <2>3, <2>4 DEF Init, TypeOK
<1>2. WellFormed(heap)
  BY DEF Init, WellFormed
<1>3. Owners = {} /\ UsedBlocks = {}
  BY DEF Init, UsedBlocks, Owners
<1>4. PointersGood
  BY <1>3, Zenon DEF PointersGood
<1> QED BY <1>1, <1>2, <1>4 DEF IInv

(* An allocation keeps the invariant.                                      *)
LEMMA AllocInv ==
  ASSUME RequestsBounded, IInv, NEW c \in Clients, NEW align \in Aligns, NEW req \in Sizes,
         Alloc(c, align, req)
  PROVE  IInv'
<1> DEFINE r == aligned_alloc(heap, align, req)
           q == [size |-> req, align |-> align]
<1>1. TypeOK /\ WellFormed(heap) /\ PointersGood /\ ptr[c] = 0
  BY DEF IInv, Alloc
<1>2. /\ heap' = r.heap /\ used_memory' = (used_memory + r.added) % UINT32
      /\ ptr' = [ptr EXCEPT ![c] = r.block] /\ asked' = [asked EXCEPT ![c] = q]
      /\ phase' \in {"up", "aborted"} /\ overrun' = overrun
  BY DEF Alloc
<1>3. align \in Nat /\ req \in Nat /\ align \in Aligns \cup {MIN_ALIGN}
  BY HeapConstants
<1>4. /\ WellFormed(r.heap)
      /\ \/ /\ r.block = 0 /\ r.added = 0
            /\ r.heap = setup(heap)
         \/ \E n \in Block :
              /\ r.block = n.addr /\ r.added = n.size
              /\ n.addr > HEAP_BEGIN /\ n.size >= req /\ mem_is_aligned(n, align)
              /\ n.used /\ Used(r.heap) = Used(setup(heap)) \cup {n}
              /\ \A d \in Used(setup(heap)) : d.addr # n.addr
  BY <1>1, <1>3, AllocSpec
<1> HIDE DEF r
<1>5. r.block \in Nat /\ r.added \in Nat
  BY <1>4 DEF Block
<1>6. TypeOK'
  <2>1. used_memory' \in 0 .. UINT32 - 1
    <3>1. used_memory + r.added \in Int
      BY <1>1, <1>5, HeapConstants DEF TypeOK
    <3> QED BY <1>2, <3>1, HeapConstants, ModRange
  <2>2. ptr' \in [Clients -> Nat]
    BY <1>1, <1>2, <1>5 DEF TypeOK
  <2>3. asked' \in [Clients -> [size : Nat, align : Nat]]
    BY <1>1, <1>2, <1>3 DEF TypeOK
  <2> QED BY <1>1, <1>2, <1>4, <2>1, <2>2, <2>3 DEF TypeOK, WellFormed
<1>7. UsedBlocks = Used(heap) /\ UsedBlocks' = Used(r.heap)
  BY <1>2 DEF UsedBlocks, Used
<1>8. /\ Used(heap) \subseteq Used(setup(heap))
      /\ \A b \in Used(setup(heap)) : b \in Used(heap) \/ b.addr = HEAP_BEGIN
  BY SetupUsed
<1>9. /\ \A d \in Clients : d # c => ptr'[d] = ptr[d] /\ asked'[d] = asked[d]
      /\ ptr'[c] = r.block /\ asked'[c].size = req /\ asked'[c].align = align
  BY <1>1, <1>2 DEF TypeOK
<1>10. PointersGood'
  <2>1. CASE r.block = 0 /\ r.heap = setup(heap)
    <3>1. Owners' = Owners /\ \A d \in Owners : ptr'[d] = ptr[d] /\ asked'[d] = asked[d]
      BY <1>1, <1>9, <2>1 DEF Owners
    <3>2. Owners \subseteq Clients
      BY DEF Owners
    <3>3. \A d \in Owners' : \E b \in UsedBlocks' :
            /\ b.addr = ptr'[d] /\ b.addr # HEAP_BEGIN
            /\ b.size >= asked'[d].size /\ mem_is_aligned(b, asked'[d].align)
      BY <1>1, <1>7, <1>8, <2>1, <3>1 DEF PointersGood
    <3>4. \A d, e \in Owners' : d # e => ptr'[d] # ptr'[e]
      BY <1>1, <3>1 DEF PointersGood
    <3>5. \A b \in UsedBlocks' : b.addr = HEAP_BEGIN \/ \E d \in Owners' : b.addr = ptr'[d]
      BY <1>1, <1>7, <1>8, <2>1, <3>1 DEF PointersGood
    <3> QED BY <3>3, <3>4, <3>5 DEF PointersGood, mem_is_aligned
  <2>2. ASSUME NEW n \in Block,
               r.block = n.addr, n.addr > HEAP_BEGIN, n.size >= req, mem_is_aligned(n, align),
               Used(r.heap) = Used(setup(heap)) \cup {n},
               \A d \in Used(setup(heap)) : d.addr # n.addr
        PROVE  PointersGood'
    <3>1. n.addr # 0 /\ n.addr # HEAP_BEGIN
      BY <2>2, HeapConstants DEF Block
    <3>2. Owners' = Owners \cup {c} /\ c \notin Owners
          /\ \A d \in Owners : ptr'[d] = ptr[d] /\ asked'[d] = asked[d]
      BY <1>1, <1>9, <2>2, <3>1 DEF Owners
    <3>3. \A d \in Owners' : \E b \in UsedBlocks' :
            /\ b.addr = ptr'[d] /\ b.addr # HEAP_BEGIN
            /\ b.size >= asked'[d].size /\ mem_is_aligned(b, asked'[d].align)
      BY <1>1, <1>7, <1>8, <1>9, <2>2, <3>1, <3>2 DEF PointersGood
    <3>4. \A d \in Owners : ptr[d] # n.addr
      BY <1>1, <1>7, <1>8, <2>2 DEF PointersGood
    <3>5. \A d, e \in Owners' : d # e => ptr'[d] # ptr'[e]
      BY <1>1, <1>9, <2>2, <3>2, <3>4 DEF PointersGood
    <3>6. \A b \in UsedBlocks' : b.addr = HEAP_BEGIN \/ \E d \in Owners' : b.addr = ptr'[d]
      BY <1>1, <1>7, <1>8, <1>9, <2>2, <3>2 DEF PointersGood
    <3> QED BY <3>3, <3>5, <3>6 DEF PointersGood, mem_is_aligned
  <2> QED BY <1>4, <2>1, <2>2
<1> QED BY <1>2, <1>4, <1>6, <1>10 DEF IInv

(* A client's pointer is to a used block other than the bottom one.        *)
LEMMA OwnedBlock ==
  ASSUME IInv, NEW c \in Clients, ptr[c] # 0
  PROVE  \E b \in Used(heap) : b.addr = ptr[c] /\ b.addr # HEAP_BEGIN
<1>1. c \in Owners /\ UsedBlocks = Used(heap)
  BY DEF Owners, UsedBlocks, Used
<1> QED BY <1>1 DEF IInv, PointersGood

(* A kfree keeps the invariant.                                            *)
LEMMA FreeInv ==
  ASSUME IInv, NEW c \in Clients, Free(c)
  PROVE  IInv'
<1>1. TypeOK /\ WellFormed(heap) /\ PointersGood /\ ptr[c] # 0
  BY DEF IInv, Free
<1>2. PICK b \in Used(heap) : b.addr = ptr[c] /\ b.addr # HEAP_BEGIN
  BY <1>1, OwnedBlock
<1>3. /\ mem_get_block(heap, ptr[c]) = b
      /\ WellFormed(kfree(heap, ptr[c])) /\ Used(kfree(heap, ptr[c])) = Used(heap) \ {b}
  BY <1>1, <1>2, FreeSpec
<1>4. /\ heap' = kfree(heap, ptr[c]) /\ used_memory' = (used_memory - b.size) % UINT32
      /\ ptr' = [ptr EXCEPT ![c] = 0] /\ asked' = [asked EXCEPT ![c] = NoRequest]
      /\ phase' = phase /\ overrun' = overrun
  BY <1>3 DEF Free
<1>5. TypeOK'
  <2>1. used_memory' \in 0 .. UINT32 - 1
    <3>1. used_memory - b.size \in Int
      BY <1>1, HeapConstants DEF TypeOK, WellFormed, Used, Block
    <3> QED BY <1>4, <3>1, HeapConstants, ModRange
  <2>2. ptr' \in [Clients -> Nat]
    BY <1>1, <1>4 DEF TypeOK
  <2>3. asked' \in [Clients -> [size : Nat, align : Nat]]
    BY <1>1, <1>4, HeapConstants DEF TypeOK, NoRequest
  <2> QED BY <1>1, <1>3, <1>4, <2>1, <2>2, <2>3 DEF TypeOK, WellFormed
<1>6. UsedBlocks = Used(heap) /\ UsedBlocks' = Used(heap) \ {b}
  BY <1>3, <1>4 DEF UsedBlocks, Used
<1>7. /\ Owners' = Owners \ {c} /\ c \in Owners
      /\ \A d \in Owners' : ptr'[d] = ptr[d] /\ asked'[d] = asked[d]
  BY <1>1, <1>4 DEF TypeOK, Owners
<1>8. PointersGood'
  <2>1. \A d \in Owners' : ptr[d] # b.addr
    BY <1>1, <1>2, <1>7 DEF PointersGood
  <2>2. \A d \in Owners' : \E e \in UsedBlocks' :
          /\ e.addr = ptr'[d] /\ e.addr # HEAP_BEGIN
          /\ e.size >= asked'[d].size /\ mem_is_aligned(e, asked'[d].align)
    BY <1>1, <1>6, <1>7, <2>1 DEF PointersGood
  <2>3. \A d, e \in Owners' : d # e => ptr'[d] # ptr'[e]
    BY <1>1, <1>7 DEF PointersGood
  <2>4. \A e \in UsedBlocks' : e.addr = HEAP_BEGIN \/ \E d \in Owners' : e.addr = ptr'[d]
    <3>1. \A e \in UsedBlocks' : e.addr # ptr[c]
      BY <1>1, <1>2, <1>6, SameAddress DEF Used
    <3> QED BY <1>1, <1>6, <1>7, <3>1 DEF PointersGood
  <2> QED BY <2>2, <2>3, <2>4 DEF PointersGood, mem_is_aligned
<1> QED BY <1>3, <1>4, <1>5, <1>8 DEF IInv

(* A krealloc keeps the invariant: the new block is not the old one.       *)
LEMMA ReallocInv ==
  ASSUME RequestsBounded, IInv, NEW c \in Clients, NEW req \in Sizes, Realloc(c, req)
  PROVE  IInv'
<1> DEFINE r == aligned_alloc(heap, MIN_ALIGN, req)
           q == [size |-> req, align |-> MIN_ALIGN]
<1>1. TypeOK /\ WellFormed(heap) /\ PointersGood /\ ptr[c] # 0
  BY DEF IInv, Realloc
<1>2. PICK b \in Used(heap) : b.addr = ptr[c] /\ b.addr # HEAP_BEGIN
  BY <1>1, OwnedBlock
<1>3. mem_get_block(heap, ptr[c]) = b
  BY <1>1, <1>2, FreeSpec
<1>4. \/ r.block = 0 /\ phase' = "aborted" /\ UNCHANGED <<heap, used_memory, ptr, asked, overrun>>
      \/ /\ r.block # 0
         /\ heap' = kfree(r.heap, ptr[c])
         /\ used_memory' = (used_memory + r.added - b.size) % UINT32
         /\ ptr' = [ptr EXCEPT ![c] = r.block] /\ asked' = [asked EXCEPT ![c] = q]
         /\ overrun' \in BOOLEAN /\ phase' = phase
  <2> DEFINE over == b.size > mem_get_block(r.heap, r.block).size
  <2>1. over \in BOOLEAN
    OBVIOUS
  <2>2. \/ r.block = 0 /\ phase' = "aborted" /\ UNCHANGED <<heap, used_memory, ptr, asked, overrun>>
        \/ /\ r.block # 0
           /\ heap' = kfree(r.heap, ptr[c])
           /\ used_memory' = (used_memory + r.added - b.size) % UINT32
           /\ ptr' = [ptr EXCEPT ![c] = r.block] /\ asked' = [asked EXCEPT ![c] = q]
           /\ overrun' = over /\ phase' = phase
    BY <1>3, Zenon DEF Realloc
  <2> HIDE DEF over, r, q
  <2> QED BY <2>1, <2>2
<1>5. /\ WellFormed(r.heap)
      /\ \/ r.block = 0
         \/ \E n \in Block :
              /\ r.block = n.addr /\ r.added = n.size
              /\ n.addr > HEAP_BEGIN /\ n.size >= req /\ mem_is_aligned(n, MIN_ALIGN)
              /\ n.used /\ Used(r.heap) = Used(setup(heap)) \cup {n}
              /\ \A d \in Used(setup(heap)) : d.addr # n.addr
  BY <1>1, AllocSpec
<1> HIDE DEF r
<1>6. CASE r.block = 0
  <2>1. phase' = "aborted" /\ heap' = heap /\ used_memory' = used_memory /\ ptr' = ptr
        /\ asked' = asked /\ overrun' = overrun
    BY <1>4, <1>6
  <2>2. TypeOK'
    BY <1>1, <2>1 DEF TypeOK
  <2>3. UsedBlocks' = UsedBlocks /\ Owners' = Owners
    BY <2>1 DEF UsedBlocks, Owners
  <2>4. PointersGood'
    BY <1>1, <2>1, <2>3 DEF PointersGood, mem_is_aligned
  <2> QED BY <1>1, <2>1, <2>2, <2>4 DEF IInv, WellFormed
<1>7. ASSUME r.block # 0 PROVE IInv'
  <2>1. PICK n \in Block :
          /\ r.block = n.addr /\ r.added = n.size
          /\ n.addr > HEAP_BEGIN /\ n.size >= req /\ mem_is_aligned(n, MIN_ALIGN)
          /\ n.used /\ Used(r.heap) = Used(setup(heap)) \cup {n}
          /\ \A d \in Used(setup(heap)) : d.addr # n.addr
    BY <1>5, <1>7
  <2>2. /\ heap' = kfree(r.heap, ptr[c])
        /\ used_memory' = (used_memory + r.added - b.size) % UINT32
        /\ ptr' = [ptr EXCEPT ![c] = r.block] /\ asked' = [asked EXCEPT ![c] = q]
        /\ overrun' \in BOOLEAN /\ phase' = phase
    BY <1>4, <1>7
  <2>3. /\ Used(heap) \subseteq Used(setup(heap))
        /\ \A d \in Used(setup(heap)) : d \in Used(heap) \/ d.addr = HEAP_BEGIN
    BY SetupUsed
  <2>4. b \in Used(r.heap) /\ b.addr # n.addr
    BY <2>1, <2>3
  <2>5. WellFormed(heap') /\ Used(heap') = Used(r.heap) \ {b}
    BY <1>2, <1>5, <2>2, <2>4, FreeSpec
  <2>6. TypeOK'
    <3>1. used_memory' \in 0 .. UINT32 - 1
      <4>1. b \in Block
        BY <1>1 DEF Used, WellFormed
      <4>2. used_memory + r.added - b.size \in Int
        BY <1>1, <2>1, <4>1, HeapConstants DEF TypeOK, Block
      <4> QED BY <2>2, <4>2, HeapConstants, ModRange
    <3>2. ptr' \in [Clients -> Nat]
      BY <1>1, <2>1, <2>2 DEF TypeOK, Block
    <3>3. asked' \in [Clients -> [size : Nat, align : Nat]]
      BY <1>1, <2>2, HeapConstants DEF TypeOK
    <3> QED BY <1>1, <2>2, <2>5, <3>1, <3>2, <3>3 DEF TypeOK, WellFormed
  <2>7. UsedBlocks = Used(heap) /\ UsedBlocks' = (Used(setup(heap)) \cup {n}) \ {b}
    BY <2>1, <2>5 DEF UsedBlocks, Used
  <2>8. n.addr # HEAP_BEGIN /\ n.addr # 0
    BY <2>1, HeapConstants DEF Block
  <2>9. /\ Owners' = Owners /\ c \in Owners
        /\ \A d \in Owners : d # c => ptr'[d] = ptr[d] /\ asked'[d] = asked[d]
        /\ ptr'[c] = n.addr /\ asked'[c].size = req /\ asked'[c].align = MIN_ALIGN
    BY <1>1, <2>1, <2>2, <2>8 DEF TypeOK, Owners
  <2>10. PointersGood'
    <3>1. \A d \in Owners : d # c => ptr[d] # b.addr /\ ptr[d] # n.addr
      BY <1>1, <1>2, <2>1, <2>3, <2>7, <2>9 DEF PointersGood
    <3>2. \A d \in Owners' : \E e \in UsedBlocks' :
            /\ e.addr = ptr'[d] /\ e.addr # HEAP_BEGIN
            /\ e.size >= asked'[d].size /\ mem_is_aligned(e, asked'[d].align)
      <4>1. n \in UsedBlocks'
        BY <2>4, <2>7
      <4>2. ASSUME NEW d \in Owners, d # c
            PROVE  \E e \in UsedBlocks' :
                     /\ e.addr = ptr'[d] /\ e.addr # HEAP_BEGIN
                     /\ e.size >= asked'[d].size /\ mem_is_aligned(e, asked'[d].align)
        <5>1. PICK e \in Used(heap) :
                 /\ e.addr = ptr[d] /\ e.addr # HEAP_BEGIN
                 /\ e.size >= asked[d].size /\ mem_is_aligned(e, asked[d].align)
          BY <1>1, <2>7 DEF PointersGood
        <5>2. e \in UsedBlocks'
          BY <2>3, <2>7, <3>1, <4>2, <5>1
        <5> QED BY <2>9, <4>2, <5>1, <5>2
      <4>3. /\ n.addr = ptr'[c] /\ n.addr # HEAP_BEGIN
            /\ n.size >= asked'[c].size /\ mem_is_aligned(n, asked'[c].align)
        BY <2>1, <2>8, <2>9
      <4> QED BY <2>9, <4>1, <4>2, <4>3
    <3>3. \A d, e \in Owners' : d # e => ptr'[d] # ptr'[e]
      BY <1>1, <2>9, <3>1 DEF PointersGood
    <3>4. \A e \in UsedBlocks' : e.addr = HEAP_BEGIN \/ \E d \in Owners' : e.addr = ptr'[d]
      <4>1. \A e \in Used(heap) : e # b => e.addr # ptr[c]
        BY <1>1, <1>2, SameAddress DEF Used
      <4> QED BY <1>1, <2>3, <2>7, <2>9, <4>1 DEF PointersGood
    <3> QED BY <3>2, <3>3, <3>4 DEF PointersGood, mem_is_aligned
  <2> QED BY <2>5, <2>6, <2>10 DEF IInv, WellFormed
<1> QED BY <1>6, <1>7

(* Every step of a client keeps the invariant.                             *)
LEMMA NextInv ==
  ASSUME RequestsBounded, IInv, [Next]_vars
  PROVE  IInv'
<1>1. ASSUME NEW c \in Clients, NEW align \in Aligns, NEW req \in Sizes, Alloc(c, align, req)
      PROVE  IInv'
  BY <1>1, AllocInv
<1>2. ASSUME NEW c \in Clients, Free(c) PROVE IInv'
  BY <1>2, FreeInv
<1>3. ASSUME NEW c \in Clients, NEW req \in Sizes, Realloc(c, req) PROVE IInv'
  BY <1>3, ReallocInv
<1>4. CASE UNCHANGED vars
  <2>1. TypeOK'
    BY <1>4 DEF IInv, TypeOK, vars
  <2>2. UsedBlocks' = UsedBlocks /\ Owners' = Owners
    BY <1>4 DEF UsedBlocks, Owners, vars
  <2>3. PointersGood'
    BY <1>4, <2>2 DEF IInv, PointersGood, mem_is_aligned, vars
  <2> QED BY <1>4, <2>1, <2>3 DEF IInv, WellFormed, vars
<1> QED BY <1>1, <1>2, <1>3, <1>4 DEF Next, AllocFree

(* Whatever clients allocate, free and reallocate, in whatever order, the  *)
(* heap stays a list of separate blocks, fillers included, inside the      *)
(* pages mapped for it, as long as no request is so large that the check   *)
(* of its end wraps.                                                       *)
THEOREM HeapSafe ==
  ASSUME RequestsBounded
  PROVE  Spec => []HeapWellFormed
<1>1. Init => IInv
  BY InitInv
<1>2. IInv /\ [Next]_vars => IInv'
  BY NextInv
<1>3. IInv => HeapWellFormed
  BY InvImplies
<1> QED BY <1>1, <1>2, <1>3, PTL DEF Spec

(* Under the same condition a client never gets a block that is too small, *)
(* badly aligned or another client's, and no block is lost.                *)
THEOREM PointersSafe ==
  ASSUME RequestsBounded
  PROVE  Spec => []PointersGood
<1>1. Init => IInv
  BY InitInv
<1>2. IInv /\ [Next]_vars => IInv'
  BY NextInv
<1>3. IInv => PointersGood
  BY InvImplies
<1> QED BY <1>1, <1>2, <1>3, PTL DEF Spec

-----------------------------------------------------------------------------
(* The used blocks can be counted: no two have the same address.           *)
LEMMA UsedFinite ==
  ASSUME NEW h, WellFormed(h)
  PROVE  Used(h) \in SUBSET BlocksBelow(HEAP_END) /\ IsFiniteSet(Used(h))
<1> DEFINE f == [b \in Used(h) |-> b.addr]
<1>1. \A b \in Used(h) : b \in h /\ b \in Block /\ b.addr \in 0 .. HEAP_END
                          /\ b.size \in 0 .. HEAP_END
  BY HeapConstants DEF WellFormed, Used, Block
<1>2. f \in Injection(Used(h), 0 .. HEAP_END)
  <2>1. f \in [Used(h) -> 0 .. HEAP_END]
    BY <1>1
  <2>2. \A b, d \in Used(h) : f[b] = f[d] => b = d
    BY <1>1, SameAddress
  <2> QED BY <2>1, <2>2 DEF Injection, IsInjective
<1>3. IsFiniteSet(0 .. HEAP_END)
  BY HeapConstants, FS_Interval
<1>4. IsFiniteSet(Used(h))
  BY <1>2, <1>3, FS_Injection
<1>5. Used(h) \subseteq BlocksBelow(HEAP_END)
  BY <1>1 DEF BlocksBelow, Block
<1> QED BY <1>4, <1>5

(* The sum grows by the size of a new block and shrinks by that of one     *)
(* that is freed.                                                          *)
LEMMA SumOfUsed ==
  ASSUME NEW h, WellFormed(h), NEW g, WellFormed(g), NEW b \in Block,
         b \notin Used(h), Used(g) = Used(h) \cup {b}
  PROVE  SumSize(Used(h)) \in Nat /\ SumSize(Used(g)) = SumSize(Used(h)) + b.size
<1>1. Used(h) \in SUBSET BlocksBelow(HEAP_END) /\ IsFiniteSet(Used(h))
      /\ Used(g) \in SUBSET BlocksBelow(HEAP_END)
  BY UsedFinite
<1>2. b \in BlocksBelow(HEAP_END) /\ HEAP_END \in Nat
  BY <1>1, HeapConstants
<1> QED BY <1>1, <1>2, SumOfOneMore

(* Setting the list up uses no memory.                                     *)
LEMMA SumOfSetup ==
  ASSUME NEW h, WellFormed(h)
  PROVE  SumSize(Used(setup(h))) = SumSize(Used(h)) /\ SumSize(Used(h)) \in Nat
<1>1. Used(h) \in SUBSET BlocksBelow(HEAP_END) /\ IsFiniteSet(Used(h)) /\ HEAP_END \in Nat
  BY UsedFinite, HeapConstants
<1>2. SumSize(Used(h)) \in Nat
  <2>1. SumSize(Used(h)) = Cardinality(Bytes(Used(h), HEAP_END))
    BY <1>1, SumCountsBytes
  <2>2. IsFiniteSet(Used(h) \X (1 .. HEAP_END))
    BY <1>1, CountToK, FS_Product
  <2>3. Bytes(Used(h), HEAP_END) \in SUBSET (Used(h) \X (1 .. HEAP_END))
    BY DEF Bytes
  <2> QED BY <2>1, <2>2, <2>3, FS_Subset, FS_CardinalityType
<1>3. CASE h = {}
  <2> DEFINE b == [addr |-> HEAP_BEGIN, size |-> 0, used |-> TRUE]
  <2>1. Used(h) = {} /\ Used(setup(h)) = Used(h) \cup {b}
    BY <1>3 DEF setup, Used
  <2>2. b \in Block /\ b \notin Used(h) /\ b.size = 0
    BY <2>1, HeapConstants DEF Block
  <2> HIDE DEF b
  <2>3. SumSize(Used(setup(h))) = SumSize(Used(h)) + b.size
    BY <2>1, <2>2, SetupWellFormed, SumOfUsed
  <2> QED BY <1>2, <2>2, <2>3
<1>4. CASE h # {}
  BY <1>2, <1>4 DEF setup
<1> QED BY <1>3, <1>4

(* Sums and differences of used_memory wrap as one sum does.               *)
LEMMA Wraps ==
  ASSUME NEW n \in Int, NEW k \in Int
  PROVE  /\ ((n % UINT32) + k) % UINT32 = (n + k) % UINT32
         /\ ((n % UINT32) - k) % UINT32 = (n - k) % UINT32
<1>1. UINT32 \in Nat \ {0} /\ -k \in Int /\ n % UINT32 \in Int
  BY HeapConstants
<1>2. ((n % UINT32) + (-k)) % UINT32 = (n + (-k)) % UINT32
  BY <1>1, ModAdd
<1>3. (n % UINT32) + (-k) = (n % UINT32) - k /\ n + (-k) = n - k
  BY <1>1
<1> QED BY <1>1, <1>2, <1>3, ModAdd

(* UsageExact in the next state.                                           *)
LEMMA UsageNext ==
  ASSUME used_memory' = SumSize(Used(heap')) % UINT32
  PROVE  UsageExact'
<1>1. UsedBlocks' = Used(heap')
  BY DEF UsedBlocks, Used
<1>2. used_memory' = SumSize(UsedBlocks') % UINT32
  BY <1>1
<1> QED BY <1>2, Zenon DEF UsageExact, SumSize, MapThenSumSet, MapThenFoldSet

(* used_memory is the sum after an allocation.                             *)
LEMMA AllocUsage ==
  ASSUME RequestsBounded, IInv, UsageExact,
         NEW c \in Clients, NEW align \in Aligns, NEW req \in Sizes, Alloc(c, align, req)
  PROVE  UsageExact'
<1> DEFINE r == aligned_alloc(heap, align, req)
           sum == SumSize(Used(heap))
<1>1. /\ heap' = r.heap /\ used_memory' = (used_memory + r.added) % UINT32
      /\ WellFormed(heap) /\ align \in Aligns \cup {MIN_ALIGN}
  BY DEF Alloc, IInv
<1>2. used_memory = sum % UINT32
  BY DEF UsageExact, SumSize, Used, UsedBlocks
<1>3. WellFormed(setup(heap)) /\ SumSize(Used(setup(heap))) = sum /\ sum \in Nat
  BY <1>1, SetupWellFormed, SumOfSetup
<1>4. r.added \in Nat /\ SumSize(Used(r.heap)) = sum + r.added
  <2>1. /\ WellFormed(r.heap)
        /\ \/ /\ r.block = 0 /\ r.added = 0
              /\ r.heap = setup(heap)
           \/ \E n \in Block :
                /\ r.block = n.addr /\ r.added = n.size
                /\ n.addr > HEAP_BEGIN /\ n.size >= req /\ mem_is_aligned(n, align)
                /\ n.used /\ Used(r.heap) = Used(setup(heap)) \cup {n}
                /\ \A d \in Used(setup(heap)) : d.addr # n.addr
    BY <1>1, AllocSpec
  <2> HIDE DEF r, sum
  <2>2. CASE r.added = 0 /\ r.heap = setup(heap)
    BY <1>3, <2>2
  <2>3. ASSUME NEW n \in Block, r.added = n.size,
               Used(r.heap) = Used(setup(heap)) \cup {n},
               \A d \in Used(setup(heap)) : d.addr # n.addr
        PROVE  r.added \in Nat /\ SumSize(Used(r.heap)) = sum + r.added
    <3>1. n \notin Used(setup(heap)) /\ n.size \in Nat
      BY <2>3 DEF Block
    <3>2. SumSize(Used(r.heap)) = SumSize(Used(setup(heap))) + n.size
      BY <1>3, <2>1, <2>3, <3>1, SumOfUsed
    <3> QED BY <1>3, <2>3, <3>1, <3>2
  <2> QED BY <2>1, <2>2, <2>3
<1> HIDE DEF r, sum
<1>5. ((sum % UINT32) + r.added) % UINT32 = (sum + r.added) % UINT32
  <2>1. sum \in Int /\ r.added \in Int
    BY <1>3, <1>4
  <2> QED BY <2>1, Wraps
<1>6. used_memory' = SumSize(Used(heap')) % UINT32
  BY <1>1, <1>2, <1>4, <1>5
<1> QED BY <1>6, UsageNext

(* ... after a kfree.                                                      *)
LEMMA FreeUsage ==
  ASSUME IInv, UsageExact, NEW c \in Clients, Free(c)
  PROVE  UsageExact'
<1> DEFINE h == kfree(heap, ptr[c])
           sum == SumSize(Used(h))
<1>1. WellFormed(heap) /\ ptr[c] # 0 /\ heap' = h
  BY DEF Free, IInv
<1>2. PICK b \in Used(heap) : b.addr = ptr[c] /\ b.addr # HEAP_BEGIN
  BY <1>1, OwnedBlock
<1>3. mem_get_block(heap, ptr[c]) = b /\ WellFormed(h) /\ Used(h) = Used(heap) \ {b}
  BY <1>1, <1>2, FreeSpec
<1>4. used_memory' = (used_memory - b.size) % UINT32
  BY <1>3 DEF Free
<1>5. b \in Block /\ b.size \in Nat
  BY <1>1, <1>2 DEF WellFormed, Used, Block
<1> HIDE DEF h
<1>6. b \notin Used(h) /\ Used(heap) = Used(h) \cup {b}
  BY <1>3
<1>7. sum \in Nat /\ SumSize(Used(heap)) = sum + b.size
  BY <1>1, <1>3, <1>5, <1>6, SumOfUsed
<1>8. used_memory = (sum + b.size) % UINT32
  BY <1>7 DEF UsageExact, SumSize, Used, UsedBlocks
<1> HIDE DEF sum
<1>9. (((sum + b.size) % UINT32) - b.size) % UINT32 = ((sum + b.size) - b.size) % UINT32
  BY <1>5, <1>7, Wraps
<1>10. (sum + b.size) - b.size = sum
  BY <1>5, <1>7
<1>11. used_memory' = SumSize(Used(heap')) % UINT32
  BY <1>1, <1>4, <1>8, <1>9, <1>10 DEF sum
<1> QED BY <1>11, UsageNext

(* ... and after a krealloc.                                               *)
LEMMA ReallocUsage ==
  ASSUME RequestsBounded, IInv, UsageExact,
         NEW c \in Clients, NEW req \in Sizes, Realloc(c, req)
  PROVE  UsageExact'
<1> DEFINE r == aligned_alloc(heap, MIN_ALIGN, req)
           h == kfree(r.heap, ptr[c])
           sum == SumSize(Used(heap))
<1>1. WellFormed(heap) /\ ptr[c] # 0
  BY DEF Realloc, IInv
<1>2. PICK b \in Used(heap) : b.addr = ptr[c] /\ b.addr # HEAP_BEGIN
  BY <1>1, OwnedBlock
<1>3. mem_get_block(heap, ptr[c]) = b /\ b \in Block /\ b.size \in Nat
  BY <1>1, <1>2, FreeSpec DEF WellFormed, Used, Block
<1>4. used_memory = sum % UINT32
  BY DEF UsageExact, SumSize, Used, UsedBlocks
<1>5. CASE r.block = 0
  <2>1. heap' = heap /\ used_memory' = used_memory
    BY <1>5 DEF Realloc
  <2>2. used_memory' = SumSize(Used(heap')) % UINT32
    BY <1>4, <2>1
  <2> QED BY <2>2, UsageNext
<1>6. ASSUME r.block # 0 PROVE UsageExact'
  <2>1. heap' = h /\ used_memory' = (used_memory + r.added - b.size) % UINT32
    BY <1>3, <1>6 DEF Realloc
  <2>2. WellFormed(setup(heap)) /\ SumSize(Used(setup(heap))) = sum /\ sum \in Nat
    BY <1>1, SetupWellFormed, SumOfSetup
  <2>3. WellFormed(r.heap)
    BY <1>1, AllocSpec
  <2>4. PICK n \in Block :
          /\ r.added = n.size /\ Used(r.heap) = Used(setup(heap)) \cup {n}
          /\ \A d \in Used(setup(heap)) : d.addr # n.addr
    BY <1>1, <1>6, AllocSpec
  <2> HIDE DEF r, h, sum
  <2>5. n \notin Used(setup(heap)) /\ n.size \in Nat
    BY <2>4 DEF Block
  <2>6. SumSize(Used(r.heap)) = sum + n.size
    BY <2>2, <2>3, <2>4, <2>5, SumOfUsed
  <2>7. b \in Used(r.heap)
    BY <2>4, SetupUsed
  <2>8. WellFormed(h) /\ Used(h) = Used(r.heap) \ {b}
    BY <1>2, <2>3, <2>7, FreeSpec DEF h
  <2>9. b \notin Used(h) /\ Used(r.heap) = Used(h) \cup {b}
    BY <2>7, <2>8
  <2>10. SumSize(Used(h)) \in Nat /\ SumSize(Used(r.heap)) = SumSize(Used(h)) + b.size
    BY <1>3, <2>3, <2>8, <2>9, SumOfUsed
  <2> DEFINE total == SumSize(Used(h))
             k == n.size - b.size
  <2> HIDE DEF total
  <2>11. total \in Int /\ k \in Int /\ sum \in Int /\ sum + k = total
    BY <1>3, <2>2, <2>5, <2>6, <2>10 DEF total
  <2>12. used_memory + r.added - b.size = (sum % UINT32) + k
    <3>1. sum % UINT32 \in Int
      BY <2>11, HeapConstants
    <3> QED BY <1>3, <1>4, <2>4, <2>5, <3>1
  <2> HIDE DEF k
  <2>13. ((sum % UINT32) + k) % UINT32 = total % UINT32
    BY <2>11, Wraps
  <2>14. used_memory' = SumSize(Used(heap')) % UINT32
    BY <2>1, <2>12, <2>13 DEF total
  <2> QED BY <2>14, UsageNext
<1> QED BY <1>5, <1>6

(* memory_usage is exact: used_memory, added to and subtracted from with   *)
(* wrap-around in three functions, is always the number of bytes of the    *)
(* used blocks.                                                            *)
THEOREM UsageAlwaysExact ==
  ASSUME RequestsBounded
  PROVE  Spec => []UsageExact
<1> DEFINE Inv == IInv /\ UsageExact
<1>1. Init => Inv
  <2> SUFFICES ASSUME Init PROVE Inv
    OBVIOUS
  <2>1. UsedBlocks = {} /\ used_memory = 0
    BY DEF Init, UsedBlocks
  <2>2. SumSize({}) = 0
    <3>1. {} \in SUBSET BlocksBelow(0) /\ IsFiniteSet({}) /\ Bytes({}, 0) = {}
      BY FS_EmptySet DEF Bytes
    <3> QED BY <3>1, SumCountsBytes, FS_EmptySet
  <2>3. 0 % UINT32 = 0
    BY HeapConstants
  <2>4. UsageExact
    BY <2>1, <2>2, <2>3 DEF UsageExact, SumSize
  <2> QED BY <2>4, InitInv
<1>2. Inv /\ [Next]_vars => Inv'
  <2> SUFFICES ASSUME Inv, [Next]_vars PROVE UsageExact'
    BY NextInv
  <2>1. ASSUME NEW c \in Clients, NEW align \in Aligns, NEW req \in Sizes, Alloc(c, align, req)
        PROVE  UsageExact'
    BY <2>1, AllocUsage
  <2>2. ASSUME NEW c \in Clients, Free(c) PROVE UsageExact'
    BY <2>2, FreeUsage
  <2>3. ASSUME NEW c \in Clients, NEW req \in Sizes, Realloc(c, req) PROVE UsageExact'
    BY <2>3, ReallocUsage
  <2>4. CASE UNCHANGED vars
    <3>1. heap' = heap /\ used_memory' = used_memory
      BY <2>4 DEF vars
    <3>2. used_memory = SumSize(Used(heap)) % UINT32
      BY DEF UsageExact, SumSize, Used, UsedBlocks
    <3>3. used_memory' = SumSize(Used(heap')) % UINT32
      BY <3>1, <3>2
    <3> QED BY <3>3, UsageNext
  <2> QED BY <2>1, <2>2, <2>3, <2>4 DEF Next, AllocFree
<1>3. Inv => UsageExact
  OBVIOUS
<1> QED BY <1>1, <1>2, <1>3, PTL DEF Spec
=============================================================================
