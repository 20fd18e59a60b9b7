----------------------------- MODULE PmmProofs -----------------------------
(***************************************************************************)
(* Proofs about the physical memory manager, for every bitmap size, block  *)
(* size, set of clients and boot information.                              *)
(***************************************************************************)
EXTENDS Pmm, CommonLemmas, FiniteSetTheorems, TLAPS

(* divide_up rounds up.                                                    *)
LEMMA DivideUp ==
  ASSUME NEW n \in Nat, NEW d \in Nat \ {0}
  PROVE  /\ divide_up(n, d) \in Nat
         /\ n <= d * divide_up(n, d)
         /\ d * divide_up(n, d) < n + d
<1>1. /\ n \div d \in Nat /\ n % d \in 0 .. d - 1
      /\ n = d * (n \div d) + (n % d)
  BY DivMod
<1>2. d * (1 + (n \div d)) = d * (n \div d) + d
  BY <1>1
<1>3. d * (n \div d) \in Nat
  BY <1>1
<1>4. CASE n % d = 0
  BY <1>1, <1>3, <1>4 DEF divide_up
<1>5. CASE n % d # 0
  BY <1>1, <1>2, <1>3, <1>5 DEF divide_up
<1> QED BY <1>4, <1>5

NBlocks == WORD_BITS * BITMAP_WORDS

(* 4 GiB is a whole number of blocks, and the bitmap has a bit for each.   *)
LEMMA Sizes ==
  /\ NBlocks \in Nat \ {0} /\ UINT32 = PMM_BLOCK_SIZE * NBlocks
  /\ UINT32 \in Nat \ {0} /\ Blocks = 0 .. NBlocks - 1
<1>1. NBlocks \in Nat \ {0}
  BY PmmAssumption DEF NBlocks
<1>2. UINT32 = PMM_BLOCK_SIZE * NBlocks
  BY PmmAssumption, <1>1 DEF UINT32, NBlocks
<1>3. UINT32 \in Nat \ {0}
  BY PmmAssumption, <1>1, <1>2
<1> QED BY <1>1, <1>2, <1>3 DEF Blocks, NBlocks

(* An area of memory that ends below 4 GiB is a range of blocks.           *)
LEMMA RegionInBlocks ==
  ASSUME NEW addr \in Nat, NEW size \in Nat, addr + size < UINT32
  PROVE  region(addr, size) \subseteq Blocks
<1> DEFINE B == PMM_BLOCK_SIZE
           base == addr \div B
           bytes == size + (addr % B)
           num == divide_up(bytes % UINT32, B)
<1>1. B \in Nat \ {0} /\ NBlocks \in Nat \ {0}
  BY PmmAssumption, Sizes
<1>2. /\ base \in Nat /\ addr % B \in 0 .. B - 1
      /\ addr = B * base + (addr % B)
  BY <1>1, DivMod
<1>3. B * base \in Nat
  BY <1>1, <1>2
<1>4. bytes \in 0 .. UINT32 - 1
  BY <1>2, <1>3, Sizes
<1>5. bytes % UINT32 = bytes
  BY <1>4, Sizes
<1>6. num \in Nat /\ B * num < bytes + B
  <2> bytes \in Nat
    BY <1>4
  <2> HIDE DEF bytes, B
  <2>1. divide_up(bytes, B) \in Nat /\ B * divide_up(bytes, B) < bytes + B
    BY <1>1, DivideUp
  <2> QED BY <1>5, <2>1
<1>7. B * num \in Nat /\ B * (base + num) = B * base + B * num
  BY <1>1, <1>2, <1>6
<1>8. B * (NBlocks + 1) = UINT32 + B
  BY <1>1, Sizes
<1>9. B * (base + num) < B * (NBlocks + 1)
  BY <1>1, <1>2, <1>3, <1>4, <1>6, <1>7, <1>8, Sizes
<1>10. base + num < NBlocks + 1
  BY <1>1, <1>2, <1>6, <1>9, MulCancel
<1>11. region(addr, size) = base .. base + num - 1
  BY DEF region
<1> QED BY <1>2, <1>6, <1>10, <1>11, Sizes

(* The kernel's own blocks are protected, block 0 among them.              *)
LEMMA TakenAtBoot ==
  ASSUME NEW b \in BootInfos
  PROVE  taken(b) \subseteq Blocks /\ 0 \in taken(b)
<1>1. IsBootInfo(b)
  BY PmmAssumption
<1> DEFINE ends == b.mod_ends \cup {b.KERNEL_END_PHYS}
<1>2. ends \subseteq 0 .. UINT32 - 1 /\ ends # {} /\ UINT32 - 1 \in Nat
  BY <1>1, Sizes DEF IsBootInfo
<1>3. kernel_end(b) \in 0 .. UINT32 - 1
  BY <1>2, MaxOfBounded DEF kernel_end
<1>4. protect_kernel(b) \subseteq Blocks
  <2>1. kernel_end(b) \in Nat /\ 0 + kernel_end(b) < UINT32
    BY <1>3, Sizes
  <2> QED BY <2>1, RegionInBlocks DEF protect_kernel
<1>5. protect_info(b) \subseteq Blocks
  BY <1>1, RegionInBlocks DEF protect_info, IsBootInfo
<1>6. 0 \in Blocks
  BY Sizes
<1> QED BY <1>4, <1>5, <1>6 DEF taken

(* The searches stay inside the bitmap.                                    *)
LEMMA ScanLimitInBitmap ==
  ASSUME mem_size \in 0 .. UINT32 - 1
  PROVE  /\ max_blocks \in Nat /\ max_blocks < NBlocks
         /\ ScanLimit \in Nat /\ ScanLimit < NBlocks
<1> DEFINE B == PMM_BLOCK_SIZE
<1>1. B \in Nat \ {0} /\ NBlocks \in Nat \ {0} /\ WORD_BITS \in Nat \ {0}
  BY PmmAssumption, Sizes
<1>2. /\ max_blocks \in Nat /\ mem_size % B \in 0 .. B - 1
      /\ mem_size = B * max_blocks + (mem_size % B)
  <2>1. mem_size \in Nat
    BY Sizes
  <2> QED BY <1>1, <2>1, DivMod DEF max_blocks
<1>3. B * max_blocks \in Nat
  BY <1>1, <1>2
<1>4. B * max_blocks < B * NBlocks
  BY <1>1, <1>2, <1>3, Sizes
<1>5. max_blocks < NBlocks
  BY <1>1, <1>2, <1>4, MulCancel
<1>6. /\ max_blocks \div WORD_BITS \in Nat /\ max_blocks % WORD_BITS \in 0 .. WORD_BITS - 1
      /\ max_blocks = WORD_BITS * (max_blocks \div WORD_BITS) + (max_blocks % WORD_BITS)
  BY <1>1, <1>2, DivMod
<1>7. ScanLimit = WORD_BITS * (max_blocks \div WORD_BITS) /\ ScanLimit \in Nat
  BY <1>1, <1>6 DEF ScanLimit
<1> QED BY <1>1, <1>2, <1>5, <1>6, <1>7

(* "In there, we are guaranteed to find an address that is aligned": the   *)
(* aligned large page lies inside the double frame that was found.         *)
LEMMA AlignedInsideFrame ==
  ASSUME NEW f \in Nat
  PROVE  /\ aligned_block(f) \in Nat
         /\ f < aligned_block(f) /\ aligned_block(f) <= f + LARGE_BLOCKS
<1>1. LARGE_BLOCKS \in Nat \ {0}
  BY PmmAssumption
<1>2. /\ f \div LARGE_BLOCKS \in Nat /\ f % LARGE_BLOCKS \in 0 .. LARGE_BLOCKS - 1
      /\ f = LARGE_BLOCKS * (f \div LARGE_BLOCKS) + (f % LARGE_BLOCKS)
  BY <1>1, DivMod
<1>3. LARGE_BLOCKS * (f \div LARGE_BLOCKS) \in Nat
  BY <1>1, <1>2
<1>4. aligned_block(f) = LARGE_BLOCKS * (f \div LARGE_BLOCKS) + LARGE_BLOCKS
  BY <1>1, <1>2 DEF aligned_block
<1> QED BY <1>1, <1>2, <1>3, <1>4

(* The bitmap is a finite set of bits, so it can be counted.               *)
LEMMA BlocksFinite ==
  ASSUME NEW S, S \subseteq Blocks
  PROVE  IsFiniteSet(S) /\ Cardinality(S) \in Nat /\ Cardinality(S) <= NBlocks
<1>1. 0 \in Int /\ NBlocks - 1 \in Int /\ NBlocks \in Nat \ {0}
  BY Sizes
<1>2. IsFiniteSet(Blocks) /\ Cardinality(Blocks) = NBlocks
  BY <1>1, FS_Interval, Sizes
<1>3. IsFiniteSet(S) /\ Cardinality(S) <= Cardinality(Blocks)
  BY <1>2, FS_Subset
<1>4. Cardinality(S) \in Nat
  BY <1>3, FS_CardinalityType
<1> QED BY <1>1, <1>2, <1>3, <1>4

(* An unsigned difference stays below 2^32.                                *)
LEMMA WrapRange ==
  ASSUME NEW n \in Int
  PROVE  n % UINT32 \in 0 .. UINT32 - 1
  BY Sizes, ModRange

-----------------------------------------------------------------------------
(* The inductive invariant.  HeldDisjoint alone is not inductive: that a   *)
(* search returns unheld blocks needs the bitmap to cover the holdings,    *)
(* and the searches are right only while block 0 is taken.                 *)
NothingHeldAtBoot == phase = "boot" => AllHeld = {}

IInv == TypeOK /\ NothingHeldAtBoot /\ HeldDisjoint /\ BitmapExact /\ CounterExact

(* used_blocks after init_pmm is a 32-bit number.                          *)
LEMMA UsedAtBootType ==
  ASSUME NEW b \in BootInfos, NEW size \in 0 .. UINT32 - 1
  PROVE  usedAtBoot(b, size) \in Nat
<1>1. protect_kernel(b) \subseteq Blocks /\ protect_info(b) \subseteq Blocks
  BY TakenAtBoot DEF taken
<1>2. Cardinality(protect_kernel(b)) \in Nat /\ Cardinality(protect_info(b)) \in Nat
  BY <1>1, BlocksFinite
<1>3. size \div PMM_BLOCK_SIZE \in Nat
  BY PmmAssumption, DivMod, Sizes
<1> QED BY <1>2, <1>3 DEF usedAtBoot

(* The state before init_pmm satisfies the invariant.                      *)
LEMMA InitInv == Init => IInv
<1> SUFFICES ASSUME Init PROVE IInv
  OBVIOUS
<1>1. TypeOK
  BY Sizes DEF Init, TypeOK
<1>2. AllHeld = {}
  BY DEF Init, AllHeld
<1>3. HeldDisjoint
  BY DEF Init, HeldDisjoint
<1> QED BY <1>1, <1>2, <1>3 DEF Init, IInv, NothingHeldAtBoot, BitmapExact, CounterExact

(* init_pmm establishes the invariant for every memory map.                *)
LEMMA BootInv ==
  ASSUME IInv, init_pmm
  PROVE  IInv'
<1> DEFINE size == available_bytes(boot) % UINT32
<1>1. boot \in BootInfos /\ boot' = boot /\ held' = held /\ AllHeld' = AllHeld /\ phase = "boot"
  BY DEF init_pmm, IInv, TypeOK, AllHeld
<1>2. AllHeld = {}
  BY <1>1 DEF IInv, NothingHeldAtBoot
<1>3. size \in 0 .. UINT32 - 1
  <2>1. available_bytes(boot) \in Nat
    BY <1>1, PmmAssumption DEF IsBootInfo
  <2> QED BY <2>1, WrapRange
<1>4. usedAtBoot(boot, size) \in Nat
  BY <1>1, <1>3, UsedAtBootType
<1> HIDE DEF size
<1>5. /\ phase' = "up" /\ bitmap' = taken(boot) /\ mem_size' = size
      /\ used_blocks' = usedAtBoot(boot, size) % UINT32
  BY DEF init_pmm, size
<1>6. TypeOK'
  <2>1. used_blocks' \in 0 .. UINT32 - 1
    BY <1>4, <1>5, WrapRange
  <2>2. bitmap' \subseteq Blocks
    BY <1>1, <1>5, TakenAtBoot
  <2> QED BY <1>1, <1>3, <1>5, <2>1, <2>2 DEF IInv, TypeOK
<1>7. HeldDisjoint' /\ NothingHeldAtBoot'
  BY <1>1, <1>2, <1>5 DEF IInv, HeldDisjoint, NothingHeldAtBoot
<1>8. taken(boot)' = taken(boot)
  BY <1>1
<1>9. BitmapExact'
  BY <1>1, <1>2, <1>5, <1>8 DEF BitmapExact
<1>10. Cardinality(AllHeld) = 0
  BY <1>2, FS_EmptySet
<1>11. usedAtBoot(boot, mem_size)' = usedAtBoot(boot, size)
  BY <1>1, <1>5
<1>12. CounterExact'
  BY <1>1, <1>4, <1>5, <1>10, <1>11 DEF CounterExact
<1> QED BY <1>6, <1>7, <1>9, <1>12 DEF IInv

(* Giving a client blocks whose bits are 0.                                *)
LEMMA GiveInv ==
  ASSUME IInv, phase = "up", NEW c \in Clients, NEW bits,
         bits \subseteq Blocks, bits \cap bitmap = {}, give(c, bits)
  PROVE  IInv'
<1>1. /\ bitmap' = bitmap \cup bits
      /\ used_blocks' = (used_blocks + Cardinality(bits)) % UINT32
      /\ held' = [held EXCEPT ![c] = @ \cup bits]
      /\ mem_size' = mem_size /\ phase' = phase /\ boot' = boot
  BY DEF give, mmap_set
<1>2. TypeOK /\ HeldDisjoint /\ BitmapExact /\ CounterExact
  BY DEF IInv
<1>3. Cardinality(bits) \in Nat /\ IsFiniteSet(bits)
  BY BlocksFinite
<1>4. TypeOK'
  <2>1. used_blocks' \in 0 .. UINT32 - 1
    <3>1. used_blocks + Cardinality(bits) \in Int
      BY <1>2, <1>3, Sizes DEF TypeOK
    <3> QED BY <1>1, <3>1, WrapRange
  <2>2. held' \in [Clients -> SUBSET Blocks]
    BY <1>1, <1>2 DEF TypeOK
  <2> QED BY <1>1, <1>2, <2>1, <2>2 DEF TypeOK
<1>5. AllHeld' = AllHeld \cup bits
  BY <1>1, <1>2 DEF AllHeld, TypeOK
<1>6. AllHeld \subseteq bitmap /\ AllHeld \subseteq Blocks
  BY <1>2, phase = "up" DEF BitmapExact, TypeOK
<1>7. HeldDisjoint'
  BY <1>1, <1>2, <1>6 DEF HeldDisjoint, TypeOK, AllHeld
<1>8. taken(boot)' = taken(boot) /\ usedAtBoot(boot, mem_size)' = usedAtBoot(boot, mem_size)
  BY <1>1
<1>9. BitmapExact'
  BY <1>1, <1>2, <1>5, <1>8, phase = "up" DEF BitmapExact
<1>10. Cardinality(AllHeld \cup bits) = Cardinality(AllHeld) + Cardinality(bits)
       /\ Cardinality(AllHeld) \in Nat
  <2>1. AllHeld \cap bits = {}
    BY <1>6
  <2>2. IsFiniteSet(AllHeld) /\ Cardinality(AllHeld) \in Nat
    BY <1>6, BlocksFinite
  <2>3. Cardinality(AllHeld \cap bits) = 0
    BY <2>1, FS_EmptySet
  <2>4. Cardinality(AllHeld \cup bits)
          = Cardinality(AllHeld) + Cardinality(bits) - Cardinality(AllHeld \cap bits)
    BY <1>3, <2>2, FS_Union
  <2> QED BY <1>3, <2>2, <2>3, <2>4
<1>11. usedAtBoot(boot, mem_size) \in Nat
  BY <1>2, UsedAtBootType DEF TypeOK
<1>12. CounterExact'
  <2> DEFINE u == usedAtBoot(boot, mem_size)
             h == Cardinality(AllHeld)
             k == Cardinality(bits)
  <2>1. used_blocks = (u + h) % UINT32
    BY <1>2, phase = "up" DEF CounterExact
  <2>2. u + h \in Int /\ k \in Int /\ UINT32 \in Nat \ {0}
    BY <1>3, <1>10, <1>11, Sizes
  <2>3. used_blocks' = ((u + h) + k) % UINT32
    BY <1>1, <2>1, <2>2, ModAdd
  <2>4. u + (h + k) = (u + h) + k
    BY <1>3, <1>10, <1>11
  <2> QED BY <1>5, <1>8, <1>10, <2>3, <2>4 DEF CounterExact
<1>13. NothingHeldAtBoot'
  BY <1>1, phase = "up" DEF NothingHeldAtBoot
<1> QED BY <1>4, <1>7, <1>9, <1>12, <1>13 DEF IInv

(* Taking back blocks the client holds.                                    *)
LEMMA TakeBackInv ==
  ASSUME IInv, phase = "up", NEW c \in Clients, NEW bits,
         bits \subseteq held[c], take_back(c, bits)
  PROVE  IInv'
<1>1. /\ bitmap' = bitmap \ bits
      /\ used_blocks' = (used_blocks - Cardinality(bits)) % UINT32
      /\ held' = [held EXCEPT ![c] = @ \ bits]
      /\ mem_size' = mem_size /\ phase' = phase /\ boot' = boot
  BY DEF take_back, mmap_unset
<1>2. TypeOK /\ HeldDisjoint /\ BitmapExact /\ CounterExact
  BY DEF IInv
<1>3. bits \subseteq Blocks /\ bits \subseteq AllHeld
  BY <1>2 DEF TypeOK, AllHeld
<1>4. Cardinality(bits) \in Nat /\ IsFiniteSet(bits)
  BY <1>3, BlocksFinite
<1>5. TypeOK'
  <2>1. used_blocks' \in 0 .. UINT32 - 1
    <3>1. used_blocks - Cardinality(bits) \in Int
      BY <1>2, <1>4, Sizes DEF TypeOK
    <3> QED BY <1>1, <3>1, WrapRange
  <2>2. held' \in [Clients -> SUBSET Blocks]
    BY <1>1, <1>2 DEF TypeOK
  <2> QED BY <1>1, <1>2, <2>1, <2>2 DEF TypeOK
<1>6. AllHeld' = AllHeld \ bits
  BY <1>1, <1>2 DEF AllHeld, TypeOK, HeldDisjoint
<1>7. HeldDisjoint'
  BY <1>1, <1>2 DEF HeldDisjoint, TypeOK
<1>8. taken(boot)' = taken(boot) /\ usedAtBoot(boot, mem_size)' = usedAtBoot(boot, mem_size)
  BY <1>1
<1>9. BitmapExact'
  BY <1>1, <1>2, <1>3, <1>6, <1>8, phase = "up" DEF BitmapExact
<1>10. Cardinality(AllHeld \ bits) = Cardinality(AllHeld) - Cardinality(bits)
       /\ Cardinality(AllHeld) \in Nat
  <2>1. AllHeld \cap bits = bits
    BY <1>3
  <2>2. AllHeld \subseteq Blocks
    BY <1>2 DEF TypeOK, AllHeld
  <2>3. IsFiniteSet(AllHeld) /\ Cardinality(AllHeld) \in Nat
    BY <2>2, BlocksFinite
  <2>4. Cardinality(AllHeld \ bits) = Cardinality(AllHeld) - Cardinality(AllHeld \cap bits)
    BY <1>4, <2>3, FS_Difference
  <2> QED BY <2>1, <2>3, <2>4
<1>11. usedAtBoot(boot, mem_size) \in Nat
  BY <1>2, UsedAtBootType DEF TypeOK
<1>12. CounterExact'
  <2> DEFINE u == usedAtBoot(boot, mem_size)
             h == Cardinality(AllHeld)
             k == Cardinality(bits)
  <2>1. used_blocks = (u + h) % UINT32
    BY <1>2, phase = "up" DEF CounterExact
  <2>2. u + h \in Int /\ -k \in Int /\ UINT32 \in Nat \ {0}
    BY <1>4, <1>10, <1>11, Sizes
  <2>3. ((u + h) % UINT32) + (-k) = ((u + h) % UINT32) - k
    BY <1>4, <2>2
  <2>4. used_blocks' = ((u + h) + (-k)) % UINT32
    BY <1>1, <2>1, <2>2, <2>3, ModAdd
  <2>5. u + (h - k) = (u + h) + (-k)
    BY <1>4, <1>10, <1>11
  <2> QED BY <1>6, <1>8, <1>10, <2>4, <2>5 DEF CounterExact
<1>13. NothingHeldAtBoot'
  BY <1>1, phase = "up" DEF NothingHeldAtBoot
<1> QED BY <1>5, <1>7, <1>9, <1>12, <1>13 DEF IInv

(* What each allocating call gives away was free.                          *)
Fresh(bits) == bits \subseteq Blocks /\ bits \cap bitmap = {}

(* The block of pmm_alloc_page is a free block of the bitmap.              *)
LEMMA FreshPage ==
  ASSUME IInv, phase = "up", mmap_find_free(bitmap, ScanLimit) # 0
  PROVE  Fresh({mmap_find_free(bitmap, ScanLimit)})
<1>1. ScanLimit \in Nat /\ ScanLimit < NBlocks
  BY ScanLimitInBitmap DEF IInv, TypeOK
<1> QED BY <1>1, FindFreeIsFree, Sizes DEF Fresh

(* The blocks of pmm_alloc_pages are free blocks of the bitmap.            *)
LEMMA FreshFrame ==
  ASSUME IInv, phase = "up", NEW num \in Nat, NEW b,
         b = mmap_find_free_frame(bitmap, ScanLimit, num), b # 0
  PROVE  b \in Nat /\ Fresh(b .. b + num - 1)
<1>1. ScanLimit \in Nat /\ ScanLimit < NBlocks
  BY ScanLimitInBitmap DEF IInv, TypeOK
<1>2. 0 \in bitmap
  BY phase = "up", TakenAtBoot DEF IInv, TypeOK, BitmapExact
<1>3. /\ b \in Nat \ {0} /\ b + num <= ScanLimit
      /\ \A i \in b .. b + num - 1 : i \notin bitmap
  BY <1>1, <1>2, FindFreeFrameIsFree
<1> QED BY <1>1, <1>3, Sizes DEF Fresh

(* The blocks of pmm_alloc_aligned_large_page are free blocks.             *)
LEMMA FreshLargePage ==
  ASSUME IInv, phase = "up", NEW f, NEW b,
         f = mmap_find_free_frame(bitmap, ScanLimit, 2 * LARGE_BLOCKS), f # 0,
         b = aligned_block(f)
  PROVE  Fresh(b .. b + LARGE_BLOCKS - 1)
<1>1. 2 * LARGE_BLOCKS \in Nat /\ LARGE_BLOCKS \in Nat
  BY PmmAssumption
<1>2. f \in Nat /\ Fresh(f .. f + 2 * LARGE_BLOCKS - 1)
  BY <1>1, FreshFrame
<1>3. b \in Nat /\ f < b /\ b <= f + LARGE_BLOCKS
  BY <1>2, AlignedInsideFrame
<1>4. b .. b + LARGE_BLOCKS - 1 \subseteq f .. f + 2 * LARGE_BLOCKS - 1
  BY <1>1, <1>2, <1>3
<1> QED BY <1>2, <1>4 DEF Fresh

(* Every step of Next initialises, gives free blocks, takes back held      *)
(* blocks, aborts, or changes nothing.                                     *)
LEMMA StepCases ==
  ASSUME IInv, [Next]_vars
  PROVE  \/ init_pmm
         \/ \E c \in Clients : \E bits \in SUBSET Blocks :
              phase = "up" /\ bits \cap bitmap = {} /\ give(c, bits)
         \/ \E c \in Clients : \E bits \in SUBSET held[c] :
              phase = "up" /\ take_back(c, bits)
         \/ /\ phase = "up" /\ blocks_left <= 0 /\ phase' = "aborted"
            /\ UNCHANGED <<bitmap, used_blocks, mem_size, held, boot>>
         \/ UNCHANGED vars
<1>1. CASE init_pmm
  BY <1>1
<1>2. ASSUME NEW c \in Clients, pmm_alloc_page(c)
      PROVE  \/ \E bits \in SUBSET Blocks :
                  phase = "up" /\ bits \cap bitmap = {} /\ give(c, bits)
             \/ /\ phase = "up" /\ blocks_left <= 0 /\ phase' = "aborted"
                /\ UNCHANGED <<bitmap, used_blocks, mem_size, held, boot>>
             \/ UNCHANGED vars
  <2> DEFINE b == mmap_find_free(bitmap, ScanLimit)
  <2>1. phase = "up" /\ (b # 0 => {b} \in SUBSET Blocks /\ {b} \cap bitmap = {})
    BY <1>2, FreshPage DEF pmm_alloc_page, Fresh
  <2> QED BY <1>2, <2>1 DEF pmm_alloc_page
<1>3. ASSUME NEW c \in Clients, NEW num \in PageCounts, pmm_alloc_pages(c, num)
      PROVE  \/ \E bits \in SUBSET Blocks :
                  phase = "up" /\ bits \cap bitmap = {} /\ give(c, bits)
             \/ UNCHANGED vars
  <2> DEFINE b == mmap_find_free_frame(bitmap, ScanLimit, num)
  <2>1. num \in Nat /\ phase = "up"
    BY <1>3, PmmAssumption DEF pmm_alloc_pages
  <2>2. b # 0 => (b .. b + num - 1) \in SUBSET Blocks /\ (b .. b + num - 1) \cap bitmap = {}
    BY <2>1, FreshFrame DEF Fresh
  <2>3. (b # 0 /\ give(c, b .. b + num - 1)) \/ UNCHANGED vars
    BY <1>3 DEF pmm_alloc_pages
  <2> HIDE DEF b
  <2> QED BY <2>1, <2>2, <2>3
<1>4. ASSUME NEW c \in Clients, pmm_alloc_aligned_large_page(c)
      PROVE  \/ \E bits \in SUBSET Blocks :
                  phase = "up" /\ bits \cap bitmap = {} /\ give(c, bits)
             \/ UNCHANGED vars
  <2> DEFINE f == mmap_find_free_frame(bitmap, ScanLimit, 2 * LARGE_BLOCKS)
             b == aligned_block(f)
  <2>1. phase = "up"
    BY <1>4 DEF pmm_alloc_aligned_large_page
  <2>2. f # 0 => /\ (b .. b + LARGE_BLOCKS - 1) \in SUBSET Blocks
                 /\ (b .. b + LARGE_BLOCKS - 1) \cap bitmap = {}
    BY <2>1, FreshLargePage DEF Fresh
  <2>3. (f # 0 /\ give(c, b .. b + LARGE_BLOCKS - 1)) \/ UNCHANGED vars
    BY <1>4 DEF pmm_alloc_aligned_large_page
  <2> HIDE DEF f, b
  <2> QED BY <2>1, <2>2, <2>3
<1>5. ASSUME NEW c \in Clients, NEW block \in Blocks, pmm_free_page(c, block)
      PROVE  \E bits \in SUBSET held[c] : phase = "up" /\ take_back(c, bits)
  BY <1>5 DEF pmm_free_page
<1>6. ASSUME NEW c \in Clients, NEW block \in Blocks, NEW num \in PageCounts,
             pmm_free_pages(c, block, num)
      PROVE  \E bits \in SUBSET held[c] : phase = "up" /\ take_back(c, bits)
  BY <1>6 DEF pmm_free_pages
<1> QED BY <1>1, <1>2, <1>3, <1>4, <1>5, <1>6 DEF Next

(* Every call preserves the invariant.                                     *)
LEMMA NextInv ==
  ASSUME IInv, [Next]_vars
  PROVE  IInv'
<1>1. CASE init_pmm
  BY <1>1, BootInv
<1>2. ASSUME NEW c \in Clients, NEW bits \in SUBSET Blocks,
             phase = "up", bits \cap bitmap = {}, give(c, bits)
      PROVE  IInv'
  BY <1>2, GiveInv
<1>3. ASSUME NEW c \in Clients, NEW bits \in SUBSET held[c],
             phase = "up", take_back(c, bits)
      PROVE  IInv'
  BY <1>3, TakeBackInv
<1>4. CASE /\ phase = "up" /\ phase' = "aborted"
           /\ UNCHANGED <<bitmap, used_blocks, mem_size, held, boot>>
  BY <1>4 DEF IInv, TypeOK, NothingHeldAtBoot, HeldDisjoint, BitmapExact,
              CounterExact, AllHeld
<1>5. CASE UNCHANGED vars
  BY <1>5 DEF vars, IInv, TypeOK, NothingHeldAtBoot, HeldDisjoint, BitmapExact,
              CounterExact, AllHeld
<1> QED BY <1>1, <1>2, <1>3, <1>4, <1>5, StepCases

-----------------------------------------------------------------------------
(* In every behaviour of the memory manager its variables have their       *)
(* types, no block is given to two clients, the bitmap marks exactly the   *)
(* blocks init_pmm protected and the blocks held, and used_blocks counts   *)
(* the blocks held modulo 2^32.                                            *)
THEOREM AllocationsSafe ==
  Spec => [](TypeOK /\ HeldDisjoint /\ BitmapExact /\ CounterExact)
<1>1. IInv => TypeOK /\ HeldDisjoint /\ BitmapExact /\ CounterExact
  BY DEF IInv
<1> QED BY InitInv, NextInv, <1>1, PTL DEF Spec

(* Block 0 belongs to the kernel: at least one block is protected.         *)
LEMMA KernelProtected ==
  ASSUME NEW b \in BootInfos
  PROVE  0 \in protect_kernel(b)
<1>1. IsBootInfo(b)
  BY PmmAssumption
<1> DEFINE ends == b.mod_ends \cup {b.KERNEL_END_PHYS}
           k == kernel_end(b)
           num == divide_up((k + (0 % PMM_BLOCK_SIZE)) % UINT32, PMM_BLOCK_SIZE)
<1>2. ends \subseteq 0 .. UINT32 - 1 /\ UINT32 - 1 \in Nat
      /\ b.KERNEL_END_PHYS \in ends /\ b.KERNEL_END_PHYS >= 1
  BY <1>1, Sizes DEF IsBootInfo
<1>3. k \in ends /\ \A y \in ends : k >= y
  BY <1>2, MaxOfBounded DEF kernel_end
<1>4. k \in 1 .. UINT32 - 1
  <2>1. k \in 0 .. UINT32 - 1 /\ k >= b.KERNEL_END_PHYS
    BY <1>2, <1>3
  <2>2. b.KERNEL_END_PHYS \in 0 .. UINT32 - 1
    BY <1>2
  <2> HIDE DEF k, ends
  <2> QED BY <1>2, <2>1, <2>2, Sizes
<1> HIDE DEF k, ends
<1>5. PMM_BLOCK_SIZE \in Nat \ {0} /\ UINT32 \in Nat \ {0}
  BY PmmAssumption, Sizes
<1>6. 0 % PMM_BLOCK_SIZE = 0 /\ 0 \div PMM_BLOCK_SIZE = 0
  BY <1>5
<1>7. (k + (0 % PMM_BLOCK_SIZE)) % UINT32 = k
  BY <1>4, <1>5, <1>6
<1>8. k \in Nat
  BY <1>4
<1>9. num \in Nat /\ k <= PMM_BLOCK_SIZE * num
  BY <1>5, <1>7, <1>8, DivideUp
<1>10. num # 0
  BY <1>4, <1>5, <1>9
<1>11. protect_kernel(b) = 0 .. 0 + num - 1
  BY <1>6 DEF protect_kernel, region, k
<1> QED BY <1>9, <1>10, <1>11

(* The guard of pmm_alloc_page is dead: the unsigned difference of the     *)
(* counters is 2^32 minus the blocks protected and held, never 0.          *)
LEMMA GuardDead ==
  ASSUME IInv, phase = "up"
  PROVE  blocks_left > 0
<1> DEFINE K == Cardinality(protect_kernel(boot))
           F == Cardinality(protect_info(boot))
           h == Cardinality(AllHeld)
           T == K + F + h
           q == (max_blocks + T) \div UINT32
<1>1. /\ boot \in BootInfos /\ mem_size \in 0 .. UINT32 - 1
      /\ AllHeld \subseteq Blocks /\ CounterExact
  BY DEF IInv, TypeOK, AllHeld
<1>2. max_blocks \in Nat
  BY <1>1, ScanLimitInBitmap
<1>3. protect_kernel(boot) \subseteq Blocks /\ protect_info(boot) \subseteq Blocks
  BY <1>1, TakenAtBoot DEF taken
<1>4. /\ K \in Nat /\ K <= NBlocks /\ IsFiniteSet(protect_kernel(boot))
      /\ F \in Nat /\ F <= NBlocks /\ h \in Nat /\ h <= NBlocks
  BY <1>1, <1>3, BlocksFinite
<1>5. K # 0
  BY <1>1, <1>4, KernelProtected, FS_EmptySet
<1>6. used_blocks = (max_blocks + T) % UINT32
  <2>1. used_blocks = (usedAtBoot(boot, mem_size) + h) % UINT32
    BY <1>1, phase = "up" DEF CounterExact
  <2>2. usedAtBoot(boot, mem_size) = max_blocks + K + F
    BY DEF usedAtBoot, max_blocks
  <2>3. (max_blocks + K + F) + h = max_blocks + T
    BY <1>2, <1>4
  <2> QED BY <2>1, <2>2, <2>3
<1> HIDE DEF K, F, h
<1>7. T \in Nat /\ T >= 1 /\ T <= 3 * NBlocks
  BY <1>4, <1>5, Sizes
<1>8. 3 * NBlocks < UINT32
  <2>1. PMM_BLOCK_SIZE \in Nat /\ 3 < PMM_BLOCK_SIZE /\ NBlocks \in Nat \ {0}
    BY PmmAssumption, Sizes
  <2>2. NBlocks * 3 + NBlocks <= NBlocks * PMM_BLOCK_SIZE
    BY <2>1, MulMonotone
  <2>3. NBlocks * PMM_BLOCK_SIZE = UINT32
    BY <2>1, Sizes
  <2> QED BY <2>1, <2>2, <2>3
<1>9. UINT32 - T \in 0 .. UINT32 - 1 /\ UINT32 - T > 0
  BY <1>7, <1>8, Sizes
<1> HIDE DEF T
<1>10. q \in Nat /\ max_blocks + T = UINT32 * q + used_blocks
  <2>1. max_blocks + T \in Nat /\ UINT32 \in Nat \ {0}
    BY <1>2, <1>7, Sizes
  <2>2. /\ q \in Nat
        /\ max_blocks + T = UINT32 * q + ((max_blocks + T) % UINT32)
    BY <2>1, DivMod
  <2> QED BY <1>6, <2>2
<1> HIDE DEF q
<1>11. used_blocks \in Nat
  BY Sizes DEF IInv, TypeOK
<1> DEFINE x == UINT32 * q
           y == UINT32 * (q - 1)
<1>12. x \in Int /\ y = x - UINT32 /\ UINT32 \in Int
  BY <1>10, Sizes
<1> HIDE DEF x, y
<1>13. max_blocks - used_blocks = UINT32 * (q - 1) + (UINT32 - T)
  <2>1. max_blocks + T = x + used_blocks
    BY <1>10 DEF x
  <2>2. max_blocks - used_blocks = y + (UINT32 - T)
    BY <1>2, <1>7, <1>11, <1>12, <2>1
  <2> QED BY <2>2 DEF y
<1>14. (max_blocks - used_blocks) % UINT32 = UINT32 - T
  <2>1. max_blocks - used_blocks \in Int /\ q - 1 \in Int /\ UINT32 \in Nat \ {0}
    BY <1>2, <1>10, <1>11, Sizes
  <2> QED BY <1>9, <1>13, <2>1, ModUnique
<1> QED BY <1>9, <1>14 DEF blocks_left

(* pmm_alloc_page never reaches its abort(): the out-of-memory guard       *)
(* compares unsigned counters that init_pmm left on the wrong side of each *)
(* other, and no sequence of allocations and releases brings them back.    *)
THEOREM GuardNeverFires == Spec => []NeverAborts
<1>1. Init => NeverAborts
  BY DEF Init, NeverAborts
<1>2. IInv /\ NeverAborts /\ [Next]_vars => NeverAborts'
  <2> SUFFICES ASSUME IInv, NeverAborts, [Next]_vars PROVE NeverAborts'
    OBVIOUS
  <2>1. phase' \in {"up", phase} \/ (phase = "up" /\ blocks_left <= 0)
    BY StepCases DEF init_pmm, give, take_back, vars
  <2>2. blocks_left \in Int
    <3>1. max_blocks - used_blocks \in Int
      BY ScanLimitInBitmap DEF IInv, TypeOK
    <3> QED BY <3>1, WrapRange DEF blocks_left
  <2> QED BY <2>1, <2>2, GuardDead DEF NeverAborts
<1> QED BY InitInv, NextInv, <1>1, <1>2, PTL DEF Spec

(* The bitmap allocator implements the abstract page allocator: the calls  *)
(* of pmm.c are steps of PageAllocator for every memory map.               *)
THEOREM Refinement == Spec => ImplementsPageAllocator
<1>1. Init => Allocator!Init
  BY DEF Init, Allocator!Init
<1>2. IInv /\ [Next]_vars => [Allocator!Next]_Allocator!vars
  <2> SUFFICES ASSUME IInv, [Next]_vars PROVE [Allocator!Next]_Allocator!vars
    OBVIOUS
  <2>1. CASE init_pmm
    <3>1. Allocator!Boot
      BY <2>1 DEF init_pmm, Allocator!Boot
    <3> QED BY <3>1 DEF Allocator!Next
  <2>2. ASSUME NEW c \in Clients, NEW bits \in SUBSET Blocks,
               phase = "up", bits \cap bitmap = {}, give(c, bits)
        PROVE  Allocator!Next
    <3>1. bits \in SUBSET (Blocks \ bitmap)
      BY <2>2
    <3>2. phase' = "up" /\ Blocks \ bitmap' = (Blocks \ bitmap) \ bits
      BY <2>2 DEF give, mmap_set
    <3>3. Allocator!Allocate(c)
      BY <2>2, <3>1, <3>2 DEF give, Allocator!Allocate
    <3> QED BY <3>3 DEF Allocator!Next
  <2>3. ASSUME NEW c \in Clients, NEW bits \in SUBSET held[c],
               phase = "up", take_back(c, bits)
        PROVE  Allocator!Next
    <3>1. bits \subseteq Blocks
      BY <2>3 DEF IInv, TypeOK
    <3>2. phase' = "up" /\ Blocks \ bitmap' = (Blocks \ bitmap) \cup bits
      BY <2>3, <3>1 DEF take_back, mmap_unset
    <3>3. Allocator!Release(c)
      BY <2>3, <3>2 DEF take_back, Allocator!Release
    <3> QED BY <3>3 DEF Allocator!Next
  <2>4. CASE /\ phase = "up" /\ phase' = "aborted"
             /\ UNCHANGED <<bitmap, used_blocks, mem_size, held, boot>>
    BY <2>4 DEF Allocator!vars
  <2>5. CASE UNCHANGED vars
    BY <2>5 DEF vars, Allocator!vars
  <2> QED BY <2>1, <2>2, <2>3, <2>4, <2>5, StepCases
<1> QED BY InitInv, NextInv, <1>1, <1>2, PTL DEF Spec, ImplementsPageAllocator, Allocator!Spec

(* A block pmm_init_region opens for an area overlaps the area, also when  *)
(* its length is cut to 32 bits.                                           *)
LEMMA OpenedIsMemory ==
  ASSUME NEW e, e.base_addr \in Nat, e.base_addr < UINT32, e.length \in Nat,
         NEW block \in region(e.base_addr % UINT32, e.length % UINT32)
  PROVE  overlaps(block, e)
<1> DEFINE B == PMM_BLOCK_SIZE
           addr == e.base_addr
           len == e.length % UINT32
           base == addr \div B
           bytes == len + (addr % B)
           num == divide_up(bytes % UINT32, B)
<1>1. B \in Nat \ {0} /\ UINT32 \in Nat \ {0}
  BY PmmAssumption, Sizes
<1>2. addr \in Nat /\ addr % UINT32 = addr /\ len \in Nat /\ len <= e.length
  <2>1. addr \in Nat /\ addr % UINT32 = addr
    BY <1>1
  <2>2. len \in 0 .. UINT32 - 1 /\ e.length \div UINT32 \in Nat
        /\ e.length = UINT32 * (e.length \div UINT32) + len
    BY <1>1, DivMod
  <2>3. UINT32 * (e.length \div UINT32) \in Nat
    BY <1>1, <2>2
  <2> QED BY <2>1, <2>2, <2>3
<1>3. /\ base \in Nat /\ addr % B \in 0 .. B - 1
      /\ addr = B * base + (addr % B)
  BY <1>1, <1>2, DivMod
<1>4. block \in base .. base + num - 1
  BY <1>2 DEF region
<1> HIDE DEF addr, len
<1>5. bytes \in Nat /\ bytes % UINT32 \in Nat /\ bytes % UINT32 <= bytes
  <2>1. bytes \in Nat
    BY <1>1, <1>2, <1>3
  <2>2. bytes % UINT32 \in 0 .. UINT32 - 1 /\ bytes \div UINT32 \in Nat
        /\ bytes = UINT32 * (bytes \div UINT32) + (bytes % UINT32)
    <3> HIDE DEF bytes
    <3> QED BY <1>1, <2>1, DivMod
  <2>3. UINT32 * (bytes \div UINT32) \in Nat
    BY <1>1, <2>2
  <2> HIDE DEF bytes
  <2> QED BY <2>1, <2>2, <2>3
<1>6. num \in Nat /\ B * num < (bytes % UINT32) + B
  <2> HIDE DEF bytes, B
  <2> QED BY <1>1, <1>5, DivideUp
<1> HIDE DEF base, num
<1>7. block \in Nat /\ base <= block /\ block + 1 <= base + num
  BY <1>3, <1>4, <1>6
<1>8. B * (base + num) = B * base + B * num /\ B * base \in Nat /\ B * num \in Nat
      /\ B * block \in Nat /\ B * (block + 1) = B * block + B
      /\ block * B = B * block /\ (block + 1) * B = B * (block + 1)
  BY <1>1, <1>3, <1>6, <1>7
<1>9. B * base <= B * block /\ B * (block + 1) <= B * (base + num)
  <2>1. ~(B * block < B * base)
    BY <1>1, <1>3, <1>7, MulCancel
  <2>2. ~(B * (base + num) < B * (block + 1))
    <3>1. base + num \in Int /\ block + 1 \in Int
      BY <1>3, <1>6, <1>7
    <3> QED BY <1>1, <1>7, <3>1, MulCancel
  <2>3. /\ B * block \in Int /\ B * base \in Int
        /\ B * (base + num) \in Int /\ B * (block + 1) \in Int
    BY <1>1, <1>8
  <2> HIDE DEF B
  <2> QED BY <2>1, <2>2, <2>3
<1>10. addr < (block + 1) * B
  BY <1>1, <1>2, <1>3, <1>8, <1>9
<1>11. block * B < addr + e.length
  BY <1>1, <1>2, <1>3, <1>5, <1>6, <1>8, <1>9
<1> QED BY <1>10, <1>11 DEF overlaps, addr

(* The books of the allocator stay true after any sequence of calls, for   *)
(* every memory map without an available area above 4 GiB: bitmap and      *)
(* counter are exact, and there is memory behind every free bit.           *)
THEOREM BooksTrue ==
  ASSUME AreasBelow4GiB
  PROVE  Spec => []Accounting
<1>1. IInv => Accounting
  <2> SUFFICES ASSUME IInv PROVE Accounting
    OBVIOUS
  <2>1. TypeOK /\ BitmapExact /\ CounterExact
    BY DEF IInv
  <2>2. FreeIsMemory
    <3> SUFFICES ASSUME phase # "boot", NEW block \in Blocks \ bitmap
                 PROVE  \E e \in available(boot) : overlaps(block, e)
      BY DEF FreeIsMemory
    <3>1. boot \in BootInfos /\ block \notin taken(boot)
      BY <2>1 DEF TypeOK, BitmapExact
    <3>2. PICK e \in available(boot) :
             block \in region(e.base_addr % UINT32, e.length % UINT32)
      BY <3>1 DEF taken, opened
    <3>3. e.base_addr \in Nat /\ e.length \in Nat /\ e.base_addr < UINT32
      BY <3>1, PmmAssumption DEF IsBootInfo, available, AreasBelow4GiB
    <3> QED BY <3>2, <3>3, OpenedIsMemory
  <2> QED BY <2>1, <2>2 DEF Accounting
<1> QED BY InitInv, NextInv, <1>1, PTL DEF Spec
=============================================================================
