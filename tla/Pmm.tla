-------------------------------- MODULE Pmm --------------------------------
(***************************************************************************)
(* The physical memory manager, kernel/kernel/mm/pmm.c.                    *)
(*                                                                         *)
(* Physical memory is a row of blocks of PMM_BLOCK_SIZE bytes; `bitmap` is *)
(* the set of blocks whose bit is 1 (taken).  used_blocks is a uint32_t    *)
(* and wraps.  The bitmap covers the whole 32-bit address space, so 2^32   *)
(* is WORD_BITS * BITMAP_WORDS * PMM_BLOCK_SIZE in the code and here.      *)
(*                                                                         *)
(* The callers are Clients: each releases only blocks it was given.        *)
(***************************************************************************)
EXTENDS Integers, FiniteSets, FiniteSetsExt, BitmapSearch

CONSTANTS WORD_BITS,       \* bits of a bitmap word (32)
          BITMAP_WORDS,    \* words of the bitmap (1024 * 1024 / 32)
          PMM_BLOCK_SIZE,  \* bytes of a block (4096)
          LARGE_BLOCKS,    \* blocks of a large page (1024)
          BootInfos,       \* the boot information structures GRUB may pass
          PageCounts,      \* the values of `num` callers pass
          Clients

(* The bit indices of the bitmap, and the modulus of uint32_t.             *)
Blocks == 0 .. WORD_BITS * BITMAP_WORDS - 1
UINT32 == WORD_BITS * BITMAP_WORDS * PMM_BLOCK_SIZE

(* The available areas of the memory map, and their bytes in all.          *)
available(b) == {e \in b.mmap : e.avail}
available_bytes(b) == MapThenSumSet(LAMBDA e : e.length, available(b))

(* A boot information structure: its own place in memory, the end of the   *)
(* kernel image, the ends of the modules and the memory map.  Addresses    *)
(* and lengths of the memory map are 64-bit: they may exceed UINT32.       *)
IsBootInfo(b) ==
  /\ b.addr \in Nat /\ b.total_size \in Nat /\ b.addr + b.total_size < UINT32
  /\ b.KERNEL_END_PHYS \in 1 .. UINT32 - 1
  /\ b.mod_ends \subseteq 0 .. UINT32 - 1
  /\ \A e \in b.mmap : /\ e.base_addr \in Nat /\ e.length \in Nat
                       /\ e.avail \in BOOLEAN
  /\ available_bytes(b) \in Nat

ASSUME PmmAssumption ==
  /\ WORD_BITS \in Nat \ {0} /\ BITMAP_WORDS \in Nat \ {0}
  /\ PMM_BLOCK_SIZE \in Nat /\ PMM_BLOCK_SIZE > 3 /\ LARGE_BLOCKS \in Nat \ {0}
  /\ PageCounts \subseteq Nat
  /\ \A b \in BootInfos : IsBootInfo(b)

(* The memory maps pmm_init_region, which takes 32 bits, is right for: no  *)
(* available area begins at 4 GiB or above.                                *)
AreasBelow4GiB ==
  \A b \in BootInfos : \A e \in available(b) : e.base_addr < UINT32

VARIABLES bitmap,       \* the blocks marked as taken
          used_blocks,  \* the counter mmap_set and mmap_unset maintain
          mem_size,     \* bytes of available memory, modulo 2^32
          phase,        \* "boot", "up", or "aborted" after abort()
          held,         \* held[c]: the blocks client c was given
          boot          \* the boot information GRUB left in memory

vars == <<bitmap, used_blocks, mem_size, phase, held, boot>>

max_blocks == mem_size \div PMM_BLOCK_SIZE

(* misc.h: divide_up.                                                      *)
divide_up(n, d) == IF n % d = 0 THEN n \div d ELSE 1 + n \div d

(* The blocks pmm_init_region and pmm_deinit_region walk over.             *)
region(addr, size) ==
  LET base == addr \div PMM_BLOCK_SIZE
      num  == divide_up((size + (addr % PMM_BLOCK_SIZE)) % UINT32, PMM_BLOCK_SIZE)
  IN  base .. base + num - 1

(* mmap_set and mmap_unset count every call, whatever the bit was.         *)
mmap_set(bits) ==
  /\ bitmap' = bitmap \cup bits
  /\ used_blocks' = (used_blocks + Cardinality(bits)) % UINT32

(* Mutant: the bit is cleared, the counter forgotten.                      *)
mmap_unset_uncounted(bits) ==
  /\ bitmap' = bitmap \ bits
  /\ UNCHANGED used_blocks

mmap_unset(bits) ==
  /\ bitmap' = bitmap \ bits
  /\ used_blocks' = (used_blocks - Cardinality(bits)) % UINT32

(* Both searches look at whole words only.                                 *)
ScanLimit == (max_blocks \div WORD_BITS) * WORD_BITS

(* init_pmm: the first address after the kernel and its modules.           *)
kernel_end(b) == Max(b.mod_ends \cup {b.KERNEL_END_PHYS})

(* The areas init_pmm opens, and the ones it closes again.  Addresses and  *)
(* lengths of the memory map are cut to 32 bits by the call.               *)
opened(b) == UNION {region(e.base_addr % UINT32, e.length % UINT32) :
                      e \in available(b)}
protect_kernel(b) == region(0, kernel_end(b))
protect_info(b) == region(b.addr, b.total_size)

(* Everything is taken, the available areas are opened, block 0 is closed  *)
(* ("never map the nullptr"), the counter is set, and then the kernel and  *)
(* the boot information are closed by mmap_set, which counts.              *)
taken(b) == ((Blocks \ opened(b)) \cup {0}) \cup protect_kernel(b) \cup protect_info(b)

(* Mutant: the counter is set after the kernel and the boot information    *)
(* are closed.                                                             *)
usedAtBoot_set_last(b, size) == size \div PMM_BLOCK_SIZE

usedAtBoot(b, size) == size \div PMM_BLOCK_SIZE + Cardinality(protect_kernel(b))
                         + Cardinality(protect_info(b))

init_pmm ==
  LET size == available_bytes(boot) % UINT32
  IN  /\ phase = "boot"
      /\ phase' = "up"
      /\ bitmap' = taken(boot)
      /\ mem_size' = size
      /\ used_blocks' = usedAtBoot(boot, size) % UINT32
      /\ UNCHANGED <<held, boot>>

(* The blocks the guards believe to be free: unsigned, so it wraps.        *)
blocks_left == (max_blocks - used_blocks) % UINT32

(* Mutant: the last block of what is given is not marked.                  *)
give_last_unmarked(c, bits) ==
  /\ mmap_set(bits \ {Max(bits)})
  /\ held' = [held EXCEPT ![c] = @ \cup bits]
  /\ UNCHANGED <<mem_size, phase, boot>>

give(c, bits) ==
  /\ mmap_set(bits)
  /\ held' = [held EXCEPT ![c] = @ \cup bits]
  /\ UNCHANGED <<mem_size, phase, boot>>

pmm_alloc_page(c) ==
  LET block == mmap_find_free(bitmap, ScanLimit)
  IN  /\ phase = "up"
      /\ IF blocks_left <= 0
         THEN /\ phase' = "aborted"
              /\ UNCHANGED <<bitmap, used_blocks, mem_size, held, boot>>
         ELSE \/ block = 0 /\ UNCHANGED vars
              \/ block # 0 /\ give(c, {block})

pmm_alloc_pages(c, num) ==
  LET first_block == mmap_find_free_frame(bitmap, ScanLimit, num)
  IN  /\ phase = "up"
      /\ \/ (blocks_left < num \/ first_block = 0) /\ UNCHANGED vars
         \/ /\ blocks_left >= num /\ first_block # 0
            /\ give(c, first_block .. first_block + num - 1)

(* Mutant: aligned downwards.                                              *)
aligned_block_down(free_block) == (free_block \div LARGE_BLOCKS) * LARGE_BLOCKS

(* Twice the size is searched for, the aligned half in it is taken.        *)
aligned_block(free_block) == (free_block \div LARGE_BLOCKS + 1) * LARGE_BLOCKS

pmm_alloc_aligned_large_page(c) ==
  LET free_block == mmap_find_free_frame(bitmap, ScanLimit, 2 * LARGE_BLOCKS)
      first == aligned_block(free_block)
  IN  /\ phase = "up"
      /\ \/ /\ blocks_left < 2 * LARGE_BLOCKS \/ free_block = 0
            /\ UNCHANGED vars
         \/ /\ blocks_left >= 2 * LARGE_BLOCKS /\ free_block # 0
            /\ give(c, first .. first + LARGE_BLOCKS - 1)

take_back(c, bits) ==
  /\ mmap_unset(bits)
  /\ held' = [held EXCEPT ![c] = @ \ bits]
  /\ UNCHANGED <<mem_size, phase, boot>>

pmm_free_page(c, block) ==
  /\ phase = "up" /\ block \in held[c]
  /\ take_back(c, {block})

pmm_free_pages(c, first_block, num) ==
  /\ phase = "up"
  /\ first_block .. first_block + num - 1 \subseteq held[c]
  /\ take_back(c, first_block .. first_block + num - 1)

Init ==
  /\ bitmap = {} /\ used_blocks = 0 /\ mem_size = 0   \* zeroed .bss
  /\ phase = "boot"
  /\ held = [c \in Clients |-> {}]
  /\ boot \in BootInfos

Next ==
  \/ init_pmm
  \/ \E c \in Clients :
       \/ pmm_alloc_page(c)
       \/ pmm_alloc_aligned_large_page(c)
       \/ \E num \in PageCounts : pmm_alloc_pages(c, num)
       \/ \E block \in Blocks : pmm_free_page(c, block)
       \/ \E block \in Blocks, num \in PageCounts : pmm_free_pages(c, block, num)

Spec == Init /\ [][Next]_vars

-----------------------------------------------------------------------------
(* Types; used_blocks and mem_size are unsigned numbers of the code's width. *)
TypeOK ==
  /\ bitmap \subseteq Blocks
  /\ used_blocks \in 0 .. UINT32 - 1
  /\ mem_size \in 0 .. UINT32 - 1
  /\ phase \in {"boot", "up", "aborted"}
  /\ held \in [Clients -> SUBSET Blocks]
  /\ boot \in BootInfos

(* No block is given to two clients: the searches never return a block     *)
(* whose bit is 1, also through the "0 means none" convention, the word    *)
(* skipping and the alignment of a large page inside a double frame.       *)
HeldDisjoint ==
  \A c, d \in Clients : c # d => held[c] \cap held[d] = {}

AllHeld == UNION {held[c] : c \in Clients}

(* The bitmap is exact: a bit is 1 iff init_pmm left it so or some client  *)
(* holds the block.  No allocation marks a block it does not return, no    *)
(* release leaves one marked, and nobody is given the null page, the       *)
(* kernel, a module or the boot information.                               *)
BitmapExact ==
  phase # "boot" =>
    /\ bitmap = taken(boot) \cup AllHeld
    /\ AllHeld \cap taken(boot) = {}

(* Memory is only given out where the memory map has some: a block whose   *)
(* bit is 0 overlaps an available area.                                    *)
overlaps(block, e) ==
  /\ e.base_addr < (block + 1) * PMM_BLOCK_SIZE
  /\ block * PMM_BLOCK_SIZE < e.base_addr + e.length

FreeIsMemory ==
  phase # "boot" => \A block \in Blocks \ bitmap :
                      \E e \in available(boot) : overlaps(block, e)

(* used_blocks follows the blocks held exactly (modulo 2^32) from where    *)
(* init_pmm left it: no call of mmap_set or mmap_unset hits a bit that     *)
(* already had the value.                                                  *)
CounterExact ==
  phase # "boot" =>
    used_blocks = (usedAtBoot(boot, mem_size) + Cardinality(AllHeld)) % UINT32

(* The books of the allocator are true after any sequence of calls: types, *)
(* the bitmap, the memory behind its free bits, and the counter.           *)
Accounting == TypeOK /\ BitmapExact /\ FreeIsMemory /\ CounterExact

(* pmm_alloc_page's guard on the counter never fires: the counter starts   *)
(* above max_blocks and every release is preceded by an allocation, so     *)
(* exhaustion shows as a null result, never as the abort.                  *)
NeverAborts == phase # "aborted"

(* A step of the allocator touches the holdings of one client only, and    *)
(* what it gives was free and what it takes back was held: it implements   *)
(* PageAllocator.                                                          *)
Allocator == INSTANCE PageAllocator WITH
               up <- phase # "boot",
               pool <- IF phase = "boot" THEN {} ELSE Blocks \ bitmap
ImplementsPageAllocator == Allocator!Spec
=============================================================================
