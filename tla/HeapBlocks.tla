----------------------------- MODULE HeapBlocks -----------------------------
(***************************************************************************)
(* The block list of the kernel heap and the functions on it,              *)
(* kernel/kernel/mm/kmalloc.c.  Each block is a header {next, size} and    *)
(* its data; here a record of its address, its size without the flag bit,  *)
(* and the flag.  `next` always points to the block with the next higher   *)
(* address, so the list is a set h: bottom is its first block, top its     *)
(* last, and it is empty until the first call sets it up.                  *)
(***************************************************************************)
EXTENDS Integers, FiniteSets, FiniteSetsExt

CONSTANTS HEAP_BEGIN,  \* KERNEL_HEAP_BEGIN
          HEAP_SIZE,   \* KERNEL_HEAP_SIZE
          UINT32       \* 2^32

(* Mutant: the header without the first bytes of data.                     *)
SIZEOF_packed == 8

header_size == 8      \* offsetof(mem_block_t, data)
SIZEOF == 12          \* sizeof(mem_block_t)
MIN_ALIGN == 4

ASSUME HeapBlocksAssumption ==
  /\ HEAP_BEGIN \in Nat \ {0} /\ HEAP_BEGIN % MIN_ALIGN = 0
  /\ HEAP_SIZE \in Nat /\ HEAP_SIZE > SIZEOF
  /\ UINT32 \in Nat /\ HEAP_BEGIN + HEAP_SIZE < UINT32

HEAP_END == HEAP_BEGIN + HEAP_SIZE

Block == [addr : Nat, size : Nat, used : BOOLEAN]

(* misc.h: align_to, on uint32_t.                                          *)
align_to(n, align) ==
  IF n % align = 0 THEN n ELSE (n + (align - (n % align))) % UINT32

mem_block_size(b) == SIZEOF + b.size

mem_get_block(h, p) == CHOOSE b \in h : b.addr = p

mem_is_aligned(b, align) == (b.addr + header_size) % align = 0

(* Mutant: the flag of a free block is ignored.                            *)
fitting_used(h, size, align) ==
  {b \in h : b.size >= size /\ mem_is_aligned(b, align)}

(* The blocks mem_find_block accepts; it returns the first in the list.    *)
fitting(h, size, align) ==
  {b \in h : b.size >= size /\ ~b.used /\ mem_is_aligned(b, align)}

mem_find_block(h, size, align) ==
  LET fit == fitting(h, size, align)
  IN  CHOOSE b \in fit : \A d \in fit : b.addr <= d.addr

(* The address of a block with aligned data after the last block t.        *)
after(t, align) ==
  align_to(t.addr + mem_block_size(t) + header_size, align) - header_size

(* Mutant: the header of the filler is not subtracted from its size.       *)
filler_whole_gap(t, align) ==
  LET next == after(t, MIN_ALIGN)
      gap  == after(t, align) - next
  IN  IF gap > SIZEOF + MIN_ALIGN
      THEN {[addr |-> next, size |-> gap, used |-> FALSE]}
      ELSE {}

(* mem_new_block: a free block is inserted in front of the aligned one,    *)
(* when there is room for its header and more.                             *)
filler(t, align) ==
  LET next == after(t, MIN_ALIGN)
      gap  == after(t, align) - next
  IN  IF gap > SIZEOF + MIN_ALIGN
      THEN {[addr |-> next, size |-> gap - SIZEOF, used |-> FALSE]}
      ELSE {}

mem_new_block(h, t, size, align) ==
  h \cup filler(t, align)
    \cup {[addr |-> after(t, align), size |-> size, used |-> TRUE]}

top(h) == CHOOSE b \in h : \A d \in h : d.addr <= b.addr

(* aligned_alloc sets the list up on the first call: an empty used block.  *)
setup(h) ==
  IF h = {} THEN {[addr |-> HEAP_BEGIN, size |-> 0, used |-> TRUE]} ELSE h

mark(h, b, flag) == (h \ {b}) \cup {[b EXCEPT !.used = flag]}

(* The end of a new block's data, as aligned_alloc computes it to see      *)
(* whether the heap is exhausted.                                          *)
end(t, size, align) ==
  (align_to(t.addr + mem_block_size(t) + header_size, align) + size) % UINT32

(* aligned_alloc(align, req) on the heap h: the first free block that fits *)
(* is reused whole; otherwise a block is appended; or it aborts.  `block`  *)
(* is 0 then, `added` is what is added to used_memory.                     *)
aligned_alloc(h0, align, req) ==
  LET h    == setup(h0)
      size == align_to(req, 8)
      b    == mem_find_block(h, size, align)
      t    == top(h)
  IN  IF fitting(h, size, align) # {}
      THEN [heap |-> mark(h, b, TRUE), block |-> b.addr, added |-> b.size]
      ELSE IF end(t, size, align) > HEAP_END
      THEN [heap |-> h, block |-> 0, added |-> 0]
      ELSE [heap |-> mem_new_block(h, t, size, align),
            block |-> after(t, align), added |-> size]

(* kfree on the heap h; `block` is the block's address.                    *)
kfree(h, p) == mark(h, mem_get_block(h, p), FALSE)
=============================================================================
