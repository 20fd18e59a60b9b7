------------------------------ MODULE Kmalloc ------------------------------
(***************************************************************************)
(* The kernel heap and its callers: kmalloc, kfree and krealloc of         *)
(* kernel/kernel/mm/kmalloc.c over the list of blocks of HeapBlocks.       *)
(*                                                                         *)
(* The callers are Clients, each with at most one pointer, which frees     *)
(* only what it was given.  A pointer stands for the block it points into; *)
(* 0 is NULL.                                                              *)
(***************************************************************************)
EXTENDS HeapBlocks

CONSTANTS Sizes,       \* the sizes callers ask for
          Aligns,      \* the alignments callers ask for
          Clients

ASSUME HeapAssumption ==
  /\ Sizes \subseteq 0 .. UINT32 - 1
  /\ Aligns \subseteq 1 .. UINT32 - 1 /\ \A a \in Aligns : a % MIN_ALIGN = 0

(* What the check of the end takes for granted: no address it computes     *)
(* passes 2^32.  The heap ends at 0xC2200000, so this holds for every      *)
(* request below 989 MiB, and the heap has 30.                             *)
RequestsBounded ==
  \A align \in Aligns \cup {MIN_ALIGN}, req \in Sizes :
    HEAP_END + SIZEOF + align + req + 7 <= UINT32

VARIABLES heap,         \* the blocks in the list
          used_memory,  \* bytes in use, uint32_t
          ptr,          \* ptr[c]: the address of the block client c has
          asked,        \* asked[c]: the size and alignment c asked for
          phase,        \* "up", or "aborted" after abort()
          overrun       \* a memcpy of krealloc went past the block's data

vars == <<heap, used_memory, ptr, asked, phase, overrun>>

NoRequest == [size |-> 0, align |-> MIN_ALIGN]

(* A memcpy past the block writes its caller's bytes over the headers that *)
(* follow.  From then on the heap may do anything: the model ends there,   *)
(* so the properties say what holds up to that call, and nothing after it. *)
running == phase = "up" /\ ~overrun

(* kmalloc, calloc, zalloc, kamalloc: aligned_alloc on behalf of c.        *)
Alloc(c, align, req) ==
  LET r == aligned_alloc(heap, align, req)
  IN  /\ running /\ ptr[c] = 0
      /\ heap' = r.heap
      /\ used_memory' = (used_memory + r.added) % UINT32
      /\ ptr' = [ptr EXCEPT ![c] = r.block]
      /\ asked' = [asked EXCEPT ![c] = [size |-> req, align |-> align]]
      /\ phase' = IF r.block = 0 THEN "aborted" ELSE "up"
      /\ UNCHANGED overrun

(* Mutant: used_memory counts the size asked for, not the block's.         *)
Free_asked(c) ==
  /\ running /\ ptr[c] # 0
  /\ heap' = kfree(heap, ptr[c])
  /\ used_memory' = (used_memory - align_to(asked[c].size, 8)) % UINT32
  /\ ptr' = [ptr EXCEPT ![c] = 0]
  /\ asked' = [asked EXCEPT ![c] = NoRequest]
  /\ UNCHANGED <<phase, overrun>>

Free(c) ==
  LET b == mem_get_block(heap, ptr[c])
  IN  /\ running /\ ptr[c] # 0
      /\ heap' = kfree(heap, ptr[c])
      /\ used_memory' = (used_memory - b.size) % UINT32
      /\ ptr' = [ptr EXCEPT ![c] = 0]
      /\ asked' = [asked EXCEPT ![c] = NoRequest]
      /\ UNCHANGED <<phase, overrun>>

(* krealloc of a pointer to a size other than 0: a new block, a memcpy of  *)
(* as many bytes as the old block has, and a kfree of the old block.       *)
Realloc(c, req) ==
  LET old == mem_get_block(heap, ptr[c])
      r   == aligned_alloc(heap, MIN_ALIGN, req)
      new == mem_get_block(r.heap, r.block)
  IN  /\ running /\ ptr[c] # 0 /\ req # 0
      /\ IF r.block = 0
         THEN phase' = "aborted" /\ UNCHANGED <<heap, used_memory, ptr, asked, overrun>>
         ELSE /\ heap' = kfree(r.heap, ptr[c])
              /\ used_memory' = (used_memory + r.added - old.size) % UINT32
              /\ ptr' = [ptr EXCEPT ![c] = r.block]
              /\ asked' = [asked EXCEPT ![c] = [size |-> req, align |-> MIN_ALIGN]]
              /\ overrun' = (old.size > new.size)
              /\ UNCHANGED phase

Init ==
  /\ heap = {} /\ used_memory = 0
  /\ ptr = [c \in Clients |-> 0]
  /\ asked = [c \in Clients |-> NoRequest]
  /\ phase = "up" /\ overrun = FALSE

AllocFree ==
  \E c \in Clients : Free(c) \/ \E align \in Aligns, req \in Sizes : Alloc(c, align, req)

Next ==
  \/ AllocFree
  \/ \E c \in Clients, req \in Sizes : Realloc(c, req)

Spec == Init /\ [][Next]_vars

-----------------------------------------------------------------------------
(* Types; the accounting is an unsigned number of the code's width.       *)
TypeOK ==
  /\ heap \subseteq Block
  /\ used_memory \in 0 .. UINT32 - 1
  /\ ptr \in [Clients -> Nat]
  /\ asked \in [Clients -> [size : Nat, align : Nat]]
  /\ phase \in {"up", "aborted"}
  /\ overrun \in BOOLEAN

(* The blocks are stacked: each ends before the next begins, fillers and   *)
(* aligned blocks included, so no data and no header overlaps another.     *)
Stacked ==
  \A b, d \in heap : b # d => \/ b.addr + mem_block_size(b) <= d.addr
                              \/ d.addr + mem_block_size(d) <= b.addr

(* The data of every block lies in the pages mapped for the heap: the      *)
(* check of `end` is made before the block is laid out and must agree with *)
(* where mem_new_block puts it.                                            *)
DataInHeap ==
  \A b \in heap : /\ b.addr >= HEAP_BEGIN
                  /\ b.addr + header_size + b.size <= HEAP_END

(* The heap is well formed, whatever was allocated, freed and reallocated  *)
(* in whatever order: one list of separate blocks inside the heap.         *)
HeapWellFormed == TypeOK /\ Stacked /\ DataInHeap

(* Every pointer a client has is to a used block of the list that is large *)
(* enough and aligned as asked, no two clients share one, and every used   *)
(* block but the bottom one has an owner (nothing leaks).                  *)
UsedBlocks == {b \in heap : b.used}
Owners == {c \in Clients : ptr[c] # 0}

PointersGood ==
  /\ \A c \in Owners : \E b \in UsedBlocks :
       /\ b.addr = ptr[c] /\ b.addr # HEAP_BEGIN
       /\ b.size >= asked[c].size /\ mem_is_aligned(b, asked[c].align)
  /\ \A c, d \in Owners : c # d => ptr[c] # ptr[d]
  /\ \A b \in UsedBlocks : b.addr = HEAP_BEGIN \/ \E c \in Owners : b.addr = ptr[c]

(* memory_usage: used_memory is the bytes of the used blocks.              *)
UsageExact ==
  used_memory = MapThenSumSet(LAMBDA b : b.size, UsedBlocks) % UINT32

=============================================================================
