--------------------------- MODULE PageAllocator ---------------------------
(***************************************************************************)
(* What the physical memory manager promises to its callers, without any   *)
(* of the bitmap: once booted there is a pool of free blocks; an           *)
(* allocation moves a nonempty set of blocks from the pool to a client, a  *)
(* release moves blocks back.  Blocks are neither created, lost nor handed *)
(* to two clients.  Pmm implements this specification.                     *)
(***************************************************************************)
CONSTANTS Blocks,   \* the block numbers
          Clients   \* the holders of physical memory

VARIABLES up,       \* the allocator has been initialised
          pool,     \* free blocks
          held      \* held[c]: the blocks client c was given

vars == <<up, pool, held>>

Init == /\ up = FALSE
        /\ pool = {}
        /\ held = [c \in Clients |-> {}]

(* Initialisation fills the pool; nobody holds anything yet.               *)
Boot == /\ ~up
        /\ up' = TRUE
        /\ pool' \in SUBSET Blocks
        /\ held' = held

Allocate(c) ==
  \E S \in SUBSET pool :
    /\ up
    /\ pool' = pool \ S
    /\ held' = [held EXCEPT ![c] = @ \cup S]
    /\ up' = up

Release(c) ==
  \E S \in SUBSET held[c] :
    /\ up
    /\ pool' = pool \cup S
    /\ held' = [held EXCEPT ![c] = @ \ S]
    /\ up' = up

Next == \/ Boot
        \/ \E c \in Clients : Allocate(c) \/ Release(c)

Spec == Init /\ [][Next]_vars
=============================================================================
