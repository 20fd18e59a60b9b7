---------------------------- MODULE BitmapSearch ----------------------------
(***************************************************************************)
(* What the two searches of kernel/kernel/mm/pmm.c return, as functions of *)
(* the set `bm` of 1 bits and of the number `limit` of bits in the words   *)
(* they look at.  PmmScan has the loops themselves and shows that they     *)
(* compute this.                                                           *)
(***************************************************************************)
EXTENDS Integers, FiniteSetsExt

(* The index of the first 0 bit; 0 means none.                             *)
mmap_find_free(bm, limit) ==
  LET free == {b \in 0 .. limit - 1 : b \notin bm}
  IN  IF free = {} THEN 0 ELSE Min(free)

(* The bit at which the first run of `num` 0 bits starts; 0 means none.    *)
(* `first` uses 0 for "no run yet", so a run that starts at bit 0 is       *)
(* reported to start at bit 1, with one bit too many.                      *)
mmap_find_free_frame(bm, limit, num) ==
  LET starts == {b \in 0 .. limit - num :
                   \A i \in b .. b + num - 1 : i \notin bm}
  IN  IF num = 0 \/ starts = {} THEN 0
      ELSE IF Min(starts) = 0 THEN (IF num = 1 THEN 0 ELSE 1)
      ELSE Min(starts)
=============================================================================
