------------------------------ MODULE PmmScan ------------------------------
(***************************************************************************)
(* The loops of mmap_find_free_frame, one bit (or one word that is all     *)
(* ones) at a time, over any bitmap.  `bitmap` is the set of its 1 bits,   *)
(* `i` and `j` are the loop variables.                                     *)
(***************************************************************************)
EXTENDS Integers, BitmapSearch

CONSTANTS WORD_BITS,    \* bits of a bitmap word (32)
          Words         \* words the loops look at (max_blocks / 32)

ASSUME ScanAssumption == WORD_BITS \in Nat \ {0} /\ Words \in Nat

(* bitmap[i] == 0xFFFFFFFF                                                 *)
WordFull(bitmap, i) == \A k \in 0 .. WORD_BITS - 1 : i * WORD_BITS + k \in bitmap

RECURSIVE ScanFrames(_, _, _, _, _, _)

(* The inner loop's body at bit j of word i: the run goes on or ends, and  *)
(* a run that is long enough is returned.                                  *)
TestBit(bitmap, frame_size, i, j, first, count) ==
  LET bit == i * WORD_BITS + j
      n == IF bit \in bitmap THEN 0 ELSE count + 1
      f == IF bit \in bitmap THEN 0 ELSE IF first = 0 THEN bit ELSE first
  IN  IF n = frame_size THEN f
      ELSE ScanFrames(bitmap, frame_size, IF j + 1 = WORD_BITS THEN i + 1 ELSE i,
                      (j + 1) % WORD_BITS, f, n)

(* Mutant: a full word does not end the run.                               *)
SkipWordKeepRun(bitmap, frame_size, i, first, count) ==
  ScanFrames(bitmap, frame_size, i + 1, 0, first, count)

(* The outer loop's else branch: a full word ends the run.                 *)
SkipWord(bitmap, frame_size, i, first, count) ==
  ScanFrames(bitmap, frame_size, i + 1, 0, 0, 0)

(* Out of words: return 0.                                                 *)
ScanFrames(bitmap, frame_size, i, j, first, count) ==
  IF i = Words THEN 0
  ELSE IF j = 0 /\ WordFull(bitmap, i) THEN SkipWord(bitmap, frame_size, i, first, count)
  ELSE TestBit(bitmap, frame_size, i, j, first, count)
=============================================================================
