------------------------------- MODULE Paging -------------------------------
(***************************************************************************)
(* Page tables, kernel/kernel/mm/paging.c, over the frames of pmm.c.       *)
(*                                                                         *)
(* A virtual page is a number; its table is page \div TABLE, and an entry  *)
(* holds a frame and a present bit.  `mem` is the memory a call works on,  *)
(* a record of the frames taken, the directory and the entries, so that    *)
(* the loops of the code are folds of one step over it.  Calls run with    *)
(* nobody else in between: none of them is made from an interrupt.  They   *)
(* come in any order and on any pages: a caller of paging_alloc_pages that *)
(* gets NULL does not know which pages are mapped by then.                 *)
(*                                                                         *)
(* Frame 0 is what pmm.c says when it has no frame, and three places use   *)
(* it all the same: kmalloc.c:168 maps it, paging_get_page makes it a page *)
(* table and paging_unmap_page gives it back.  `null` remembers that this  *)
(* happened.  Tables in the same frame are one table.                      *)
(***************************************************************************)
EXTENDS Integers, Sequences, FiniteSets, SequencesExt, BitmapSearch

CONSTANTS TABLE,    \* entries of a page table (1024)
          TABLES,   \* entries of the directory
          FRAMES,   \* frames of physical memory; frame 0 is never given out
          Counts    \* the numbers of pages callers ask for

ASSUME PagingAssumption ==
  /\ TABLE \in Nat \ {0} /\ TABLES \in Nat \ {0} /\ FRAMES \in Nat \ {0}
  /\ Counts \subseteq Nat

Pages == 0 .. TABLE * TABLES - 1
Frames == 0 .. FRAMES - 1
DIRECTORY_INDEX(virt) == virt \div TABLE
TABLE_INDEX(virt) == virt % TABLE

VARIABLES mem,    \* [bitmap, dir, present, frame, aborted, null, lost]
          call    \* history: the last call and its pages

vars == <<mem, call>>

absent == -1

(* The state after init_paging, for the pages and frames beyond its        *)
(* identity mapping: nothing mapped, no table yet; frame 0 is taken.       *)
Init ==
  /\ call = [op |-> "none", virt |-> 0, num |-> 0]
  /\ mem = [bitmap  |-> {0},
            dir     |-> [t \in 0 .. TABLES - 1 |-> absent],
            present |-> [v \in Pages |-> FALSE],
            frame   |-> [v \in Pages |-> 0],
            aborted |-> FALSE,
            null    |-> FALSE,    \* history: frame 0 was put to use
            lost    |-> {}]       \* history: taken, and no entry holds them

-----------------------------------------------------------------------------
(* Mutant: the last bit of the bitmap is not looked at.                    *)
pmm_alloc_page_short(m) == mmap_find_free(m.bitmap, FRAMES - 1)

(* pmm_alloc_page: the frame, 0 when there is none, and the memory after;  *)
(* 0 is not marked.                                                        *)
pmm_alloc_page(m) == mmap_find_free(m.bitmap, FRAMES)
taken(m, f) == IF f = 0 THEN m ELSE [m EXCEPT !.bitmap = @ \cup {f}]
pmm_free_page(m, f) == [m EXCEPT !.bitmap = @ \ {f}, !.null = @ \/ f = 0]

hasTable(m, virt) == m.dir[DIRECTORY_INDEX(virt)] # absent

(* Two pages share an entry when their tables are in the same frame.       *)
sameEntry(m, v, w) ==
  /\ TABLE_INDEX(v) = TABLE_INDEX(w)
  /\ m.dir[DIRECTORY_INDEX(v)] = m.dir[DIRECTORY_INDEX(w)]

(* *page = 0 and *page = phys | PAGE_PRESENT.                              *)
clear(m, virt) ==
  [m EXCEPT !.present = [v \in Pages |-> @[v] /\ ~sameEntry(m, v, virt)],
            !.frame = [v \in Pages |-> IF sameEntry(m, v, virt) THEN 0 ELSE @[v]]]
set(m, virt, f) ==
  [m EXCEPT !.present = [v \in Pages |-> @[v] \/ sameEntry(m, v, virt)],
            !.frame = [v \in Pages |-> IF sameEntry(m, v, virt) THEN f ELSE @[v]]]

(* The directory points to the table's frame, whatever it is.              *)
entered(m, virt, f) ==
  [taken(m, f) EXCEPT !.dir[DIRECTORY_INDEX(virt)] = f, !.null = @ \/ f = 0]

(* Mutant: the new table is not cleared.                                   *)
createTable_dirty(m, virt) ==
  LET n == entered(m, virt, pmm_alloc_page(m))
  IN  IF hasTable(m, virt) THEN m
      ELSE [n EXCEPT !.present =
              [v \in Pages |-> @[v] \/ DIRECTORY_INDEX(v) = DIRECTORY_INDEX(virt)]]

(* paging_get_page with `create`: the table's frame is used unchecked, and *)
(* cleared, so that every table in this frame is empty then.               *)
createTable(m, virt) ==
  LET f == pmm_alloc_page(m)
      n == entered(m, virt, f)
  IN  IF hasTable(m, virt) THEN m
      ELSE [n EXCEPT !.present = [v \in Pages |-> @[v] /\ n.dir[DIRECTORY_INDEX(v)] # f],
                     !.frame = [v \in Pages |->
                        IF n.dir[DIRECTORY_INDEX(v)] = f THEN 0 ELSE @[v]]]

paging_map_page(m, virt, phys) ==
  LET n == createTable(m, virt)
  IN  IF m.aborted THEN m
      ELSE IF n.present[virt] THEN [n EXCEPT !.aborted = TRUE]
      ELSE set(n, virt, phys)

paging_map_pages(m, virt, phys, num) ==
  FoldLeft(LAMBDA n, i : paging_map_page(n, virt + i - 1, phys + i - 1),
           m, [i \in 1 .. num |-> i])

(* Whatever the entry holds is given back, present or not.                 *)
paging_unmap_page(m, virt) ==
  IF hasTable(m, virt) THEN clear(pmm_free_page(m, m.frame[virt]), virt) ELSE m

paging_unmap_pages(m, virt, num) ==
  FoldLeft(LAMBDA n, i : paging_unmap_page(n, virt + i - 1), m, [i \in 1 .. num |-> i])

(* The frame of an entry that is overwritten is lost.                      *)
overwritten(m, virt) ==
  [m EXCEPT !.lost = @ \cup {f \in {m.frame[virt]} : m.present[virt]}]

(* Mutant: the frame is not marked before the table's is searched.         *)
allocOne_late_mark(m, virt) ==
  LET f == pmm_alloc_page(m)
  IN  IF f = 0 THEN m
      ELSE taken(set(overwritten(createTable(m, virt), virt), virt, f), f)

(* One round of paging_alloc_pages: the frame first, then the table; an    *)
(* entry is overwritten.  It stops when there is no frame.                 *)
allocOne(m, virt) ==
  LET f == pmm_alloc_page(m)
  IN  IF f = 0 THEN m
      ELSE set(overwritten(createTable(taken(m, f), virt), virt), virt, f)

paging_alloc_pages(m, virt, num) ==
  FoldLeft(LAMBDA n, i : allocOne(n, virt + i - 1), m, [i \in 1 .. num |-> i])

-----------------------------------------------------------------------------
range(virt, num) == virt .. virt + num - 1

(* pmm_alloc_pages: contiguous frames; when there are none nothing is      *)
(* marked and 0 is returned.                                               *)
takenRun(m, phys, num) ==
  IF phys = 0 THEN [m EXCEPT !.null = @ \/ num > 0]
  ELSE [m EXCEPT !.bitmap = @ \cup range(phys, num)]

(* kmalloc's first call: the frames of the heap are mapped at a fixed      *)
(* address, without a look at what pmm_alloc_pages returned.               *)
MapHeap(virt, num) ==
  LET phys == mmap_find_free_frame(mem.bitmap, FRAMES, num)
  IN  /\ mem' = paging_map_pages(takenRun(mem, phys, num), virt, phys, num)
      /\ call' = [op |-> "map", virt |-> virt, num |-> num]

(* paging_alloc_pages stops at the first page there is no frame for, and   *)
(* leaves the ones before it mapped.                                       *)
AllocPages(virt, num) ==
  /\ mem' = paging_alloc_pages(mem, virt, num)
  /\ call' = [op |-> "alloc", virt |-> virt, num |-> num]

UnmapPages(virt, num) ==
  /\ mem' = paging_unmap_pages(mem, virt, num)
  /\ call' = [op |-> "unmap", virt |-> virt, num |-> num]

(* A call on any pages, as long as the kernel has not aborted.             *)
Next ==
  \E virt \in Pages, num \in Counts :
    /\ ~mem.aborted /\ range(virt, num) \subseteq Pages
    /\ \/ MapHeap(virt, num)
       \/ AllocPages(virt, num)
       \/ UnmapPages(virt, num)

Spec == Init /\ [][Next]_vars

(* What TLC tells apart: the last call does not matter, and one state is   *)
(* enough of those in which frame 0 is in use, as nothing but the types is *)
(* claimed of them.                                                        *)
view == IF mem.null THEN <<mem.aborted>> ELSE <<mem>>

-----------------------------------------------------------------------------
tableFrames == {mem.dir[t] : t \in {u \in 0 .. TABLES - 1 : mem.dir[u] # absent}}
mappedPages == {v \in Pages : mem.present[v]}
mappedFrames == {mem.frame[v] : v \in mappedPages}

(* The directory holds frames that exist; an entry holds any number, as    *)
(* mapping from frame 0 on does not look at the size of the memory.        *)
TypeOK ==
  /\ mem.bitmap \subseteq Nat /\ mem.lost \subseteq Nat
  /\ mem.dir \in [0 .. TABLES - 1 -> Frames \cup {absent}]
  /\ mem.present \in [Pages -> BOOLEAN] /\ mem.frame \in [Pages -> Nat]
  /\ mem.aborted \in BOOLEAN /\ mem.null \in BOOLEAN

(* As long as the kernel runs and frame 0 was not put to use, every frame  *)
(* taken is exactly one of: the null frame, one page table, the frame of   *)
(* one mapped page, or the frame of an entry that paging_alloc_pages       *)
(* overwrote.  Nothing else leaks, also when a call stops half way and is  *)
(* tried again, and no page shows a table or another page's memory,        *)
(* although a table may be created between taking a frame and mapping it.  *)
FramesAccounted ==
  /\ TypeOK
  /\ ~mem.aborted /\ ~mem.null =>
       /\ mem.bitmap \subseteq Frames
       /\ mem.bitmap = {0} \cup tableFrames \cup mappedFrames \cup mem.lost
       /\ 0 \notin tableFrames \cup mappedFrames \cup mem.lost
       /\ tableFrames \cap mappedFrames = {}
       /\ mem.lost \cap (tableFrames \cup mappedFrames) = {}
       /\ \A v, w \in mappedPages : v # w => mem.frame[v] # mem.frame[w]
       /\ \A t, u \in 0 .. TABLES - 1 : t # u /\ mem.dir[t] = mem.dir[u] => mem.dir[t] = absent

pages == range(call.virt, call.num)

Contained ==
  ~mem'.null =>
    /\ \A v \in Pages \ pages' :
         (mem'.present[v] <=> mem.present[v]) /\ mem'.frame[v] = mem.frame[v]
    /\ mem'.aborted <=> call'.op = "map" /\ \E v \in pages' : mem.present[v]

(* While frame 0 is not put to use, a call changes the mappings of its own *)
(* pages only, although it may create tables and run out of memory half    *)
(* way, and mapping contiguous frames aborts exactly when one of the pages *)
(* is mapped already: a new table shows nothing that nobody mapped.        *)
CallsContained == [][Contained]_vars

(* No frames one behind the other for the heap.                            *)
noRun(num) == ~ \E f \in Frames : range(f, num) \subseteq Frames \ mem.bitmap

Excused ==
  mem'.null /\ ~mem.null =>
    \/ call'.op # "unmap" /\ mem'.bitmap = Frames
    \/ call'.op = "map" /\ noRun(call'.num)
    \/ call'.op = "unmap" /\ \E v \in pages' : hasTable(mem, v) /\ ~mem.present[v]

(* Frame 0 is put to use for three reasons only: the memory is exhausted   *)
(* when a table is needed, there is no run of frames for the heap, or a    *)
(* page is unmapped that is not mapped and whose table exists.             *)
NullFrameKept == [][Excused]_vars

=============================================================================
