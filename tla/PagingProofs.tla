---------------------------- MODULE PagingProofs ----------------------------
(***************************************************************************)
(* Proofs about the page tables of Paging, for every size of the tables,   *)
(* the directory and the memory, and for every sequence of calls.          *)
(***************************************************************************)
EXTENDS Paging, CommonLemmas, FiniteSetTheorems, TLAPS

Directory == 0 .. TABLES - 1

MemType == [bitmap : SUBSET Nat, dir : [Directory -> Frames \cup {absent}],
            present : [Pages -> BOOLEAN], frame : [Pages -> Nat], aborted : BOOLEAN,
            null : BOOLEAN, lost : SUBSET Nat]

(* Every table has a frame of its own, so every page an entry of its own.  *)
OwnTables(m) ==
  \A t, u \in Directory : t # u /\ m.dir[t] = m.dir[u] => m.dir[t] = absent

(* What FramesAccounted says of a memory in the middle of a call, when the *)
(* frames in R are taken and not mapped yet.  That a mapped page has a     *)
(* table is needed for unmapping, which skips the page otherwise, and that *)
(* R is disjoint from the rest for mapping it; an entry that is not        *)
(* present holds 0, so that a new table changes nothing.                   *)
Accounted(m, R) ==
  /\ m \in MemType /\ ~m.aborted /\ ~m.null /\ OwnTables(m)
  /\ m.bitmap \subseteq Frames /\ 0 \in m.bitmap
  /\ R \subseteq m.bitmap /\ 0 \notin R /\ R \cap m.lost = {}
  /\ m.lost \subseteq m.bitmap /\ 0 \notin m.lost
  /\ \A t \in Directory : m.dir[t] # absent =>
       m.dir[t] \in m.bitmap /\ m.dir[t] # 0 /\ m.dir[t] \notin R /\ m.dir[t] \notin m.lost
  /\ \A v \in Pages : m.present[v] =>
       /\ m.frame[v] \in m.bitmap /\ m.frame[v] # 0
       /\ m.frame[v] \notin R /\ m.frame[v] \notin m.lost
       /\ m.dir[DIRECTORY_INDEX(v)] # absent
       /\ \A t \in Directory : m.dir[t] # m.frame[v]
       /\ \A w \in Pages : m.present[w] /\ w # v => m.frame[w] # m.frame[v]
  /\ \A v \in Pages : ~m.present[v] => m.frame[v] = 0
  /\ \A f \in m.bitmap : \/ f = 0 \/ f \in R \/ f \in m.lost
                         \/ \E t \in Directory : m.dir[t] = f
                         \/ \E v \in Pages : m.present[v] /\ m.frame[v] = f

(* The inductive invariant, between calls.                                 *)
IInv == mem \in MemType /\ (mem.null \/ mem.aborted \/ Accounted(mem, {}))

(* It implies what the run checks.                                         *)
LEMMA InvImplies == IInv => FramesAccounted
<1> SUFFICES ASSUME IInv PROVE FramesAccounted
  OBVIOUS
<1>1. TypeOK
  BY DEF IInv, MemType, TypeOK, Directory
<1> SUFFICES ASSUME Accounted(mem, {}) 
             PROVE /\ mem.bitmap \subseteq Frames
                   /\ mem.bitmap = {0} \cup tableFrames \cup mappedFrames \cup mem.lost
                   /\ 0 \notin tableFrames \cup mappedFrames \cup mem.lost
                   /\ tableFrames \cap mappedFrames = {}
                   /\ mem.lost \cap (tableFrames \cup mappedFrames) = {}
                   /\ \A v, w \in mappedPages : v # w => mem.frame[v] # mem.frame[w]
                   /\ \A t, u \in 0 .. TABLES - 1 :
                        t # u /\ mem.dir[t] = mem.dir[u] => mem.dir[t] = absent
  BY <1>1 DEF IInv, FramesAccounted
<1>2. \A f \in tableFrames :
        f \in mem.bitmap /\ f # 0 /\ f \notin mappedFrames /\ f \notin mem.lost
  BY DEF Accounted, tableFrames, mappedFrames, mappedPages, Directory
<1>3. \A f \in mappedFrames : f \in mem.bitmap /\ f # 0 /\ f \notin mem.lost
  BY DEF Accounted, mappedFrames, mappedPages
<1>4. \A f \in mem.bitmap : f = 0 \/ f \in tableFrames \/ f \in mappedFrames \/ f \in mem.lost
  <2> SUFFICES ASSUME NEW f \in mem.bitmap, f # 0, f \notin mappedFrames, f \notin mem.lost
               PROVE  f \in tableFrames
    OBVIOUS
  <2>1. PICK t \in Directory : mem.dir[t] = f
    BY DEF Accounted, mappedFrames, mappedPages
  <2>2. f # absent
    BY DEF Accounted, Frames, absent
  <2> QED BY <2>1, <2>2 DEF tableFrames, Directory
<1>5. mem.bitmap = {0} \cup tableFrames \cup mappedFrames \cup mem.lost
  BY <1>2, <1>3, <1>4 DEF Accounted
<1>6. \A v, w \in mappedPages : v # w => mem.frame[v] # mem.frame[w]
  BY DEF Accounted, mappedPages
<1>7. /\ mem.bitmap \subseteq Frames /\ 0 \notin mem.lost
      /\ \A t, u \in 0 .. TABLES - 1 : t # u /\ mem.dir[t] = mem.dir[u] => mem.dir[t] = absent
  BY DEF Accounted, OwnTables, Directory
<1> QED BY <1>2, <1>3, <1>5, <1>6, <1>7

(* Nothing is mapped at first.                                             *)
LEMMA InitInv == Init => IInv
<1> SUFFICES ASSUME Init PROVE IInv
  OBVIOUS
<1>1. 0 \in Frames
  BY PagingAssumption DEF Frames
<1>2. mem \in MemType
  BY <1>1 DEF Init, MemType, Directory
<1>3. ~mem.aborted /\ ~mem.null /\ \A v \in Pages : ~mem.present[v] /\ mem.frame[v] = 0
  BY DEF Init
<1>4. mem.bitmap = {0} /\ mem.lost = {} /\ \A t \in Directory : mem.dir[t] = absent
  BY DEF Init, Directory
<1> QED BY <1>1, <1>2, <1>3, <1>4 DEF IInv, Accounted, OwnTables, absent

-----------------------------------------------------------------------------
(* The directory has an entry for every page.                              *)
LEMMA IndexInDirectory ==
  ASSUME NEW v \in Pages
  PROVE  DIRECTORY_INDEX(v) \in Directory
<1>1. TABLE \in Nat \ {0} /\ TABLES \in Nat \ {0} /\ v \in Nat /\ v < TABLE * TABLES
  <2>1. TABLE \in Nat \ {0} /\ TABLES \in Nat \ {0}
    BY PagingAssumption
  <2>2. TABLE * TABLES \in Nat
    BY <2>1
  <2> QED BY <2>1, <2>2 DEF Pages
<1> DEFINE q == v \div TABLE
<1>2. q \in Nat /\ v % TABLE \in 0 .. TABLE - 1 /\ v = TABLE * q + (v % TABLE)
  BY <1>1, DivMod
<1>3. TABLE * q \in Int /\ TABLE * TABLES \in Int
  BY <1>1, <1>2
<1> HIDE DEF q
<1>4. TABLE * q < TABLE * TABLES
  BY <1>1, <1>2, <1>3
<1>5. q < TABLES
  BY <1>1, <1>2, <1>4, MulCancel
<1> QED BY <1>1, <1>2, <1>5 DEF q, DIRECTORY_INDEX, Directory

(* Pages whose tables have frames of their own share no entry.             *)
LEMMA OwnEntry ==
  ASSUME NEW m \in MemType, OwnTables(m), NEW virt \in Pages, hasTable(m, virt), NEW v \in Pages
  PROVE  sameEntry(m, v, virt) <=> v = virt
<1>1. v = virt => sameEntry(m, v, virt)
  BY DEF sameEntry
<1>2. ASSUME sameEntry(m, v, virt) PROVE v = virt
  <2>1. DIRECTORY_INDEX(v) \in Directory /\ DIRECTORY_INDEX(virt) \in Directory
    BY IndexInDirectory
  <2>2. DIRECTORY_INDEX(v) = DIRECTORY_INDEX(virt) /\ TABLE_INDEX(v) = TABLE_INDEX(virt)
    BY <1>2, <2>1 DEF sameEntry, hasTable, OwnTables
  <2>3. v \in Nat /\ virt \in Nat /\ TABLE \in Nat \ {0}
    BY PagingAssumption DEF Pages
  <2>4. v = TABLE * (v \div TABLE) + (v % TABLE)
    BY <2>3, DivMod
  <2>5. virt = TABLE * (virt \div TABLE) + (virt % TABLE)
    BY <2>3, DivMod
  <2> QED BY <2>2, <2>4, <2>5 DEF DIRECTORY_INDEX, TABLE_INDEX
<1> QED BY <1>1, <1>2

(* The frame that pmm_alloc_page gives is free; it is 0 if there is none.  *)
LEMMA AllocatedFrame ==
  ASSUME NEW m \in MemType
  PROVE  /\ pmm_alloc_page(m) \in Frames
         /\ pmm_alloc_page(m) # 0 => pmm_alloc_page(m) \notin m.bitmap
         /\ pmm_alloc_page(m) = 0 /\ 0 \in m.bitmap => Frames \subseteq m.bitmap
<1>1. FRAMES \in Nat \ {0}
  BY PagingAssumption
<1> DEFINE b == mmap_find_free(m.bitmap, FRAMES)
           free == {f \in 0 .. FRAMES - 1 : f \notin m.bitmap}
<1>2. b = 0 \/ (b \in 1 .. FRAMES - 1 /\ b \notin m.bitmap)
  BY <1>1, FindFreeIsFree
<1>3. ASSUME b = 0, 0 \in m.bitmap PROVE Frames \subseteq m.bitmap
  <2>1. CASE free = {}
    BY <2>1 DEF Frames
  <2>2. CASE free # {}
    <3>1. Min(free) \in free
      BY <1>1, <2>2, MinOfNat
    <3>2. b = Min(free)
      BY <2>2 DEF mmap_find_free
    <3> QED BY <1>3, <3>1, <3>2
  <2> QED BY <2>1, <2>2
<1> HIDE DEF b
<1>4. b \in Frames /\ (b # 0 => b \notin m.bitmap)
  BY <1>1, <1>2 DEF Frames
<1> QED BY <1>3, <1>4 DEF b, pmm_alloc_page

(* Where pmm_alloc_pages finds no run there is none.                       *)
LEMMA NoRunFound ==
  ASSUME NEW num \in Nat \ {0}, 0 \in mem.bitmap,
         mmap_find_free_frame(mem.bitmap, FRAMES, num) = 0
  PROVE  noRun(num)
<1> DEFINE starts == {b \in 0 .. FRAMES - num : \A i \in b .. b + num - 1 : i \notin mem.bitmap}
<1>1. FRAMES \in Nat \ {0}
  BY PagingAssumption
<1>2. starts = {}
  <2> SUFFICES ASSUME starts # {} PROVE FALSE
    OBVIOUS
  <2>1. Min(starts) \in starts
    BY <1>1, MinOfNat
  <2>2. Min(starts) # 0
    BY <2>1
  <2>3. mmap_find_free_frame(mem.bitmap, FRAMES, num) = Min(starts)
    BY <2>2 DEF mmap_find_free_frame
  <2> QED BY <2>2, <2>3
<1>3. ASSUME NEW f \in Frames, range(f, num) \subseteq Frames \ mem.bitmap PROVE FALSE
  <2>1. f + num - 1 \in Frames
    BY <1>1, <1>3 DEF Frames, range
  <2>2. f \in starts
    BY <1>1, <1>3, <2>1 DEF Frames, range
  <2> QED BY <1>2, <2>2
<1> QED BY <1>3 DEF noRun

(* What createTable does when there is no table, field by field.           *)
LEMMA TableFields ==
  ASSUME NEW m \in MemType, NEW virt \in Pages, ~hasTable(m, virt)
  PROVE  LET t == DIRECTORY_INDEX(virt)
             f == pmm_alloc_page(m)
             n == createTable(m, virt)
         IN  /\ n \in MemType
             /\ n.bitmap = IF f = 0 THEN m.bitmap ELSE m.bitmap \cup {f}
             /\ n.dir = [m.dir EXCEPT ![t] = f]
             /\ n.aborted = m.aborted /\ n.lost = m.lost
             /\ n.null <=> m.null \/ f = 0
             /\ \A v \in Pages : n.present[v] <=> m.present[v] /\ n.dir[DIRECTORY_INDEX(v)] # f
             /\ \A v \in Pages :
                  n.frame[v] = IF n.dir[DIRECTORY_INDEX(v)] = f THEN 0 ELSE m.frame[v]
<1> DEFINE t == DIRECTORY_INDEX(virt)
           f == pmm_alloc_page(m)
           b == IF f = 0 THEN m.bitmap ELSE m.bitmap \cup {f}
           d == [m.dir EXCEPT ![t] = f]
           e == entered(m, virt, f)
           p == [v \in Pages |-> m.present[v] /\ d[DIRECTORY_INDEX(v)] # f]
           q == [v \in Pages |-> IF d[DIRECTORY_INDEX(v)] = f THEN 0 ELSE m.frame[v]]
           n == createTable(m, virt)
<1>1. f \in Frames /\ f \in Nat /\ t \in Directory
  BY AllocatedFrame, IndexInDirectory, PagingAssumption DEF Frames
<1>2. b \in SUBSET Nat /\ d \in [Directory -> Frames \cup {absent}]
      /\ p \in [Pages -> BOOLEAN] /\ q \in [Pages -> Nat]
  <2> HIDE DEF f, t
  <2>1. b \in SUBSET Nat /\ d \in [Directory -> Frames \cup {absent}]
    BY <1>1 DEF MemType
  <2> HIDE DEF d, b
  <2> QED BY <2>1 DEF MemType
<1>3. e = [m EXCEPT !.bitmap = b, !.dir = d, !.null = @ \/ f = 0]
  <2>1. taken(m, f) = [m EXCEPT !.bitmap = b]
    <3> HIDE DEF f
    <3> QED BY DEF taken, MemType
  <2> HIDE DEF f, b
  <2> QED BY <2>1 DEF entered, MemType
<1>4. e.dir = d /\ e.present = m.present /\ e.frame = m.frame
  <2> HIDE DEF e, f, b, d
  <2> QED BY <1>3 DEF MemType
<1>5. n = [e EXCEPT !.present = p, !.frame = q]
  <2>1. n = [e EXCEPT !.present = [v \in Pages |-> @[v] /\ e.dir[DIRECTORY_INDEX(v)] # f],
                      !.frame = [v \in Pages |->
                         IF e.dir[DIRECTORY_INDEX(v)] = f THEN 0 ELSE @[v]]]
    BY Zenon DEF createTable
  <2> HIDE DEF n, e, f, d
  <2> QED BY <1>4, <2>1, Zenon
<1> HIDE DEF e, f, b, d, p, q, n
<1>6. n = [bitmap |-> b, dir |-> d, present |-> p, frame |-> q, aborted |-> m.aborted,
           null |-> (m.null \/ f = 0), lost |-> m.lost]
  BY <1>3, <1>5 DEF MemType
<1>7. n \in MemType
  BY <1>2, <1>6 DEF MemType
<1>8. /\ n.bitmap = b /\ n.dir = d /\ n.aborted = m.aborted /\ n.lost = m.lost
      /\ n.null <=> m.null \/ f = 0
      /\ n.present = p /\ n.frame = q
  BY <1>6
<1>9. /\ \A v \in Pages : n.present[v] <=> m.present[v] /\ n.dir[DIRECTORY_INDEX(v)] # f
      /\ \A v \in Pages : n.frame[v] = IF n.dir[DIRECTORY_INDEX(v)] = f THEN 0 ELSE m.frame[v]
  BY <1>8 DEF p, q
<1> QED BY <1>7, <1>8, <1>9, Zenon DEF t, f, n, b, d

(* After createTable the page has a table, and what was accounted for      *)
(* still is; nothing is mapped or unmapped.  If the table is in frame 0,   *)
(* then because no frame is left.                                          *)
LEMMA TableKeeps ==
  ASSUME NEW m \in MemType, NEW virt \in Pages, NEW n, n = createTable(m, virt)
  PROVE  /\ n \in MemType /\ hasTable(n, virt)
         /\ m.null => n.null
         /\ m.bitmap \subseteq n.bitmap /\ (m.bitmap = Frames => n.bitmap = Frames)
         /\ n.aborted = m.aborted
         /\ \A R : Accounted(m, R) =>
              \/ n.null /\ n.bitmap = Frames
              \/ Accounted(n, R) /\ n.present = m.present /\ n.frame = m.frame
<1>1. CASE hasTable(m, virt)
  <2>1. n = m
    BY <1>1, Zenon DEF createTable
  <2> QED BY <1>1, <2>1
<1>2. CASE ~hasTable(m, virt)
  <2> DEFINE t == DIRECTORY_INDEX(virt)
             f == pmm_alloc_page(m)
  <2>1. /\ n \in MemType
        /\ n.bitmap = IF f = 0 THEN m.bitmap ELSE m.bitmap \cup {f}
        /\ n.dir = [m.dir EXCEPT ![t] = f]
        /\ n.aborted = m.aborted /\ n.lost = m.lost
        /\ n.null <=> m.null \/ f = 0
        /\ \A v \in Pages : n.present[v] <=> m.present[v] /\ n.dir[DIRECTORY_INDEX(v)] # f
        /\ \A v \in Pages : n.frame[v] = IF n.dir[DIRECTORY_INDEX(v)] = f THEN 0 ELSE m.frame[v]
    BY <1>2, TableFields
  <2>2. /\ f \in Frames /\ (f # 0 => f \notin m.bitmap) /\ t \in Directory
        /\ f = 0 /\ 0 \in m.bitmap => Frames \subseteq m.bitmap
        /\ \A v \in Pages : DIRECTORY_INDEX(v) \in Directory
    BY AllocatedFrame, IndexInDirectory
  <2>3. m.dir[t] = absent
    BY <1>2 DEF hasTable
  <2>4. /\ \A u \in Directory : n.dir[u] = IF u = t THEN f ELSE m.dir[u]
        /\ f # absent
    BY <2>1, <2>2 DEF MemType, Frames, absent
  <2>5. hasTable(n, virt)
    BY <2>2, <2>4 DEF hasTable
  <2> HIDE DEF t, f
  <2>6. m.bitmap \subseteq n.bitmap /\ (m.bitmap = Frames => n.bitmap = Frames)
    BY <2>1, <2>2
  <2>7. ASSUME NEW R, Accounted(m, R), f # 0
        PROVE  Accounted(n, R) /\ n.present = m.present /\ n.frame = m.frame
    <3>1. f \notin m.bitmap /\ n.bitmap = m.bitmap \cup {f} /\ ~n.null /\ ~n.aborted
      BY <2>1, <2>2, <2>7 DEF Accounted
    <3>2. \A v \in Pages : m.present[v] => DIRECTORY_INDEX(v) # t
      BY <2>3, <2>7 DEF Accounted
    <3>3. \A u \in Directory : n.dir[u] = f <=> u = t
      BY <2>2, <2>4, <2>7, <3>1 DEF Accounted
    <3>4. \A v \in Pages : (n.present[v] <=> m.present[v]) /\ n.frame[v] = m.frame[v]
      BY <2>1, <2>2, <2>7, <3>2, <3>3 DEF Accounted
    <3>5. n.present = m.present /\ n.frame = m.frame
      <4>1. n.present \in [Pages -> BOOLEAN] /\ m.present \in [Pages -> BOOLEAN]
        BY <2>1 DEF MemType
      <4>2. \A v \in Pages : n.present[v] = m.present[v]
        BY <3>4, <4>1, Zenon
      <4>3. n.frame \in [Pages -> Nat] /\ m.frame \in [Pages -> Nat]
        BY <2>1 DEF MemType
      <4> QED BY <3>4, <4>1, <4>2, <4>3
    <3>6. /\ n.bitmap \subseteq Frames /\ 0 \in n.bitmap /\ R \subseteq n.bitmap /\ 0 \notin R
          /\ f \notin R /\ f \notin m.lost /\ R \cap n.lost = {}
          /\ n.lost \subseteq n.bitmap /\ 0 \notin n.lost
      BY <2>1, <2>2, <2>7, <3>1 DEF Accounted
    <3>7. \A u \in Directory : n.dir[u] # absent =>
            n.dir[u] \in n.bitmap /\ n.dir[u] # 0 /\ n.dir[u] \notin R /\ n.dir[u] \notin n.lost
      BY <2>1, <2>4, <2>7, <3>1, <3>6 DEF Accounted
    <3>8. OwnTables(n)
      BY <2>2, <2>4, <2>7, <3>3 DEF Accounted, OwnTables
    <3>9. ASSUME NEW v \in Pages, n.present[v]
          PROVE  /\ n.frame[v] \in n.bitmap /\ n.frame[v] # 0
                 /\ n.frame[v] \notin R /\ n.frame[v] \notin n.lost
                 /\ n.dir[DIRECTORY_INDEX(v)] # absent
                 /\ \A u \in Directory : n.dir[u] # n.frame[v]
                 /\ \A w \in Pages : n.present[w] /\ w # v => n.frame[w] # n.frame[v]
      BY <2>1, <2>2, <2>4, <2>7, <3>1, <3>2, <3>4, <3>9 DEF Accounted
    <3>10. \A v \in Pages : ~n.present[v] => n.frame[v] = 0
      BY <2>7, <3>4 DEF Accounted
    <3>11. \A g \in n.bitmap : \/ g = 0 \/ g \in R \/ g \in n.lost
                               \/ \E u \in Directory : n.dir[u] = g
                               \/ \E v \in Pages : n.present[v] /\ n.frame[v] = g
      <4> SUFFICES ASSUME NEW g \in n.bitmap, g # 0, g \notin R, g \notin n.lost,
                          ~ \E u \in Directory : n.dir[u] = g
                   PROVE  \E v \in Pages : n.present[v] /\ n.frame[v] = g
        OBVIOUS
      <4>1. g # f /\ g \in m.bitmap
        BY <2>2, <2>4, <3>1
      <4>2. ~ \E u \in Directory : m.dir[u] = g
        <5>1. g # absent
          BY <2>7, <4>1 DEF Accounted, Frames, absent
        <5> QED BY <2>3, <2>4, <5>1
      <4> QED BY <2>1, <2>7, <3>4, <4>1, <4>2 DEF Accounted
    <3> QED BY <2>1, <3>1, <3>5, <3>6, <3>7, <3>8, <3>9, <3>10, <3>11 DEF Accounted
  <2>8. ASSUME NEW R, Accounted(m, R), f = 0 PROVE n.null /\ n.bitmap = Frames
    <3>1. 0 \in m.bitmap /\ m.bitmap \subseteq Frames
      BY <2>8 DEF Accounted
    <3>2. Frames \subseteq m.bitmap
      BY <2>2, <2>8, <3>1
    <3>3. n.null /\ n.bitmap = m.bitmap
      BY <2>1, <2>8
    <3> QED BY <3>1, <3>2, <3>3
  <2> QED BY <2>1, <2>5, <2>6, <2>7, <2>8
<1> QED BY <1>1, <1>2

(* Writing an entry, field by field.                                       *)
LEMMA SetFields ==
  ASSUME NEW m \in MemType, NEW virt \in Pages, NEW f \in Nat
  PROVE  LET n == set(m, virt, f)
         IN  /\ n \in MemType /\ n.bitmap = m.bitmap /\ n.dir = m.dir /\ n.aborted = m.aborted
             /\ n.null = m.null /\ n.lost = m.lost
             /\ \A v \in Pages : /\ n.present[v] <=> m.present[v] \/ sameEntry(m, v, virt)
                                 /\ n.frame[v] = IF sameEntry(m, v, virt) THEN f ELSE m.frame[v]
<1> DEFINE n == set(m, virt, f)
           p == [v \in Pages |-> m.present[v] \/ sameEntry(m, v, virt)]
           q == [v \in Pages |-> IF sameEntry(m, v, virt) THEN f ELSE m.frame[v]]
<1>1. n = [m EXCEPT !.present = p, !.frame = q]
  BY Zenon DEF set
<1>2. p \in [Pages -> BOOLEAN] /\ q \in [Pages -> Nat]
  BY DEF MemType, sameEntry
<1>3. \A v \in Pages : /\ p[v] <=> m.present[v] \/ sameEntry(m, v, virt)
                       /\ q[v] = IF sameEntry(m, v, virt) THEN f ELSE m.frame[v]
  OBVIOUS
<1> HIDE DEF n, p, q
<1>4. /\ n \in MemType /\ n.bitmap = m.bitmap /\ n.dir = m.dir /\ n.aborted = m.aborted
      /\ n.null = m.null /\ n.lost = m.lost /\ n.present = p /\ n.frame = q
  BY <1>1, <1>2 DEF MemType
<1> QED BY <1>3, <1>4, Zenon DEF n

(* Remembering what is overwritten, field by field.                        *)
LEMMA OverwrittenFields ==
  ASSUME NEW m \in MemType, NEW virt \in Pages
  PROVE  LET n == overwritten(m, virt)
         IN  /\ n \in MemType /\ n.bitmap = m.bitmap /\ n.dir = m.dir /\ n.aborted = m.aborted
             /\ n.null = m.null /\ n.present = m.present /\ n.frame = m.frame
             /\ m.present[virt] => n.lost = m.lost \cup {m.frame[virt]}
             /\ ~m.present[virt] => n = m
<1> DEFINE n == overwritten(m, virt)
           l == m.lost \cup {f \in {m.frame[virt]} : m.present[virt]}
<1>1. n = [m EXCEPT !.lost = l]
  BY Zenon DEF overwritten
<1>2. /\ l \in SUBSET Nat
      /\ m.present[virt] => l = m.lost \cup {m.frame[virt]}
      /\ ~m.present[virt] => l = m.lost
  BY DEF MemType
<1> HIDE DEF n, l
<1>3. /\ n \in MemType /\ n.bitmap = m.bitmap /\ n.dir = m.dir /\ n.aborted = m.aborted
      /\ n.null = m.null /\ n.present = m.present /\ n.frame = m.frame /\ n.lost = l
  BY <1>1, <1>2 DEF MemType
<1>4. ~m.present[virt] => n = m
  BY <1>1, <1>2 DEF MemType
<1> QED BY <1>2, <1>3, <1>4, Zenon DEF n

(* A page takes one of the frames kept for it; what it held is lost.       *)
LEMMA SetKeeps ==
  ASSUME NEW R, NEW m, Accounted(m, R), NEW virt \in Pages, hasTable(m, virt), NEW f \in R
  PROVE  LET n == set(overwritten(m, virt), virt, f)
         IN  /\ Accounted(n, R \ {f})
             /\ \A v \in Pages \ {virt} : /\ n.present[v] <=> m.present[v]
                                          /\ n.frame[v] = m.frame[v]
<1> DEFINE o == overwritten(m, virt)
           n == set(o, virt, f)
<1>1. m \in MemType /\ f \in Frames /\ f \in Nat /\ f \in m.bitmap /\ f # 0 /\ f # absent
  BY PagingAssumption DEF Accounted, Frames, absent
<1>2. /\ o \in MemType /\ o.bitmap = m.bitmap /\ o.dir = m.dir /\ o.aborted = m.aborted
      /\ o.null = m.null /\ o.present = m.present /\ o.frame = m.frame
      /\ m.present[virt] => o.lost = m.lost \cup {m.frame[virt]}
      /\ ~m.present[virt] => o = m
  BY <1>1, OverwrittenFields
<1> HIDE DEF o
<1>3. /\ n \in MemType /\ n.bitmap = m.bitmap /\ n.dir = m.dir /\ n.aborted = m.aborted
      /\ n.null = m.null /\ n.lost = o.lost
      /\ \A v \in Pages : /\ n.present[v] <=> m.present[v] \/ sameEntry(o, v, virt)
                          /\ n.frame[v] = IF sameEntry(o, v, virt) THEN f ELSE m.frame[v]
  BY <1>1, <1>2, SetFields
<1>4. \A v \in Pages : sameEntry(o, v, virt) <=> v = virt
  <2>1. OwnTables(o) /\ hasTable(o, virt)
    BY <1>2 DEF Accounted, OwnTables, hasTable
  <2> QED BY <1>2, <2>1, OwnEntry
<1> HIDE DEF n
<1>5. /\ n.present[virt] /\ n.frame[virt] = f
      /\ \A v \in Pages \ {virt} : (n.present[v] <=> m.present[v]) /\ n.frame[v] = m.frame[v]
  BY <1>3, <1>4
<1>6. /\ ~n.aborted /\ ~n.null /\ OwnTables(n) /\ n.bitmap \subseteq Frames
      /\ 0 \in n.bitmap /\ R \ {f} \subseteq n.bitmap /\ 0 \notin R \ {f}
  BY <1>3 DEF Accounted, OwnTables
<1>7. /\ m.lost \subseteq n.lost
      /\ \A g \in n.lost : g \in m.lost \/ (m.present[virt] /\ g = m.frame[virt])
      /\ m.present[virt] => m.frame[virt] \in n.lost
  BY <1>2, <1>3
<1>8. R \cap n.lost = {} /\ n.lost \subseteq n.bitmap /\ 0 \notin n.lost
  BY <1>3, <1>7 DEF Accounted
<1>9. \A t \in Directory : n.dir[t] # absent =>
        /\ n.dir[t] \in n.bitmap /\ n.dir[t] # 0
        /\ n.dir[t] \notin R \ {f} /\ n.dir[t] \notin n.lost
  BY <1>3, <1>7 DEF Accounted
<1>10. \A t \in Directory : m.dir[t] # f
  BY <1>1 DEF Accounted
<1>11. \A v \in Pages : m.present[v] => m.frame[v] # f
  BY DEF Accounted
<1>12. ASSUME NEW v \in Pages, n.present[v]
       PROVE  /\ n.frame[v] \in n.bitmap /\ n.frame[v] # 0
              /\ n.frame[v] \notin R \ {f} /\ n.frame[v] \notin n.lost
              /\ n.dir[DIRECTORY_INDEX(v)] # absent
              /\ \A t \in Directory : n.dir[t] # n.frame[v]
              /\ \A w \in Pages : n.present[w] /\ w # v => n.frame[w] # n.frame[v]
  <2>1. CASE v = virt
    <3>1. \A w \in Pages : n.present[w] /\ w # v => n.frame[w] # n.frame[v]
      BY <1>5, <1>11, <2>1
    <3>2. f \notin n.lost
      BY <1>8
    <3> QED BY <1>1, <1>3, <1>5, <1>10, <2>1, <3>1, <3>2 DEF Accounted, hasTable
  <2>2. CASE v # virt
    <3>1. m.present[v] /\ n.frame[v] = m.frame[v]
      BY <1>5, <1>12, <2>2
    <3>2. \A w \in Pages : n.present[w] /\ w # v => n.frame[w] # n.frame[v]
      BY <1>5, <1>11, <3>1 DEF Accounted
    <3>3. n.frame[v] \notin n.lost
      BY <1>7, <2>2, <3>1 DEF Accounted
    <3> QED BY <1>3, <3>1, <3>2, <3>3 DEF Accounted
  <2> QED BY <2>1, <2>2
<1>13. \A v \in Pages : ~n.present[v] => n.frame[v] = 0
  BY <1>5 DEF Accounted
<1>14. ASSUME NEW g \in n.bitmap
       PROVE  \/ g = 0 \/ g \in R \ {f} \/ g \in n.lost
              \/ \E t \in Directory : n.dir[t] = g
              \/ \E v \in Pages : n.present[v] /\ n.frame[v] = g
  <2>1. CASE g = f
    BY <1>5, <2>1
  <2>2. CASE \E v \in Pages : m.present[v] /\ m.frame[v] = g
    BY <1>5, <1>7, <2>2
  <2>3. CASE g # f /\ ~ \E v \in Pages : m.present[v] /\ m.frame[v] = g
    BY <1>3, <1>7, <2>3 DEF Accounted
  <2> QED BY <2>1, <2>2, <2>3
<1>15. Accounted(n, R \ {f})
  BY <1>3, <1>6, <1>8, <1>9, <1>12, <1>13, <1>14 DEF Accounted
<1> QED BY <1>5, <1>15 DEF n, o

(* Free frames that are taken are accounted for until they are mapped.     *)
LEMMA TakenKeeps ==
  ASSUME NEW m, Accounted(m, {}), NEW R \in SUBSET Frames, R \cap m.bitmap = {}
  PROVE  LET n == [m EXCEPT !.bitmap = @ \cup R]
         IN  Accounted(n, R) /\ n.present = m.present /\ n.frame = m.frame
<1> DEFINE n == [m EXCEPT !.bitmap = @ \cup R]
<1>1. m \in MemType /\ R \subseteq Nat
  BY PagingAssumption DEF Accounted, Frames
<1>2. /\ n \in MemType /\ n.bitmap = m.bitmap \cup R /\ n.dir = m.dir /\ n.lost = m.lost
      /\ n.aborted = m.aborted /\ n.null = m.null /\ n.present = m.present /\ n.frame = m.frame
  BY <1>1 DEF MemType
<1> HIDE DEF n
<1>3. 0 \in m.bitmap /\ 0 \notin R /\ R \cap m.lost = {}
  BY DEF Accounted
<1>4. OwnTables(n)
  BY <1>2 DEF Accounted, OwnTables
<1>5. Accounted(n, R)
  BY <1>2, <1>3, <1>4 DEF Accounted
<1> QED BY <1>2, <1>5 DEF n

-----------------------------------------------------------------------------
(* One round of paging_alloc_pages.                                        *)
LEMMA AllocRound ==
  ASSUME NEW m \in MemType, NEW virt \in Pages, NEW n, n = allocOne(m, virt)
  PROVE  /\ n \in MemType
         /\ m.null => n.null
         /\ m.bitmap = Frames => n.bitmap = Frames
         /\ Accounted(m, {}) =>
              \/ n.null /\ n.bitmap = Frames
              \/ /\ Accounted(n, {})
                 /\ \A v \in Pages \ {virt} : /\ n.present[v] <=> m.present[v]
                                              /\ n.frame[v] = m.frame[v]
<1> DEFINE f == pmm_alloc_page(m)
           k == taken(m, f)
           c == createTable(k, virt)
           o == overwritten(c, virt)
<1>1. f \in Frames /\ f \in Nat /\ (f # 0 => f \notin m.bitmap)
  BY AllocatedFrame DEF Frames
<1>2. CASE f = 0
  <2>1. n = m
    BY <1>2 DEF allocOne
  <2> QED BY <2>1
<1>3. CASE f # 0
  <2>1. n = set(o, virt, f)
    BY <1>3 DEF allocOne
  <2>2. k = [m EXCEPT !.bitmap = @ \cup {f}]
    BY <1>3 DEF taken
  <2>3. /\ k \in MemType /\ k.null = m.null /\ k.present = m.present /\ k.frame = m.frame
        /\ k.bitmap = m.bitmap \cup {f}
    <3> HIDE DEF f, k
    <3> QED BY <1>1, <2>2 DEF MemType
  <2>4. /\ c \in MemType /\ hasTable(c, virt)
        /\ k.null => c.null
        /\ k.bitmap \subseteq c.bitmap /\ (k.bitmap = Frames => c.bitmap = Frames)
        /\ \A R : Accounted(k, R) =>
             \/ c.null /\ c.bitmap = Frames
             \/ Accounted(c, R) /\ c.present = k.present /\ c.frame = k.frame
    <3> HIDE DEF k
    <3> QED BY <2>3, TableKeeps
  <2> HIDE DEF f, k, c
  <2>5. o \in MemType /\ o.bitmap = c.bitmap /\ o.null = c.null
    BY <2>4, OverwrittenFields
  <2> HIDE DEF o
  <2>6. n \in MemType /\ n.bitmap = o.bitmap /\ n.null = o.null
    BY <1>1, <2>1, <2>5, SetFields
  <2>7. m.bitmap = Frames => n.bitmap = Frames
    BY <1>1, <1>3
  <2>8. ASSUME Accounted(m, {}), ~(n.null /\ n.bitmap = Frames)
        PROVE  /\ Accounted(n, {})
               /\ \A v \in Pages \ {virt} : /\ n.present[v] <=> m.present[v]
                                            /\ n.frame[v] = m.frame[v]
    <3>1. Accounted(k, {f})
      BY <1>1, <1>3, <2>2, <2>8, TakenKeeps
    <3>2. Accounted(c, {f}) /\ c.present = m.present /\ c.frame = m.frame
      BY <2>3, <2>4, <2>5, <2>6, <2>8, <3>1
    <3>3. /\ Accounted(n, {f} \ {f})
          /\ \A v \in Pages \ {virt} : (n.present[v] <=> c.present[v]) /\ n.frame[v] = c.frame[v]
      BY <2>1, <2>4, <3>2, SetKeeps DEF o
    <3>4. {f} \ {f} = {}
      OBVIOUS
    <3> QED BY <3>2, <3>3, <3>4
  <2> QED BY <2>3, <2>4, <2>5, <2>6, <2>7, <2>8
<1> QED BY <1>2, <1>3

(* One round of paging_map_pages: no frame is left for a table, or it      *)
(* aborts as the page is mapped, or it maps the page.                      *)
MapOutcome(m, n, virt, phys, R) ==
  \/ n.null /\ n.bitmap = Frames
  \/ /\ m.present[virt] /\ n.aborted /\ ~n.null
     /\ n.present = m.present /\ n.frame = m.frame
  \/ /\ ~m.present[virt] /\ Accounted(n, R \ {phys})
     /\ \A v \in Pages \ {virt} : (n.present[v] <=> m.present[v]) /\ n.frame[v] = m.frame[v]

LEMMA MapRound ==
  ASSUME NEW m \in MemType, NEW virt \in Pages, NEW phys \in Nat,
         NEW n, n = paging_map_page(m, virt, phys)
  PROVE  /\ n \in MemType
         /\ m.null => n.null
         /\ m.bitmap = Frames => n.bitmap = Frames
         /\ m.aborted => n = m
         /\ \A R : Accounted(m, R) /\ phys \in R => MapOutcome(m, n, virt, phys, R)
<1> DEFINE c == createTable(m, virt)
<1>1. /\ c \in MemType /\ hasTable(c, virt)
      /\ m.null => c.null
      /\ m.bitmap = Frames => c.bitmap = Frames
      /\ \A R : Accounted(m, R) =>
           \/ c.null /\ c.bitmap = Frames
           \/ Accounted(c, R) /\ c.present = m.present /\ c.frame = m.frame
  BY TableKeeps
<1>2. n = IF m.aborted THEN m
          ELSE IF c.present[virt] THEN [c EXCEPT !.aborted = TRUE]
          ELSE set(c, virt, phys)
  BY DEF paging_map_page
<1> HIDE DEF c
<1>3. CASE m.aborted
  <2>1. n = m
    BY <1>2, <1>3
  <2> QED BY <1>3, <2>1 DEF Accounted
<1>4. CASE ~m.aborted /\ c.present[virt]
  <2>1. /\ n \in MemType /\ n.null = c.null /\ n.bitmap = c.bitmap /\ n.aborted
        /\ n.present = c.present /\ n.frame = c.frame
    BY <1>1, <1>2, <1>4 DEF MemType
  <2>2. ASSUME NEW R, Accounted(m, R), ~(n.null /\ n.bitmap = Frames)
        PROVE  /\ m.present[virt] /\ ~n.null
               /\ n.present = m.present /\ n.frame = m.frame
    <3>1. Accounted(c, R) /\ c.present = m.present /\ c.frame = m.frame
      BY <1>1, <2>1, <2>2
    <3> QED BY <1>4, <2>1, <3>1 DEF Accounted
  <2> QED BY <1>1, <1>4, <2>1, <2>2 DEF MapOutcome
<1>5. CASE ~m.aborted /\ ~c.present[virt]
  <2>1. n = set(c, virt, phys)
    BY <1>2, <1>5
  <2>2. n \in MemType /\ n.null = c.null /\ n.bitmap = c.bitmap
    BY <1>1, <2>1, SetFields
  <2>3. ASSUME NEW R, Accounted(m, R), phys \in R, ~(n.null /\ n.bitmap = Frames)
        PROVE  /\ ~m.present[virt] /\ Accounted(n, R \ {phys})
               /\ \A v \in Pages \ {virt} : /\ n.present[v] <=> m.present[v]
                                            /\ n.frame[v] = m.frame[v]
    <3>1. Accounted(c, R) /\ c.present = m.present /\ c.frame = m.frame
      BY <1>1, <2>2, <2>3
    <3>2. overwritten(c, virt) = c
      BY <1>1, <1>5, OverwrittenFields
    <3>3. /\ Accounted(n, R \ {phys})
          /\ \A v \in Pages \ {virt} : (n.present[v] <=> c.present[v]) /\ n.frame[v] = c.frame[v]
      BY <1>1, <2>1, <2>3, <3>1, <3>2, SetKeeps
    <3> QED BY <1>5, <3>1, <3>3
  <2> QED BY <1>1, <1>5, <2>2, <2>3 DEF MapOutcome
<1> QED BY <1>3, <1>4, <1>5

(* One round of paging_unmap_pages gives back the frame of the page, which *)
(* is 0 if the page is not mapped and its table exists.                    *)
LEMMA UnmapRound ==
  ASSUME NEW m \in MemType, NEW virt \in Pages, NEW n, n = paging_unmap_page(m, virt)
  PROVE  /\ n \in MemType
         /\ m.null => n.null
         /\ Accounted(m, {}) =>
              \/ n.null /\ hasTable(m, virt) /\ ~m.present[virt]
              \/ /\ Accounted(n, {}) /\ n.dir = m.dir
                 /\ \A v \in Pages \ {virt} : /\ n.present[v] <=> m.present[v]
                                              /\ n.frame[v] = m.frame[v]
<1>1. CASE ~hasTable(m, virt)
  <2>1. n = m
    BY <1>1 DEF paging_unmap_page
  <2> QED BY <1>1, <2>1
<1>2. CASE hasTable(m, virt)
  <2> DEFINE k == pmm_free_page(m, m.frame[virt])
             b == m.bitmap \ {m.frame[virt]}
             p == [v \in Pages |-> k.present[v] /\ ~sameEntry(k, v, virt)]
             q == [v \in Pages |-> IF sameEntry(k, v, virt) THEN 0 ELSE k.frame[v]]
  <2>1. n = [k EXCEPT !.present = p, !.frame = q]
    <3>1. n = clear(k, virt)
      BY <1>2 DEF paging_unmap_page
    <3> QED BY <3>1, Zenon DEF clear
  <2>2. k = [m EXCEPT !.bitmap = b, !.null = @ \/ m.frame[virt] = 0]
    BY DEF pmm_free_page
  <2> HIDE DEF k
  <2>3. /\ k \in MemType /\ k.bitmap = b /\ k.dir = m.dir /\ k.aborted = m.aborted
        /\ k.null <=> m.null \/ m.frame[virt] = 0
        /\ k.present = m.present /\ k.frame = m.frame /\ k.lost = m.lost
    <3>1. b \in SUBSET Nat
      BY DEF MemType
    <3> HIDE DEF b
    <3> QED BY <2>2, <3>1 DEF MemType
  <2>4. /\ p \in [Pages -> BOOLEAN] /\ q \in [Pages -> Nat]
        /\ \A v \in Pages : /\ p[v] <=> m.present[v] /\ ~sameEntry(k, v, virt)
                            /\ q[v] = IF sameEntry(k, v, virt) THEN 0 ELSE m.frame[v]
    BY <2>3 DEF MemType
  <2> HIDE DEF p, q
  <2>5. /\ n \in MemType /\ n.bitmap = b /\ n.dir = m.dir /\ n.aborted = m.aborted
        /\ n.null <=> m.null \/ m.frame[virt] = 0
        /\ n.present = p /\ n.frame = q /\ n.lost = m.lost
    <3> HIDE DEF b
    <3> QED BY <2>1, <2>3, <2>4 DEF MemType
  <2>6. ASSUME Accounted(m, {}), ~m.present[virt] PROVE n.null
    BY <2>5, <2>6 DEF Accounted
  <2>7. ASSUME Accounted(m, {}), m.present[virt]
        PROVE  /\ Accounted(n, {})
               /\ \A v \in Pages \ {virt} : /\ n.present[v] <=> m.present[v]
                                            /\ n.frame[v] = m.frame[v]
    <3>1. \A v \in Pages : sameEntry(k, v, virt) <=> v = virt
      <4>1. OwnTables(k) /\ hasTable(k, virt)
        BY <1>2, <2>3, <2>7 DEF Accounted, OwnTables, hasTable
      <4> QED BY <2>3, <4>1, OwnEntry
    <3>2. /\ ~n.present[virt] /\ n.frame[virt] = 0
          /\ \A v \in Pages \ {virt} : (n.present[v] <=> m.present[v]) /\ n.frame[v] = m.frame[v]
      BY <2>4, <2>5, <3>1
    <3>3. m.frame[virt] # 0 /\ \A t \in Directory : m.dir[t] # m.frame[virt]
      BY <2>7 DEF Accounted
    <3>4. \A v \in Pages : n.present[v] =>
            v # virt /\ m.present[v] /\ n.frame[v] = m.frame[v] /\ m.frame[v] # m.frame[virt]
      BY <2>7, <3>2 DEF Accounted
    <3>5. ~n.aborted /\ ~n.null
      BY <2>5, <2>7, <3>3, Zenon DEF Accounted
    <3>6. /\ n.bitmap \subseteq Frames /\ 0 \in n.bitmap /\ OwnTables(n)
          /\ n.lost \subseteq n.bitmap /\ 0 \notin n.lost
      BY <2>5, <2>7, <3>3 DEF Accounted, OwnTables
    <3>7. \A t \in Directory : n.dir[t] # absent =>
            n.dir[t] \in n.bitmap /\ n.dir[t] # 0 /\ n.dir[t] \notin n.lost
      BY <2>5, <2>7, <3>3 DEF Accounted
    <3>8. \A v \in Pages : n.present[v] =>
            /\ n.frame[v] \in n.bitmap /\ n.frame[v] # 0 /\ n.frame[v] \notin n.lost
            /\ n.dir[DIRECTORY_INDEX(v)] # absent
            /\ \A t \in Directory : n.dir[t] # n.frame[v]
            /\ \A w \in Pages : n.present[w] /\ w # v => n.frame[w] # n.frame[v]
      BY <2>5, <2>7, <3>4 DEF Accounted
    <3>9. \A v \in Pages : ~n.present[v] => n.frame[v] = 0
      BY <2>7, <3>2 DEF Accounted
    <3>10. \A f \in n.bitmap : \/ f = 0 \/ f \in n.lost
                               \/ \E t \in Directory : n.dir[t] = f
                               \/ \E v \in Pages : n.present[v] /\ n.frame[v] = f
      BY <2>5, <2>7, <3>2 DEF Accounted
    <3> QED BY <2>5, <3>2, <3>5, <3>6, <3>7, <3>8, <3>9, <3>10 DEF Accounted
  <2> QED BY <1>2, <2>5, <2>6, <2>7
<1> QED BY <1>1, <1>2

-----------------------------------------------------------------------------
(* What the rounds of paging_alloc_pages keep holds after it: I[i] is what *)
(* holds after round i.  The fold over the rounds is a recursive function  *)
(* by definition; LoopExists says that there is one.                       *)
LEMMA AllocLoop ==
  ASSUME NEW m \in MemType, NEW virt \in Pages, NEW num \in Nat, range(virt, num) \subseteq Pages,
         NEW I \in [0 .. num -> SUBSET MemType], m \in I[0],
         \A i \in 1 .. num : \A k \in I[i - 1] : allocOne(k, virt + i - 1) \in I[i]
  PROVE  paging_alloc_pages(m, virt, num) \in I[num]
<1> DEFINE seq == [i \in 1 .. num |-> i]
           val(g, s) == IF s = {} THEN m
                        ELSE allocOne(g[s \ {Max(s)}], virt + seq[Max(s)] - 1)
           IsLoop(g) == g = [s \in SUBSET (DOMAIN seq) |-> val(g, s)]
           step == [p \in (1 .. num) \X MemType |-> allocOne(p[2], virt + p[1] - 1)]
           result == CHOOSE g : IsLoop(g)
<1>1. paging_alloc_pages(m, virt, num) = result[DOMAIN seq]
  BY DEF paging_alloc_pages, FoldLeft, MapThenFoldSet
<1>2. step \in [(1 .. num) \X MemType -> MemType]
  <2> SUFFICES ASSUME NEW i \in 1 .. num, NEW k \in MemType
               PROVE  allocOne(k, virt + i - 1) \in MemType
    OBVIOUS
  <2>1. virt + i - 1 \in Pages
    BY DEF range, Pages
  <2> QED BY <2>1, AllocRound
<1>3. \A i \in 1 .. num : \A k \in MemType : step[<<i, k>>] = allocOne(k, virt + i - 1)
  OBVIOUS
<1>4. DOMAIN seq = 1 .. num /\ \A i \in 1 .. num : seq[i] = i
  OBVIOUS
<1> HIDE DEF seq, step
<1>5. ASSUME NEW s \in SUBSET (1 .. num), NEW g, s # {}, g[s \ {Max(s)}] \in MemType
      PROVE  val(g, s) = step[<<Max(s), g[s \ {Max(s)}]>>]
  <2>1. Max(s) \in 1 .. num
    BY <1>5, PrefixSets
  <2> QED BY <1>3, <1>4, <1>5, <2>1
<1>6. \A g : val(g, {}) = m
  OBVIOUS
<1> HIDE DEF val
<1>7. \E g : IsLoop(g)
  <2>1. PICK g \in [SUBSET (1 .. num) -> MemType] : Loops(g, num, MemType, m, step)
    BY <1>2, LoopExists
  <2>2. \A s \in SUBSET (1 .. num) : g[s] = val(g, s)
    BY <1>5, <1>6, <2>1 DEF Loops
  <2>3. g = [s \in SUBSET (1 .. num) |-> g[s]]
    OBVIOUS
  <2>4. IsLoop(g)
    BY <1>4, <2>2, <2>3
  <2> HIDE DEF IsLoop
  <2> QED BY <2>4
<1>8. IsLoop(result)
  BY <1>7
<1> HIDE DEF result
<1>9. Loops(result, num, MemType, m, step)
  <2>1. \A s \in SUBSET (1 .. num) : result[s] = val(result, s)
    BY <1>4, <1>8
  <2> QED BY <1>5, <1>6, <2>1 DEF Loops
<1>10. \A i \in 1 .. num : \A k \in I[i - 1] : step[<<i, k>>] \in I[i]
  <2>1. \A i \in 1 .. num : i - 1 \in 0 .. num
    OBVIOUS
  <2>2. \A i \in 1 .. num : I[i - 1] \subseteq MemType
    BY <2>1
  <2> QED BY <1>3, <2>2
<1>11. result[1 .. num] \in I[num]
  BY <1>2, <1>9, <1>10, LoopGives
<1> QED BY <1>1, <1>4, <1>11

(* The same of paging_map_pages ...                                        *)
LEMMA MapLoop ==
  ASSUME NEW m \in MemType, NEW virt \in Pages, NEW num \in Nat, range(virt, num) \subseteq Pages,
         NEW phys \in Nat,
         NEW I \in [0 .. num -> SUBSET MemType], m \in I[0],
         \A i \in 1 .. num : \A k \in I[i - 1] :
           paging_map_page(k, virt + i - 1, phys + i - 1) \in I[i]
  PROVE  paging_map_pages(m, virt, phys, num) \in I[num]
<1> DEFINE seq == [i \in 1 .. num |-> i]
           val(g, s) == IF s = {} THEN m
                        ELSE paging_map_page(g[s \ {Max(s)}], virt + seq[Max(s)] - 1,
                                             phys + seq[Max(s)] - 1)
           IsLoop(g) == g = [s \in SUBSET (DOMAIN seq) |-> val(g, s)]
           step == [p \in (1 .. num) \X MemType |->
                      paging_map_page(p[2], virt + p[1] - 1, phys + p[1] - 1)]
           result == CHOOSE g : IsLoop(g)
<1>1. paging_map_pages(m, virt, phys, num) = result[DOMAIN seq]
  BY DEF paging_map_pages, FoldLeft, MapThenFoldSet
<1>2. step \in [(1 .. num) \X MemType -> MemType]
  <2> SUFFICES ASSUME NEW i \in 1 .. num, NEW k \in MemType
               PROVE  paging_map_page(k, virt + i - 1, phys + i - 1) \in MemType
    OBVIOUS
  <2>1. virt + i - 1 \in Pages /\ phys + i - 1 \in Nat
    BY DEF range, Pages
  <2> QED BY <2>1, MapRound
<1>3. \A i \in 1 .. num : \A k \in MemType :
        step[<<i, k>>] = paging_map_page(k, virt + i - 1, phys + i - 1)
  OBVIOUS
<1>4. DOMAIN seq = 1 .. num /\ \A i \in 1 .. num : seq[i] = i
  OBVIOUS
<1> HIDE DEF seq, step
<1>5. ASSUME NEW s \in SUBSET (1 .. num), NEW g, s # {}, g[s \ {Max(s)}] \in MemType
      PROVE  val(g, s) = step[<<Max(s), g[s \ {Max(s)}]>>]
  <2>1. Max(s) \in 1 .. num
    BY <1>5, PrefixSets
  <2> QED BY <1>3, <1>4, <1>5, <2>1
<1>6. \A g : val(g, {}) = m
  OBVIOUS
<1> HIDE DEF val
<1>7. \E g : IsLoop(g)
  <2>1. PICK g \in [SUBSET (1 .. num) -> MemType] : Loops(g, num, MemType, m, step)
    BY <1>2, LoopExists
  <2>2. \A s \in SUBSET (1 .. num) : g[s] = val(g, s)
    BY <1>5, <1>6, <2>1 DEF Loops
  <2>3. g = [s \in SUBSET (1 .. num) |-> g[s]]
    OBVIOUS
  <2>4. IsLoop(g)
    BY <1>4, <2>2, <2>3
  <2> HIDE DEF IsLoop
  <2> QED BY <2>4
<1>8. IsLoop(result)
  BY <1>7
<1> HIDE DEF result
<1>9. Loops(result, num, MemType, m, step)
  <2>1. \A s \in SUBSET (1 .. num) : result[s] = val(result, s)
    BY <1>4, <1>8
  <2> QED BY <1>5, <1>6, <2>1 DEF Loops
<1>10. \A i \in 1 .. num : \A k \in I[i - 1] : step[<<i, k>>] \in I[i]
  <2>1. \A i \in 1 .. num : i - 1 \in 0 .. num
    OBVIOUS
  <2>2. \A i \in 1 .. num : I[i - 1] \subseteq MemType
    BY <2>1
  <2> QED BY <1>3, <2>2
<1>11. result[1 .. num] \in I[num]
  BY <1>2, <1>9, <1>10, LoopGives
<1> QED BY <1>1, <1>4, <1>11

(* ... and of paging_unmap_pages.                                          *)
LEMMA UnmapLoop ==
  ASSUME NEW m \in MemType, NEW virt \in Pages, NEW num \in Nat, range(virt, num) \subseteq Pages,
         NEW I \in [0 .. num -> SUBSET MemType], m \in I[0],
         \A i \in 1 .. num : \A k \in I[i - 1] : paging_unmap_page(k, virt + i - 1) \in I[i]
  PROVE  paging_unmap_pages(m, virt, num) \in I[num]
<1> DEFINE seq == [i \in 1 .. num |-> i]
           val(g, s) == IF s = {} THEN m
                        ELSE paging_unmap_page(g[s \ {Max(s)}], virt + seq[Max(s)] - 1)
           IsLoop(g) == g = [s \in SUBSET (DOMAIN seq) |-> val(g, s)]
           step == [p \in (1 .. num) \X MemType |-> paging_unmap_page(p[2], virt + p[1] - 1)]
           result == CHOOSE g : IsLoop(g)
<1>1. paging_unmap_pages(m, virt, num) = result[DOMAIN seq]
  BY DEF paging_unmap_pages, FoldLeft, MapThenFoldSet
<1>2. step \in [(1 .. num) \X MemType -> MemType]
  <2> SUFFICES ASSUME NEW i \in 1 .. num, NEW k \in MemType
               PROVE  paging_unmap_page(k, virt + i - 1) \in MemType
    OBVIOUS
  <2>1. virt + i - 1 \in Pages
    BY DEF range, Pages
  <2> QED BY <2>1, UnmapRound
<1>3. \A i \in 1 .. num : \A k \in MemType : step[<<i, k>>] = paging_unmap_page(k, virt + i - 1)
  OBVIOUS
<1>4. DOMAIN seq = 1 .. num /\ \A i \in 1 .. num : seq[i] = i
  OBVIOUS
<1> HIDE DEF seq, step
<1>5. ASSUME NEW s \in SUBSET (1 .. num), NEW g, s # {}, g[s \ {Max(s)}] \in MemType
      PROVE  val(g, s) = step[<<Max(s), g[s \ {Max(s)}]>>]
  <2>1. Max(s) \in 1 .. num
    BY <1>5, PrefixSets
  <2> QED BY <1>3, <1>4, <1>5, <2>1
<1>6. \A g : val(g, {}) = m
  OBVIOUS
<1> HIDE DEF val
<1>7. \E g : IsLoop(g)
  <2>1. PICK g \in [SUBSET (1 .. num) -> MemType] : Loops(g, num, MemType, m, step)
    BY <1>2, LoopExists
  <2>2. \A s \in SUBSET (1 .. num) : g[s] = val(g, s)
    BY <1>5, <1>6, <2>1 DEF Loops
  <2>3. g = [s \in SUBSET (1 .. num) |-> g[s]]
    OBVIOUS
  <2>4. IsLoop(g)
    BY <1>4, <2>2, <2>3
  <2> HIDE DEF IsLoop
  <2> QED BY <2>4
<1>8. IsLoop(result)
  BY <1>7
<1> HIDE DEF result
<1>9. Loops(result, num, MemType, m, step)
  <2>1. \A s \in SUBSET (1 .. num) : result[s] = val(result, s)
    BY <1>4, <1>8
  <2> QED BY <1>5, <1>6, <2>1 DEF Loops
<1>10. \A i \in 1 .. num : \A k \in I[i - 1] : step[<<i, k>>] \in I[i]
  <2>1. \A i \in 1 .. num : i - 1 \in 0 .. num
    OBVIOUS
  <2>2. \A i \in 1 .. num : I[i - 1] \subseteq MemType
    BY <2>1
  <2> QED BY <1>3, <2>2
<1>11. result[1 .. num] \in I[num]
  BY <1>2, <1>9, <1>10, LoopGives
<1> QED BY <1>1, <1>4, <1>11

-----------------------------------------------------------------------------
(* The pages a call has dealt with after round i, and the others.          *)
LEMMA RoundPages ==
  ASSUME NEW virt \in Pages, NEW num \in Nat, NEW i \in 1 .. num, range(virt, num) \subseteq Pages
  PROVE  /\ i - 1 \in 0 .. num /\ i \in 0 .. num
         /\ virt + i - 1 \in range(virt, num) /\ virt + i - 1 \in Pages
         /\ virt + i - 1 \notin range(virt, i - 1)
         /\ range(virt, i) = range(virt, i - 1) \cup {virt + i - 1}
         /\ range(virt, i - 1) \subseteq range(virt, num)
<1>1. virt \in Nat
  BY PagingAssumption DEF Pages
<1>2. virt + i - 1 \in range(virt, num) /\ virt + i - 1 \in Pages
  BY <1>1 DEF range
<1>3. /\ virt + i - 1 \notin range(virt, i - 1)
      /\ range(virt, i) = range(virt, i - 1) \cup {virt + i - 1}
      /\ range(virt, i - 1) \subseteq range(virt, num)
  BY <1>1 DEF range
<1> QED BY <1>2, <1>3

(* paging_alloc_pages: the pages of the call change, or no frame is left.  *)
LEMMA AllocStep ==
  ASSUME IInv, ~mem.aborted, NEW virt \in Pages, NEW num \in Nat,
         range(virt, num) \subseteq Pages, AllocPages(virt, num)
  PROVE  /\ mem' \in MemType
         /\ mem.null => mem'.null
         /\ ~mem.null =>
              \/ mem'.null /\ mem'.bitmap = Frames
              \/ /\ Accounted(mem', {})
                 /\ \A v \in Pages \ range(virt, num) :
                      (mem'.present[v] <=> mem.present[v]) /\ mem'.frame[v] = mem.frame[v]
<1> DEFINE same(m, i) == \A v \in Pages \ range(virt, i) :
                           (m.present[v] <=> mem.present[v]) /\ m.frame[v] = mem.frame[v]
           I == [i \in 0 .. num |->
                  {m \in MemType : /\ mem.null => m.null
                                   /\ ~mem.null => \/ m.null /\ m.bitmap = Frames
                                                   \/ Accounted(m, {}) /\ same(m, i)}]
<1>1. mem' = paging_alloc_pages(mem, virt, num)
  BY DEF AllocPages
<1>2. I \in [0 .. num -> SUBSET MemType]
  OBVIOUS
<1>3. mem \in MemType /\ mem \in I[0]
  BY DEF IInv
<1>4. ASSUME NEW i \in 1 .. num, NEW k \in I[i - 1]
      PROVE  allocOne(k, virt + i - 1) \in I[i]
  <2> DEFINE n == allocOne(k, virt + i - 1)
  <2>1. /\ i - 1 \in 0 .. num /\ i \in 0 .. num /\ virt + i - 1 \in Pages
        /\ range(virt, i) = range(virt, i - 1) \cup {virt + i - 1}
    BY RoundPages
  <2>2. /\ k \in MemType
        /\ mem.null => k.null
        /\ ~mem.null => \/ k.null /\ k.bitmap = Frames
                        \/ Accounted(k, {}) /\ same(k, i - 1)
    BY <1>4, <2>1
  <2>3. /\ n \in MemType
        /\ k.null => n.null
        /\ k.bitmap = Frames => n.bitmap = Frames
        /\ Accounted(k, {}) =>
             \/ n.null /\ n.bitmap = Frames
             \/ /\ Accounted(n, {})
                /\ \A v \in Pages \ {virt + i - 1} : /\ n.present[v] <=> k.present[v]
                                                     /\ n.frame[v] = k.frame[v]
    BY <2>1, <2>2, AllocRound
  <2> HIDE DEF n
  <2>4. ASSUME same(k, i - 1),
               \A v \in Pages \ {virt + i - 1} : /\ n.present[v] <=> k.present[v]
                                                 /\ n.frame[v] = k.frame[v]
        PROVE  same(n, i)
    BY <2>1, <2>4
  <2> HIDE DEF same
  <2>5. ~mem.null => \/ n.null /\ n.bitmap = Frames
                     \/ Accounted(n, {}) /\ same(n, i)
    BY <2>2, <2>3, <2>4
  <2> QED BY <2>1, <2>2, <2>3, <2>5 DEF n
<1> HIDE DEF I
<1>5. mem' \in I[num]
  BY <1>1, <1>2, <1>3, <1>4, AllocLoop
<1> QED BY <1>5 DEF I

(* paging_unmap_pages: the pages of the call change, or one of them is not *)
(* mapped and has a table.                                                 *)
LEMMA UnmapStep ==
  ASSUME IInv, ~mem.aborted, NEW virt \in Pages, NEW num \in Nat,
         range(virt, num) \subseteq Pages, UnmapPages(virt, num)
  PROVE  /\ mem' \in MemType
         /\ mem.null => mem'.null
         /\ ~mem.null =>
              \/ /\ mem'.null
                 /\ \E v \in range(virt, num) : hasTable(mem, v) /\ ~mem.present[v]
              \/ /\ Accounted(mem', {})
                 /\ \A v \in Pages \ range(virt, num) :
                      (mem'.present[v] <=> mem.present[v]) /\ mem'.frame[v] = mem.frame[v]
<1> DEFINE same(m, i) == \A v \in Pages \ range(virt, i) :
                           (m.present[v] <=> mem.present[v]) /\ m.frame[v] = mem.frame[v]
           empty == \E v \in range(virt, num) : hasTable(mem, v) /\ ~mem.present[v]
           I == [i \in 0 .. num |->
                  {m \in MemType : /\ mem.null => m.null
                                   /\ ~mem.null => \/ m.null /\ empty
                                                   \/ /\ Accounted(m, {}) /\ same(m, i)
                                                      /\ m.dir = mem.dir}]
<1>1. mem' = paging_unmap_pages(mem, virt, num)
  BY DEF UnmapPages
<1>2. I \in [0 .. num -> SUBSET MemType]
  OBVIOUS
<1>3. mem \in MemType /\ mem \in I[0]
  BY DEF IInv
<1>4. ASSUME NEW i \in 1 .. num, NEW k \in I[i - 1]
      PROVE  paging_unmap_page(k, virt + i - 1) \in I[i]
  <2> DEFINE n == paging_unmap_page(k, virt + i - 1)
             w == virt + i - 1
  <2>1. /\ i - 1 \in 0 .. num /\ i \in 0 .. num /\ w \in Pages /\ w \in range(virt, num)
        /\ w \notin range(virt, i - 1)
        /\ range(virt, i) = range(virt, i - 1) \cup {w}
    BY RoundPages
  <2>2. /\ k \in MemType
        /\ mem.null => k.null
        /\ ~mem.null => \/ k.null /\ empty
                        \/ Accounted(k, {}) /\ same(k, i - 1) /\ k.dir = mem.dir
    BY <1>4, <2>1
  <2>3. /\ n \in MemType
        /\ k.null => n.null
        /\ Accounted(k, {}) =>
             \/ n.null /\ hasTable(k, w) /\ ~k.present[w]
             \/ /\ Accounted(n, {}) /\ n.dir = k.dir
                /\ \A v \in Pages \ {w} : /\ n.present[v] <=> k.present[v]
                                          /\ n.frame[v] = k.frame[v]
    BY <2>1, <2>2, UnmapRound
  <2> HIDE DEF n, w
  <2>4. ASSUME same(k, i - 1), \A v \in Pages \ {w} : /\ n.present[v] <=> k.present[v]
                                                      /\ n.frame[v] = k.frame[v]
        PROVE  same(n, i)
    BY <2>1, <2>4
  <2>5. ASSUME same(k, i - 1), k.dir = mem.dir, hasTable(k, w), ~k.present[w] PROVE empty
    BY <2>1, <2>5 DEF hasTable
  <2> HIDE DEF same, empty
  <2>6. ~mem.null => \/ n.null /\ empty
                     \/ Accounted(n, {}) /\ same(n, i) /\ n.dir = mem.dir
    BY <2>2, <2>3, <2>4, <2>5
  <2> QED BY <2>1, <2>2, <2>3, <2>6 DEF n, w
<1> HIDE DEF I
<1>5. mem' \in I[num]
  BY <1>1, <1>2, <1>3, <1>4, UnmapLoop
<1> QED BY <1>5 DEF I

(* Mapping a run of frames that was found: those not mapped yet stay       *)
(* accounted for when a round takes a frame for a table.  It aborts at the *)
(* first page that is mapped.                                              *)
LEMMA MapFound ==
  ASSUME Accounted(mem, {}), NEW virt \in Pages, NEW num \in Nat,
         range(virt, num) \subseteq Pages, MapHeap(virt, num),
         mmap_find_free_frame(mem.bitmap, FRAMES, num) # 0
  PROVE  /\ mem' \in MemType
         /\ \/ mem'.null /\ mem'.bitmap = Frames
            \/ /\ \A v \in Pages \ range(virt, num) :
                    (mem'.present[v] <=> mem.present[v]) /\ mem'.frame[v] = mem.frame[v]
               /\ ~mem'.null
               /\ mem'.aborted => \E v \in range(virt, num) : mem.present[v]
               /\ ~mem'.aborted => /\ Accounted(mem', {})
                                   /\ \A v \in range(virt, num) : ~mem.present[v]
<1> DEFINE phys == mmap_find_free_frame(mem.bitmap, FRAMES, num)
           start == [mem EXCEPT !.bitmap = @ \cup range(phys, num)]
           left(i) == phys + i .. phys + num - 1
           same(m, i) == \A v \in Pages \ range(virt, i) :
                           (m.present[v] <=> mem.present[v]) /\ m.frame[v] = mem.frame[v]
           stopped(m) == /\ m.aborted /\ ~m.null /\ same(m, num)
                         /\ \E v \in range(virt, num) : mem.present[v]
           going(m, i) == /\ Accounted(m, left(i)) /\ same(m, i)
                          /\ \A v \in range(virt, i) : ~mem.present[v]
           I == [i \in 0 .. num |->
                  {m \in MemType : \/ m.null /\ m.bitmap = Frames
                                   \/ stopped(m) \/ going(m, i)}]
<1>1. mem' = paging_map_pages(start, virt, phys, num)
  BY DEF MapHeap, takenRun
<1>2. /\ phys \in Frames /\ phys \in Nat /\ range(phys, num) \subseteq Frames
      /\ range(phys, num) \cap mem.bitmap = {}
  <2>1. FRAMES \in Nat \ {0} /\ 0 \in mem.bitmap
    BY PagingAssumption DEF Accounted
  <2>2. /\ phys \in Nat \ {0} /\ phys + num <= FRAMES /\ num # 0
        /\ \A i \in phys .. phys + num - 1 : i \notin mem.bitmap
    BY <2>1, FindFreeFrameIsFree
  <2> HIDE DEF phys
  <2> QED BY <2>1, <2>2 DEF Frames, range
<1> HIDE DEF phys
<1>3. I \in [0 .. num -> SUBSET MemType]
  OBVIOUS
<1>4. start \in MemType /\ start \in I[0]
  <2>1. left(0) = range(phys, num)
    BY <1>2 DEF range
  <2>2. Accounted(start, range(phys, num)) /\ start.present = mem.present
        /\ start.frame = mem.frame
    BY <1>2, TakenKeeps
  <2> HIDE DEF start
  <2>3. same(start, 0)
    BY <2>2
  <2>4. \A v \in range(virt, 0) : ~mem.present[v]
    BY DEF range, Pages
  <2> HIDE DEF left, same
  <2>5. start \in MemType
    BY <2>2 DEF Accounted
  <2>6. going(start, 0)
    BY <2>1, <2>2, <2>3, <2>4
  <2> HIDE DEF going, stopped
  <2> QED BY <2>5, <2>6
<1> HIDE DEF start
<1>5. ASSUME NEW i \in 1 .. num, NEW k \in I[i - 1]
      PROVE  paging_map_page(k, virt + i - 1, phys + i - 1) \in I[i]
  <2> DEFINE n == paging_map_page(k, virt + i - 1, phys + i - 1)
             w == virt + i - 1
             f == phys + i - 1
  <2>1. /\ i - 1 \in 0 .. num /\ i \in 0 .. num /\ w \in Pages /\ w \in range(virt, num)
        /\ w \notin range(virt, i - 1) /\ range(virt, i - 1) \subseteq range(virt, num)
        /\ range(virt, i) = range(virt, i - 1) \cup {w}
    BY RoundPages
  <2>2. f \in left(i - 1) /\ left(i) = left(i - 1) \ {f} /\ f \in Nat
    <3>1. phys \in Nat
      BY <1>2
    <3> QED BY <3>1
  <2>3. k \in MemType /\ ((k.null /\ k.bitmap = Frames) \/ stopped(k) \/ going(k, i - 1))
    <3> HIDE DEF stopped, going
    <3> QED BY <1>5, <2>1
  <2> HIDE DEF left
  <2>4. /\ n \in MemType
        /\ k.null => n.null
        /\ k.bitmap = Frames => n.bitmap = Frames
        /\ k.aborted => n = k
        /\ \A R : Accounted(k, R) /\ f \in R => MapOutcome(k, n, w, f, R)
    <3>1. k \in MemType /\ w \in Pages /\ f \in Nat /\ n = paging_map_page(k, w, f)
      BY <2>1, <2>2, <2>3
    <3> HIDE DEF n, w, f
    <3> HIDE DEF I, same, stopped, going
    <3>2. n \in MemType /\ (k.null => n.null)
      BY <3>1, MapRound, Zenon
    <3>3. k.bitmap = Frames => n.bitmap = Frames
      BY <3>1, MapRound, Zenon
    <3>4. k.aborted => n = k
      BY <3>1 DEF paging_map_page
    <3>5. ASSUME NEW R, Accounted(k, R), f \in R PROVE MapOutcome(k, n, w, f, R)
      BY <3>1, <3>5, MapRound, Zenon
    <3> QED BY <3>2, <3>3, <3>4, <3>5, Zenon
  <2> HIDE DEF n, w, f
  <2>5. (n.null /\ n.bitmap = Frames) \/ stopped(n) \/ going(n, i)
    <3>1. CASE k.null /\ k.bitmap = Frames
      BY <2>4, <3>1
    <3>2. CASE stopped(k)
      BY <2>4, <3>2
    <3>3. CASE going(k, i - 1)
      <4>1. \/ n.null /\ n.bitmap = Frames
            \/ /\ k.present[w] /\ n.aborted /\ ~n.null
               /\ n.present = k.present /\ n.frame = k.frame
            \/ /\ ~k.present[w] /\ Accounted(n, left(i))
               /\ \A v \in Pages \ {w} : /\ n.present[v] <=> k.present[v]
                                         /\ n.frame[v] = k.frame[v]
        BY <2>2, <2>4, <3>3 DEF MapOutcome
      <4>2. same(k, i - 1) /\ (k.present[w] <=> mem.present[w])
        BY <2>1, <3>3
      <4>3. ASSUME k.present[w], n.aborted, ~n.null, n.present = k.present, n.frame = k.frame
            PROVE  stopped(n)
        BY <2>1, <4>2, <4>3
      <4>4. ASSUME ~k.present[w], Accounted(n, left(i)),
                   \A v \in Pages \ {w} : /\ n.present[v] <=> k.present[v]
                                          /\ n.frame[v] = k.frame[v]
            PROVE  going(n, i)
        <5>1. same(n, i)
          BY <2>1, <4>2, <4>4
        <5>2. \A v \in range(virt, i) : ~mem.present[v]
          BY <2>1, <3>3, <4>2, <4>4
        <5> HIDE DEF same
        <5> QED BY <4>4, <5>1, <5>2
      <4> HIDE DEF stopped, going, same
      <4> QED BY <4>1, <4>3, <4>4
    <3> HIDE DEF stopped, going
    <3> QED BY <2>3, <3>1, <3>2, <3>3
  <2> HIDE DEF stopped, going
  <2> QED BY <2>1, <2>4, <2>5 DEF n, w, f
<1>6. left(num) = {}
  BY <1>2
<1> HIDE DEF I
<1>7. mem' \in I[num]
  BY <1>1, <1>2, <1>3, <1>4, <1>5, MapLoop
<1> HIDE DEF left
<1>8. mem' \in MemType /\ ((mem'.null /\ mem'.bitmap = Frames) \/ stopped(mem') \/ going(mem', num))
  BY <1>7 DEF I
<1>9. ASSUME going(mem', num)
      PROVE  /\ ~mem'.null /\ ~mem'.aborted /\ Accounted(mem', {}) /\ same(mem', num)
             /\ \A v \in range(virt, num) : ~mem.present[v]
  BY <1>6, <1>9 DEF Accounted
<1> QED BY <1>8, <1>9

(* When frame 0 is in use it stays so, and mapping is still well typed.    *)
LEMMA MapTyped ==
  ASSUME NEW m \in MemType, m.null, NEW virt \in Pages, NEW num \in Nat,
         range(virt, num) \subseteq Pages, NEW phys \in Nat
  PROVE  LET n == paging_map_pages(m, virt, phys, num) IN n \in MemType /\ n.null
<1> DEFINE I == [i \in 0 .. num |-> {k \in MemType : k.null}]
<1>1. I \in [0 .. num -> SUBSET MemType] /\ m \in I[0]
  OBVIOUS
<1>2. ASSUME NEW i \in 1 .. num, NEW k \in I[i - 1]
      PROVE  paging_map_page(k, virt + i - 1, phys + i - 1) \in I[i]
  <2>1. i - 1 \in 0 .. num /\ i \in 0 .. num /\ phys + i - 1 \in Nat
    OBVIOUS
  <2>2. virt + i - 1 \in Pages
    BY RoundPages
  <2>3. k \in MemType /\ k.null
    BY <1>2, <2>1
  <2>4. /\ paging_map_page(k, virt + i - 1, phys + i - 1) \in MemType
        /\ paging_map_page(k, virt + i - 1, phys + i - 1).null
    BY <2>1, <2>2, <2>3, MapRound
  <2> QED BY <2>1, <2>4
<1> HIDE DEF I
<1>3. paging_map_pages(m, virt, phys, num) \in I[num]
  BY <1>1, <1>2, MapLoop
<1> QED BY <1>3 DEF I

(* Whatever the bitmap, the search gives a number.                         *)
LEMMA FoundNat ==
  ASSUME NEW bm, NEW num \in Nat
  PROVE  mmap_find_free_frame(bm, FRAMES, num) \in Nat
<1> DEFINE starts == {b \in 0 .. FRAMES - num : \A i \in b .. b + num - 1 : i \notin bm}
<1>1. starts # {} => Min(starts) \in Nat
  BY PagingAssumption, MinOfNat
<1> QED BY <1>1 DEF mmap_find_free_frame

(* The heap: mapped, or aborted at a page that was mapped, or frame 0 is   *)
(* in use because there is no run or no frame left.                        *)
LEMMA MapStep ==
  ASSUME IInv, ~mem.aborted, NEW virt \in Pages, NEW num \in Nat,
         range(virt, num) \subseteq Pages, MapHeap(virt, num)
  PROVE  /\ mem' \in MemType
         /\ mem.null => mem'.null
         /\ ~mem.null =>
              \/ mem'.null /\ (mem'.bitmap = Frames \/ noRun(num))
              \/ /\ \A v \in Pages \ range(virt, num) :
                      (mem'.present[v] <=> mem.present[v]) /\ mem'.frame[v] = mem.frame[v]
                 /\ ~mem'.null
                 /\ mem'.aborted => \E v \in range(virt, num) : mem.present[v]
                 /\ ~mem'.aborted => /\ Accounted(mem', {})
                                     /\ \A v \in range(virt, num) : ~mem.present[v]
<1> DEFINE phys == mmap_find_free_frame(mem.bitmap, FRAMES, num)
           start == takenRun(mem, phys, num)
<1>1. mem' = paging_map_pages(start, virt, phys, num) /\ mem \in MemType /\ phys \in Nat
  BY FoundNat DEF MapHeap, IInv
<1> HIDE DEF phys
<1>2. start \in MemType /\ (start.null <=> mem.null \/ (phys = 0 /\ num > 0))
  <2>1. range(phys, num) \subseteq Nat
    BY <1>1 DEF range
  <2> QED BY <1>1, <2>1 DEF takenRun, MemType
<1> HIDE DEF start
<1>3. start.null => mem' \in MemType /\ mem'.null
  BY <1>1, <1>2, MapTyped
<1>4. CASE mem.null
  BY <1>2, <1>3, <1>4
<1>5. CASE ~mem.null /\ phys = 0 /\ num > 0
  <2>1. noRun(num)
    BY <1>5, NoRunFound DEF phys, IInv, Accounted
  <2> QED BY <1>2, <1>3, <1>5, <2>1
<1>6. CASE ~mem.null /\ phys # 0
  BY <1>6, MapFound DEF phys, IInv
<1>7. CASE ~mem.null /\ num = 0
  <2>1. range(virt, num) = {}
    BY <1>7 DEF range, Pages
  <2>2. CASE phys # 0
    BY <1>6, <1>7, <2>2
  <2>3. CASE phys = 0
    <3>1. start = mem
      BY <1>1, <1>7, <2>3 DEF start, takenRun, MemType
    <3> DEFINE I == [i \in 0 .. num |-> {mem}]
    <3>2. I \in [0 .. num -> SUBSET MemType] /\ mem \in I[0]
          /\ \A i \in 1 .. num : \A k \in I[i - 1] :
               paging_map_page(k, virt + i - 1, phys + i - 1) \in I[i]
      BY <1>1, <1>7
    <3> HIDE DEF I
    <3>3. mem' \in I[num]
      BY <1>1, <3>1, <3>2, MapLoop
    <3>4. mem' = mem
      BY <3>3 DEF I
    <3> QED BY <1>1, <1>7, <2>1, <3>4 DEF IInv
  <2> QED BY <2>2, <2>3
<1> QED BY <1>1, <1>4, <1>5, <1>6, <1>7

-----------------------------------------------------------------------------
(* Every step keeps the invariant, changes its own pages only, and puts    *)
(* frame 0 to use for the reasons given only.                              *)
LEMMA NextInv ==
  ASSUME IInv, [Next]_vars
  PROVE  IInv' /\ [Contained]_vars /\ [Excused]_vars
<1>1. CASE UNCHANGED vars
  BY <1>1 DEF vars, IInv, Accounted, OwnTables
<1>2. CASE Next
  <2>1. PICK virt \in Pages, num \in Counts :
          /\ ~mem.aborted /\ range(virt, num) \subseteq Pages
          /\ \/ MapHeap(virt, num)
             \/ AllocPages(virt, num)
             \/ UnmapPages(virt, num)
    BY <1>2 DEF Next
  <2>2. num \in Nat
    BY PagingAssumption
  <2>3. CASE MapHeap(virt, num)
    <3>1. pages' = range(virt, num) /\ call'.num = num /\ call'.op = "map"
      BY <2>3 DEF MapHeap, pages, range
    <3>2. /\ mem' \in MemType
          /\ mem.null => mem'.null
          /\ ~mem.null =>
               \/ mem'.null /\ (mem'.bitmap = Frames \/ noRun(num))
               \/ /\ \A v \in Pages \ range(virt, num) :
                       (mem'.present[v] <=> mem.present[v]) /\ mem'.frame[v] = mem.frame[v]
                  /\ ~mem'.null
                  /\ mem'.aborted => \E v \in range(virt, num) : mem.present[v]
                  /\ ~mem'.aborted => /\ Accounted(mem', {})
                                      /\ \A v \in range(virt, num) : ~mem.present[v]
      BY <2>1, <2>2, <2>3, MapStep
    <3>3. IInv'
      BY <3>2 DEF IInv, Accounted, OwnTables
    <3>4. Contained
      BY <3>1, <3>2 DEF Contained
    <3>5. Excused
      BY <3>1, <3>2 DEF Excused
    <3> QED BY <3>3, <3>4, <3>5
  <2>4. CASE AllocPages(virt, num)
    <3>1. pages' = range(virt, num) /\ call'.op = "alloc"
      BY <2>4 DEF AllocPages, pages, range
    <3>2. /\ mem' \in MemType
          /\ mem.null => mem'.null
          /\ ~mem.null =>
               \/ mem'.null /\ mem'.bitmap = Frames
               \/ /\ Accounted(mem', {})
                  /\ \A v \in Pages \ range(virt, num) :
                       (mem'.present[v] <=> mem.present[v]) /\ mem'.frame[v] = mem.frame[v]
      BY <2>1, <2>2, <2>4, AllocStep
    <3>3. IInv'
      BY <3>2 DEF IInv, Accounted, OwnTables
    <3>4. Accounted(mem', {}) => ~mem'.aborted
      BY DEF Accounted
    <3>5. Contained
      BY <3>1, <3>2, <3>4 DEF Contained
    <3>6. Excused
      <4>1. Accounted(mem', {}) => ~mem'.null
        BY DEF Accounted
      <4> QED BY <3>1, <3>2, <4>1 DEF Excused
    <3> QED BY <3>3, <3>5, <3>6
  <2>5. CASE UnmapPages(virt, num)
    <3>1. pages' = range(virt, num) /\ call'.op = "unmap"
      BY <2>5 DEF UnmapPages, pages, range
    <3>2. /\ mem' \in MemType
          /\ mem.null => mem'.null
          /\ ~mem.null =>
               \/ /\ mem'.null
                  /\ \E v \in range(virt, num) : hasTable(mem, v) /\ ~mem.present[v]
               \/ /\ Accounted(mem', {})
                  /\ \A v \in Pages \ range(virt, num) :
                       (mem'.present[v] <=> mem.present[v]) /\ mem'.frame[v] = mem.frame[v]
      BY <2>1, <2>2, <2>5, UnmapStep
    <3>3. IInv'
      BY <3>2 DEF IInv, Accounted, OwnTables
    <3>4. Accounted(mem', {}) => ~mem'.aborted /\ ~mem'.null
      BY DEF Accounted
    <3>5. Contained
      BY <3>1, <3>2, <3>4 DEF Contained
    <3>6. Excused
      BY <3>1, <3>2, <3>4 DEF Excused
    <3> QED BY <3>3, <3>5, <3>6
  <2> QED BY <2>1, <2>3, <2>4, <2>5
<1> QED BY <1>1, <1>2

(* For every memory, every size of the tables and every sequence of calls  *)
(* on any pages, also the ones that stop half way and are tried again: as  *)
(* long as the kernel runs and frame 0 is not put to use, the frames taken *)
(* are the null frame, the page tables, the frames of the mapped pages and *)
(* those of overwritten entries, each in one role only.                    *)
THEOREM FramesSafe == Spec => []FramesAccounted
<1> QED BY InitInv, NextInv, InvImplies, PTL DEF Spec

(* For the same: a call changes the mappings of its own pages only, and    *)
(* paging_map_page aborts exactly at a page that was mapped.               *)
THEOREM CallsSafe == Spec => CallsContained
<1> QED BY InitInv, NextInv, PTL DEF Spec, CallsContained

(* Frame 0 is put to use only when memory is exhausted, when there is no   *)
(* run of frames for the heap, or by unmapping what is not mapped.         *)
THEOREM NullSafe == Spec => NullFrameKept
<1> QED BY InitInv, NextInv, PTL DEF Spec, NullFrameKept

=============================================================================
