----------------------------- MODULE InputProofs -----------------------------
(***************************************************************************)
(* Proofs about what keys do (Input): the windows of Gui, for every set of *)
(* addresses and every sequence of keys, and the commands of Shell, for    *)
(* every set of lines that fit, every length of words and every heap.      *)
(***************************************************************************)
EXTENDS Input, CommonLemmas, FiniteSetTheorems, TLAPS

ListType == [items : Seq(Windows), size : Nat \ {0}]

(* A list that has room for what it holds and holds nothing twice.         *)
SoundList(l) ==
  l \in ListType /\ Len(l.items) <= l.size /\ IsInjective(l.items)

(* What list_append does to such a list.                                   *)
LEMMA AppendKeeps ==
  ASSUME NEW l, SoundList(l), NEW w \in Windows, w \notin Range(l.items)
  PROVE  /\ SoundList(list_append(w, l))
         /\ Range(list_append(w, l).items) = Range(l.items) \cup {w}
<1> DEFINE s == l.items
           n == list_append(w, l)
           t == Append(s, w)
<1>1. s \in Seq(Windows) /\ l.size \in Nat \ {0} /\ Len(s) <= l.size /\ IsInjective(s)
  BY DEF SoundList, ListType
<1>2. /\ t \in Seq(Windows) /\ Len(t) = Len(s) + 1 /\ Len(s) \in Nat
      /\ DOMAIN s = 1 .. Len(s) /\ DOMAIN t = 1 .. Len(s) + 1
      /\ t[Len(s) + 1] = w /\ \A i \in 1 .. Len(s) : t[i] = s[i]
  BY <1>1
<1>3. n = [items |-> t, size |-> IF Len(s) = l.size THEN 2 * l.size ELSE l.size]
  BY DEF list_append
<1>4. n \in ListType /\ n.items = t /\ Len(n.items) <= n.size
  <2> HIDE DEF n, t, s
  <2> QED BY <1>1, <1>2, <1>3 DEF ListType
<1> HIDE DEF n, s, t
<1>5. \A i \in 1 .. Len(s) : s[i] \in Range(s) /\ s[i] # w
  BY <1>2 DEF Range, s
<1>6. IsInjective(t)
  BY <1>1, <1>2, <1>5 DEF IsInjective
<1>7. Range(t) = Range(s) \cup {w}
  <2>1. \A x \in Range(t) : x \in Range(s) \cup {w}
    BY <1>2 DEF Range
  <2>2. \A x \in Range(s) : x \in Range(t)
    <3> SUFFICES ASSUME NEW x \in Range(s) PROVE x \in Range(t)
      OBVIOUS
    <3>1. PICK i \in 1 .. Len(s) : x = s[i]
      BY <1>2 DEF Range
    <3>2. i \in DOMAIN t /\ t[i] = x
      BY <1>2, <3>1
    <3> QED BY <3>2 DEF Range
  <2>3. w \in Range(t)
    BY <1>2 DEF Range
  <2> QED BY <2>1, <2>2, <2>3
<1> QED BY <1>4, <1>6, <1>7 DEF SoundList, n, s

(* A list stays one when a window is added.                                *)
LEMMA AppendType ==
  ASSUME NEW l \in ListType, NEW w \in Windows
  PROVE  list_append(w, l) \in ListType
  BY DEF list_append, ListType

(* The windows in the first i entries.                                     *)
Before(items, i) == {items[j] : j \in 1 .. i}

(* list_remove gives a list with the other entries: after i rounds it has  *)
(* the first i of them.                                                    *)
LEMMA RemoveKeeps ==
  ASSUME NEW l, SoundList(l), NEW d
  PROVE  /\ SoundList(list_remove(d, l))
         /\ Range(list_remove(d, l).items) = Range(l.items) \ {d}
<1> DEFINE s == l.items
           n == Len(s)
           base == [items |-> <<>>, size |-> l.size]
           val(g, r) == IF r = {} THEN base
                        ELSE IF s[Max(r)] # d THEN list_append(s[Max(r)], g[r \ {Max(r)}])
                        ELSE g[r \ {Max(r)}]
           IsLoop(g) == g = [r \in SUBSET (DOMAIN s) |-> val(g, r)]
           step == [p \in (1 .. n) \X ListType |->
                      IF s[p[1]] # d THEN list_append(s[p[1]], p[2]) ELSE p[2]]
           result == CHOOSE g : IsLoop(g)
           I == [i \in 0 .. n |-> {k \in ListType : /\ SoundList(k)
                                                    /\ Range(k.items) = Before(s, i) \ {d}}]
<1>1. list_remove(d, l) = result[DOMAIN s]
  BY DEF list_remove, FoldLeft, MapThenFoldSet
<1>2. /\ s \in Seq(Windows) /\ n \in Nat /\ DOMAIN s = 1 .. n /\ l.size \in Nat \ {0}
      /\ \A i \in 1 .. n : s[i] \in Windows
      /\ \A i, j \in 1 .. n : s[i] = s[j] => i = j
  BY DEF SoundList, ListType, IsInjective
<1> HIDE DEF s, n
<1>3. base \in ListType /\ base.items = <<>>
  BY <1>2 DEF ListType
<1> HIDE DEF base
<1>4. step \in [(1 .. n) \X ListType -> ListType]
  <2> SUFFICES ASSUME NEW i \in 1 .. n, NEW k \in ListType
               PROVE  (IF s[i] # d THEN list_append(s[i], k) ELSE k) \in ListType
    OBVIOUS
  <2> QED BY <1>2, AppendType
<1>5. \A i \in 1 .. n : \A k \in ListType :
        step[<<i, k>>] = IF s[i] # d THEN list_append(s[i], k) ELSE k
  OBVIOUS
<1> HIDE DEF step
<1>6. ASSUME NEW r \in SUBSET (1 .. n), NEW g, r # {}, g[r \ {Max(r)}] \in ListType
      PROVE  val(g, r) = step[<<Max(r), g[r \ {Max(r)}]>>]
  <2>1. Max(r) \in 1 .. n
    BY <1>2, <1>6, PrefixSets
  <2> QED BY <1>5, <1>6, <2>1
<1>7. \A g : val(g, {}) = base
  OBVIOUS
<1> HIDE DEF val
<1>8. \E g : IsLoop(g)
  <2>1. PICK g \in [SUBSET (1 .. n) -> ListType] : Loops(g, n, ListType, base, step)
    BY <1>2, <1>3, <1>4, LoopExists
  <2>2. \A r \in SUBSET (1 .. n) : g[r] = val(g, r)
    BY <1>6, <1>7, <2>1 DEF Loops
  <2>3. g = [r \in SUBSET (1 .. n) |-> g[r]]
    OBVIOUS
  <2>4. IsLoop(g)
    BY <1>2, <2>2, <2>3
  <2> HIDE DEF IsLoop
  <2> QED BY <2>4
<1>9. IsLoop(result)
  BY <1>8
<1> HIDE DEF result
<1>10. Loops(result, n, ListType, base, step)
  <2>1. \A r \in SUBSET (1 .. n) : result[r] = val(result, r)
    BY <1>2, <1>9
  <2> QED BY <1>6, <1>7, <2>1 DEF Loops
<1>11. I \in [0 .. n -> SUBSET ListType]
  OBVIOUS
<1>12. base \in I[0]
  <2>1. SoundList(base)
    <3>1. Len(base.items) <= base.size
      BY <1>3 DEF ListType
    <3>2. IsInjective(base.items)
      BY <1>3 DEF IsInjective
    <3> QED BY <1>3, <3>1, <3>2 DEF SoundList
  <2>2. Range(base.items) = {} /\ Before(s, 0) = {}
    BY <1>3 DEF Range, Before
  <2> QED BY <1>2, <1>3, <2>1, <2>2
<1>13. ASSUME NEW i \in 1 .. n, NEW k \in I[i - 1]
       PROVE  step[<<i, k>>] \in I[i]
  <2>1. i - 1 \in 0 .. n /\ i \in 0 .. n
    BY <1>2
  <2>2. k \in ListType /\ SoundList(k) /\ Range(k.items) = Before(s, i - 1) \ {d}
    BY <2>1
  <2>3. Before(s, i) = Before(s, i - 1) \cup {s[i]}
    <3>1. 1 .. i = (1 .. i - 1) \cup {i}
      BY <1>2
    <3> QED BY <3>1 DEF Before
  <2>4. s[i] \notin Before(s, i - 1)
    BY <1>2 DEF Before
  <2>5. CASE s[i] = d
    <3>1. step[<<i, k>>] = k
      BY <1>5, <2>2, <2>5
    <3>2. Range(k.items) = Before(s, i) \ {d}
      BY <2>2, <2>3, <2>5
    <3> QED BY <2>1, <2>2, <3>1, <3>2
  <2>6. CASE s[i] # d
    <3> DEFINE a == list_append(s[i], k)
    <3>1. step[<<i, k>>] = a
      BY <1>5, <2>2, <2>6
    <3>2. SoundList(a) /\ Range(a.items) = Range(k.items) \cup {s[i]}
      BY <1>2, <2>2, <2>4, AppendKeeps
    <3> HIDE DEF a
    <3>3. Range(a.items) = Before(s, i) \ {d} /\ a \in ListType
      BY <2>2, <2>3, <2>6, <3>2 DEF SoundList
    <3> QED BY <2>1, <3>1, <3>2, <3>3
  <2> QED BY <2>5, <2>6
<1> HIDE DEF I
<1>14. result[1 .. n] \in I[n]
  BY <1>2, <1>3, <1>4, <1>10, <1>11, <1>12, <1>13, LoopGives
<1>15. SoundList(result[1 .. n]) /\ Range(result[1 .. n].items) = Before(s, n) \ {d}
  BY <1>2, <1>14 DEF I
<1>16. Before(s, n) = Range(s)
  BY <1>2 DEF Before, Range
<1> QED BY <1>1, <1>2, <1>15, <1>16 DEF s

(* The window the focus goes to is a normal one of the list, if there is.  *)
LEMMA FirstNormal ==
  ASSUME NEW l \in ListType
  PROVE  LET w == find_first_normal_window(l)
         IN  IF \E x \in Range(l.items) : isNormal(x)
             THEN w \in Range(l.items) /\ isNormal(w) ELSE w = NULL
<1> DEFINE s == l.items
           normal == {i \in DOMAIN s : isNormal(s[i])}
           w == find_first_normal_window(l)
<1>1. DOMAIN s \subseteq Nat
  BY DEF ListType
<1>2. w = IF normal = {} THEN NULL ELSE s[Min(normal)]
  BY DEF find_first_normal_window
<1>3. normal # {} <=> \E x \in Range(s) : isNormal(x)
  BY DEF Range
<1>4. ASSUME normal # {} PROVE Min(normal) \in normal
  <2>1. normal \subseteq Nat
    BY <1>1
  <2> QED BY <1>4, <2>1, MinOfNat
<1>5. ASSUME normal # {} PROVE w \in Range(s) /\ isNormal(w)
  <2>1. w = s[Min(normal)] /\ Min(normal) \in DOMAIN s /\ isNormal(s[Min(normal)])
    BY <1>2, <1>4, <1>5
  <2> QED BY <2>1 DEF Range
<1> HIDE DEF w, normal, s
<1>6. IF \E x \in Range(s) : isNormal(x) THEN w \in Range(s) /\ isNormal(w) ELSE w = NULL
  BY <1>2, <1>3, <1>5
<1> QED BY <1>6 DEF w, s

-----------------------------------------------------------------------------
(* The inductive invariant: the list is one list_append keeps sound, which *)
(* takes that its array never has size 0, and every window has its flags.  *)
IInv ==
  /\ TypeOK /\ ListedAreLive /\ FocusIsNormal
  /\ window_list \in ListType
  /\ flags \in [Windows -> {"WM_WINDOW", "normal"}]

(* The list of the invariant is sound.                                     *)
LEMMA InvList == IInv => SoundList(window_list)
  BY DEF IInv, TypeOK, ListedAreLive, SoundList

(* After init_gui: two windows of the window manager and a normal one.     *)
LEMMA InitInv == Init => IInv
<1> SUFFICES ASSUME Init PROVE IInv
  OBVIOUS
<1>1. PICK w \in Windows \ {background_window, top_bar_window} :
        /\ window_list = list_append(w, list_append(top_bar_window,
                           list_append(background_window, [items |-> <<>>, size |-> 1])))
        /\ focused = w
        /\ live = {background_window, top_bar_window, w}
        /\ flags = [v \in Windows |-> IF v \in {background_window, top_bar_window}
                                      THEN "WM_WINDOW" ELSE "normal"]
        /\ screen = "up"
  BY DEF Init, guiInit
<1> DEFINE e == [items |-> <<>>, size |-> 1]
           l1 == list_append(background_window, e)
           l2 == list_append(top_bar_window, l1)
<1>2. SoundList(e) /\ Range(e.items) = {}
  BY DEF SoundList, ListType, IsInjective, Range
<1>3. background_window \in Windows /\ top_bar_window \in Windows
      /\ background_window # top_bar_window
  BY GuiAssumption
<1> HIDE DEF e
<1>4. SoundList(l1) /\ Range(l1.items) = {background_window}
  BY <1>2, <1>3, AppendKeeps
<1> HIDE DEF l1
<1>5. SoundList(l2) /\ Range(l2.items) = {background_window, top_bar_window}
  <2>1. SoundList(l2) /\ Range(l2.items) = {background_window} \cup {top_bar_window}
    BY <1>3, <1>4, AppendKeeps
  <2> HIDE DEF l2
  <2> QED BY <2>1
<1>6. window_list = list_append(w, l2)
  BY <1>1 DEF l2, l1, e
<1> HIDE DEF l2
<1>7. SoundList(window_list) /\ Range(window_list.items) = {background_window, top_bar_window, w}
  <2>1. /\ SoundList(window_list)
        /\ Range(window_list.items) = {background_window, top_bar_window} \cup {w}
    BY <1>5, <1>6, AppendKeeps
  <2> QED BY <2>1
<1>8. ListedAreLive
  BY <1>1, <1>7 DEF ListedAreLive, listed, SoundList
<1>9. flags \in [Windows -> {"WM_WINDOW", "normal"}] /\ flags[w] = "normal"
  BY <1>1
<1>10. FocusIsNormal
  BY <1>1, <1>7, <1>9 DEF FocusIsNormal, isNormal, listed
<1>11. TypeOK
  BY <1>1, <1>3, <1>7 DEF TypeOK, Init, SoundList
<1> QED BY <1>7, <1>8, <1>9, <1>10, <1>11 DEF IInv, SoundList

(* The 'n' key.                                                            *)
LEMMA OpenInv ==
  ASSUME IInv, open_window, UNCHANGED <<build, machine>>
  PROVE  IInv'
<1>1. PICK w \in Windows \ live :
        /\ live' = live \cup {w} /\ flags' = [flags EXCEPT ![w] = "normal"]
        /\ focused' = w /\ window_list' = list_append(w, window_list) /\ screen' = screen
  BY DEF open_window
<1>2. Range(window_list.items) = live
  BY DEF IInv, ListedAreLive, listed
<1>3. SoundList(window_list') /\ Range(window_list'.items) = live \cup {w}
  BY <1>1, <1>2, InvList, AppendKeeps
<1>4. flags' \in [Windows -> {"WM_WINDOW", "normal"}] /\ flags'[w] = "normal"
  BY <1>1 DEF IInv
<1>5. ListedAreLive'
  BY <1>1, <1>3 DEF ListedAreLive, listed, SoundList
<1>6. FocusIsNormal'
  BY <1>1, <1>3, <1>4 DEF FocusIsNormal, isNormal, listed
<1>7. TypeOK'
  BY <1>1, <1>3 DEF IInv, TypeOK, SoundList
<1> QED BY <1>3, <1>4, <1>5, <1>6, <1>7 DEF IInv, SoundList

(* The 'q' key.                                                            *)
LEMMA CloseInv ==
  ASSUME IInv, close_window, UNCHANGED <<build, machine>>
  PROVE  IInv'
<1>1. /\ live' = live \ {focused} /\ flags' = flags /\ screen' = screen
      /\ window_list' = list_remove(focused, window_list)
      /\ focused' = find_first_normal_window(window_list')
  BY DEF close_window
<1>2. Range(window_list.items) = live
  BY DEF IInv, ListedAreLive, listed
<1>3. SoundList(window_list') /\ Range(window_list'.items) = live'
  BY <1>1, <1>2, InvList, RemoveKeeps
<1>4. ListedAreLive'
  BY <1>3 DEF ListedAreLive, listed, SoundList
<1>5. IF \E x \in Range(window_list'.items) : isNormal(x)
      THEN focused' \in Range(window_list'.items) /\ isNormal(focused') ELSE focused' = NULL
  BY <1>1, <1>3, FirstNormal DEF SoundList
<1>6. FocusIsNormal'
  BY <1>1, <1>5 DEF FocusIsNormal, isNormal, listed
<1>7. TypeOK'
  <2>1. live' \subseteq Windows
    BY <1>1 DEF IInv, TypeOK
  <2>2. focused' \in Windows \cup {NULL}
    BY <1>3, <1>5, <2>1
  <2> QED BY <1>1, <1>3, <2>1, <2>2 DEF IInv, TypeOK, SoundList
<1> QED BY <1>1, <1>3, <1>4, <1>6, <1>7 DEF IInv, SoundList

(* Every step keeps the invariant; the commands of the text build and      *)
(* Escape leave the windows alone.                                         *)
LEMMA NextInv ==
  ASSUME IInv, [Next]_vars
  PROVE  IInv'
<1>1. ASSUME UNCHANGED <<window_list, focused, live, flags>>,
             build' = build, machine' \in {"on", "reset"}, screen' \in {"up", "wild"}
      PROVE  IInv'
  BY <1>1 DEF IInv, TypeOK, ListedAreLive, FocusIsNormal, listed, isNormal
<1>2. machine \in {"on", "reset"} /\ screen \in {"up", "wild"}
  BY DEF IInv, TypeOK
<1>3. CASE UNCHANGED vars
  BY <1>1, <1>2, <1>3 DEF vars, guiVars
<1>4. CASE Key
  <2>1. keypress /\ UNCHANGED <<build, machine>>
    BY <1>4 DEF Key
  <2>2. CASE open_window
    BY <2>1, <2>2, OpenInv
  <2>3. CASE close_window
    BY <2>1, <2>3, CloseInv
  <2>4. CASE use_focused
    BY <1>1, <1>2, <2>1, <2>4 DEF use_focused, guiVars
  <2>5. CASE use_nothing
    BY <1>1, <1>2, <2>1, <2>5 DEF use_nothing
  <2> QED BY <2>1, <2>2, <2>3, <2>4, <2>5 DEF keypress
<1>5. CASE Escape
  BY <1>1, <1>2, <1>5 DEF Escape, guiVars
<1>6. ASSUME NEW line \in Lines, Line(line) PROVE IInv'
  BY <1>1, <1>2, <1>6 DEF Line, guiVars
<1> QED BY <1>3, <1>4, <1>5, <1>6 DEF Next

(* Whatever keys open and close windows, and however often their addresses *)
(* are used again: the list has the windows that are allocated, each once, *)
(* in an array with room for them, and the keys go to a normal window      *)
(* whenever there is one.                                                  *)
THEOREM WindowsSafe == Spec => []WindowsSound
<1>1. IInv => WindowsSound
  BY DEF IInv, WindowsSound
<1> QED BY InitInv, NextInv, <1>1, PTL DEF Spec

-----------------------------------------------------------------------------
(* The commands.  Their heap first: what aligned_alloc and kfree do to the *)
(* blocks, as far as a command can tell.                                   *)

(* Blocks of the heap that are known by their addresses.  Unlike in        *)
(* KmallocProofs, where they lie does not matter here.                     *)
Known(h) ==
  /\ h \subseteq Block
  /\ \A b, d \in h : b.addr = d.addr => b = d
  /\ \A b \in h : /\ b.addr >= HEAP_BEGIN
                  /\ b.addr + header_size + b.size <= HEAP_END
                  /\ b.addr = HEAP_BEGIN => b.used

(* The addresses of all blocks but the bottom one, and of the used ones.   *)
Mine(h) == {b.addr : b \in h} \ {HEAP_BEGIN}
InUse(h) == {b.addr : b \in {d \in h : d.used}} \ {HEAP_BEGIN}

(* The sizes of the heap and of its headers.                               *)
LEMMA HeapNumbers ==
  /\ header_size = 8 /\ SIZEOF = 12 /\ MIN_ALIGN = 4
  /\ HEAP_BEGIN \in Nat \ {0} /\ HEAP_END \in Nat /\ UINT32 \in Nat \ {0}
  /\ HEAP_BEGIN + SIZEOF < HEAP_END /\ HEAP_END < UINT32
  BY HeapBlocksAssumption DEF header_size, SIZEOF, MIN_ALIGN, HEAP_END

(* align_to rounds up, where it does not wrap.                             *)
LEMMA RoundsUp ==
  ASSUME NEW n \in Nat, NEW a \in {4, 8}, n + a <= UINT32
  PROVE  align_to(n, a) \in Nat /\ n <= align_to(n, a) /\ align_to(n, a) < n + a
<1> DEFINE r == n % a
           m == n + (a - r)
<1>1. a \in Nat \ {0} /\ r \in 0 .. a - 1
  OBVIOUS
<1>2. CASE r = 0
  BY <1>1, <1>2 DEF align_to
<1>3. CASE r # 0
  <2>1. m \in Nat /\ n < m /\ m < n + a /\ m < UINT32
    <3> HIDE DEF r
    <3> QED BY <1>1, <1>3, HeapNumbers
  <2>2. m % UINT32 = m
    <3> HIDE DEF m
    <3> QED BY <2>1, HeapNumbers
  <2>3. align_to(n, a) = m
    BY <1>3, <2>2 DEF align_to
  <2> QED BY <2>1, <2>3
<1> QED BY <1>2, <1>3

(* The block with an address is found by it.                               *)
LEMMA FindBlock ==
  ASSUME NEW h, Known(h), NEW b \in h
  PROVE  mem_get_block(h, b.addr) = b
  BY DEF mem_get_block, Known

(* Setting the list up adds no block but the bottom one.                   *)
LEMMA SetupKnown ==
  ASSUME NEW h, Known(h)
  PROVE  /\ Known(setup(h)) /\ setup(h) # {}
         /\ Mine(setup(h)) = Mine(h) /\ InUse(setup(h)) = InUse(h)
<1>1. CASE h = {}
  <2> DEFINE b == [addr |-> HEAP_BEGIN, size |-> 0, used |-> TRUE]
  <2>1. setup(h) = {b}
    BY <1>1 DEF setup
  <2>2. b \in Block /\ b.addr + header_size + b.size <= HEAP_END
    BY HeapNumbers DEF Block
  <2>3. Known({b})
    BY <2>2, HeapNumbers DEF Known
  <2>4. Mine({b}) = {} /\ InUse({b}) = {} /\ Mine({}) = {} /\ InUse({}) = {}
    BY DEF Mine, InUse
  <2> QED BY <1>1, <2>1, <2>3, <2>4
<1>2. CASE h # {}
  BY <1>2 DEF setup
<1> QED BY <1>1, <1>2

(* Changing the flag of a block.                                           *)
LEMMA MarkKnown ==
  ASSUME NEW h, Known(h), NEW b \in h, NEW flag \in BOOLEAN, b.addr = HEAP_BEGIN => flag
  PROVE  /\ Known(mark(h, b, flag)) /\ Mine(mark(h, b, flag)) = Mine(h)
         /\ [b EXCEPT !.used = flag] \in mark(h, b, flag)
         /\ flag => InUse(mark(h, b, flag)) = InUse(h) \cup ({b.addr} \ {HEAP_BEGIN})
         /\ ~flag => InUse(mark(h, b, flag)) = InUse(h) \ {b.addr}
<1> DEFINE m == [b EXCEPT !.used = flag]
<1>1. b \in Block /\ \A d \in h : d.addr = b.addr => d = b
  BY DEF Known
<1>2. m \in Block /\ m.addr = b.addr /\ m.size = b.size /\ m.used = flag
  BY <1>1 DEF Block
<1>3. mark(h, b, flag) = (h \ {b}) \cup {m}
  BY DEF mark
<1> HIDE DEF m
<1>4. Known((h \ {b}) \cup {m})
  <2>1. (h \ {b}) \cup {m} \subseteq Block
    BY <1>2 DEF Known
  <2>2. \A c, d \in (h \ {b}) \cup {m} : c.addr = d.addr => c = d
    BY <1>1, <1>2 DEF Known
  <2>3. \A d \in (h \ {b}) \cup {m} : /\ d.addr >= HEAP_BEGIN
                                      /\ d.addr + header_size + d.size <= HEAP_END
                                      /\ d.addr = HEAP_BEGIN => d.used
    BY <1>2 DEF Known
  <2> QED BY <2>1, <2>2, <2>3 DEF Known
<1>5. Mine((h \ {b}) \cup {m}) = Mine(h)
  BY <1>2 DEF Mine
<1>6. flag => InUse((h \ {b}) \cup {m}) = InUse(h) \cup ({b.addr} \ {HEAP_BEGIN})
  BY <1>2 DEF InUse
<1>7. ~flag => InUse((h \ {b}) \cup {m}) = InUse(h) \ {b.addr}
  BY <1>1, <1>2 DEF InUse
<1> QED BY <1>3, <1>4, <1>5, <1>6, <1>7 DEF m

(* A list that is not empty has a top block.                               *)
LEMMA TopKnown ==
  ASSUME NEW h, Known(h), h # {}
  PROVE  top(h) \in h /\ \A d \in h : d.addr <= top(h).addr
<1> DEFINE A == {b.addr : b \in h}
<1>1. A \subseteq 0 .. HEAP_END /\ A # {}
  BY HeapNumbers DEF Known, Block
<1>2. \E x \in A : \A y \in A : y <= x
  BY <1>1, HeapNumbers, GreatestNat
<1>3. \E b \in h : \A d \in h : d.addr <= b.addr
  BY <1>2
<1> QED BY <1>3 DEF top

(* mem_find_block returns a block that fits, if there is one.              *)
LEMMA FoundKnown ==
  ASSUME NEW h, Known(h), NEW size, NEW align, fitting(h, size, align) # {}
  PROVE  mem_find_block(h, size, align) \in fitting(h, size, align)
<1> DEFINE fit == fitting(h, size, align)
           A == {b.addr : b \in fit}
<1>1. A \subseteq Nat /\ A # {}
  BY DEF fitting, Known, Block
<1>2. \E x \in A : \A y \in A : x <= y
  BY <1>1, LeastNat
<1>3. \E b \in fit : \A d \in fit : b.addr <= d.addr
  BY <1>2
<1> QED BY <1>3 DEF mem_find_block

(* A block above the top one.  With the least alignment there is no        *)
(* filler.                                                                 *)
LEMMA AppendKnown ==
  ASSUME NEW h, Known(h), h # {}, NEW size \in Nat,
         HEAP_END + SIZEOF + MIN_ALIGN + size <= UINT32,
         ~ (end(top(h), size, MIN_ALIGN) > HEAP_END)
  PROVE  LET n == [addr |-> after(top(h), MIN_ALIGN), size |-> size, used |-> TRUE]
         IN  /\ mem_new_block(h, top(h), size, MIN_ALIGN) = h \cup {n}
             /\ n \in Block /\ n.addr > HEAP_BEGIN /\ n.addr \notin Mine(h)
             /\ Known(h \cup {n})
             /\ Mine(h \cup {n}) = Mine(h) \cup {n.addr}
             /\ InUse(h \cup {n}) = InUse(h) \cup {n.addr}
<1> DEFINE t == top(h)
           k == t.addr + mem_block_size(t) + header_size
           e == align_to(k, MIN_ALIGN)
           a == after(t, MIN_ALIGN)
           n == [addr |-> a, size |-> size, used |-> TRUE]
<1>1. t \in h /\ t \in Block /\ t.addr >= HEAP_BEGIN /\ t.addr + header_size + t.size <= HEAP_END
      /\ \A d \in h : d.addr <= t.addr
  BY TopKnown DEF Known
<1>2. /\ k \in Nat /\ k = t.addr + t.size + 20 /\ k <= HEAP_END + 12
      /\ t.addr \in Nat /\ t.size \in Nat
  BY <1>1, HeapNumbers DEF Block, mem_block_size
<1> HIDE DEF t
<1>3. e \in Nat /\ k <= e /\ e < k + 4
  <2> HIDE DEF k
  <2>1. k + 4 <= UINT32 /\ MIN_ALIGN \in {4, 8}
    BY <1>2, HeapNumbers
  <2> QED BY <1>2, <2>1, RoundsUp, HeapNumbers
<1>4. a = e - 8
  BY HeapNumbers DEF after
<1>5. end(t, size, MIN_ALIGN) = (e + size) % UINT32
  BY DEF end
<1> HIDE DEF k, e, a
<1>6. (e + size) % UINT32 = e + size
  <2>1. e + size \in Nat /\ e + size < UINT32
    BY <1>2, <1>3, HeapNumbers
  <2> HIDE DEF e
  <2> QED BY <2>1, HeapNumbers
<1>7. e + size <= HEAP_END
  BY <1>3, <1>5, <1>6, HeapNumbers DEF t
<1>8. a \in Nat /\ a > t.addr /\ a > HEAP_BEGIN /\ a + header_size + size <= HEAP_END
  BY <1>1, <1>2, <1>3, <1>4, <1>7, HeapNumbers
<1>9. n \in Block /\ n.addr = a /\ n.size = size /\ n.used = TRUE
  BY <1>8 DEF Block
<1>10. filler(t, MIN_ALIGN) = {}
  <2>1. ~ (a - a > SIZEOF + MIN_ALIGN)
    BY <1>8, HeapNumbers
  <2> QED BY <2>1 DEF filler, a
<1>11. mem_new_block(h, t, size, MIN_ALIGN) = h \cup {n}
  BY <1>10 DEF mem_new_block, a
<1> HIDE DEF n
<1>12. \A d \in h : d.addr # a /\ d \in Block
  BY <1>1, <1>2, <1>8 DEF Block, Known
<1>13. Known(h \cup {n})
  <2>1. h \cup {n} \subseteq Block
    BY <1>9 DEF Known
  <2>2. \A b, d \in h \cup {n} : b.addr = d.addr => b = d
    BY <1>9, <1>12 DEF Known
  <2>3. \A d \in h \cup {n} : /\ d.addr >= HEAP_BEGIN
                              /\ d.addr + header_size + d.size <= HEAP_END
                              /\ d.addr = HEAP_BEGIN => d.used
    BY <1>8, <1>9, HeapNumbers DEF Known
  <2> QED BY <2>1, <2>2, <2>3 DEF Known
<1>14. a # HEAP_BEGIN /\ a \notin Mine(h)
  BY <1>8, <1>12, HeapNumbers DEF Mine
<1>15. Mine(h \cup {n}) = Mine(h) \cup {a} /\ InUse(h \cup {n}) = InUse(h) \cup {a}
  BY <1>9, <1>14 DEF Mine, InUse
<1> QED BY <1>8, <1>9, <1>11, <1>13, <1>14, <1>15 DEF n, t, a

(* What aligned_alloc does for a command.  It aborts, or returns a block   *)
(* that was not in use, with room for the request.                         *)
LEMMA AllocGives ==
  ASSUME NEW h, Known(h), NEW req \in Nat, Bounded(req),
         NEW r, r = aligned_alloc(h, MIN_ALIGN, req), r.block # 0
  PROVE  /\ Known(r.heap) /\ r.block \in Nat
         /\ \E n \in r.heap : n.addr = r.block /\ n.size >= req /\ n.size \in Nat
         /\ r.block \notin InUse(h) /\ r.block \in Mine(r.heap)
         /\ Mine(r.heap) = Mine(h) \cup {r.block}
         /\ InUse(r.heap) = InUse(h) \cup {r.block}
<1> DEFINE g == setup(h)
           size == align_to(req, 8)
           b == mem_find_block(g, size, MIN_ALIGN)
           t == top(g)
<1>1. Known(g) /\ g # {} /\ Mine(g) = Mine(h) /\ InUse(g) = InUse(h)
  BY SetupKnown
<1>2. size \in Nat /\ size >= req /\ HEAP_END + SIZEOF + MIN_ALIGN + size <= UINT32
  <2>1. req + 8 <= UINT32 /\ HEAP_END + SIZEOF + MIN_ALIGN + req + 7 <= UINT32
    BY HeapNumbers DEF Bounded
  <2>2. size \in Nat /\ req <= size /\ size < req + 8
    BY <2>1, RoundsUp
  <2> HIDE DEF size
  <2> QED BY <2>1, <2>2, HeapNumbers
<1>3. CASE fitting(g, size, MIN_ALIGN) # {}
  <2> DEFINE n == [b EXCEPT !.used = TRUE]
  <2>1. r.heap = mark(g, b, TRUE) /\ r.block = b.addr
    BY <1>3 DEF aligned_alloc
  <2>2. b \in fitting(g, size, MIN_ALIGN)
    BY <1>1, <1>3, FoundKnown
  <2> HIDE DEF b, g, size
  <2>3. b \in g /\ b.size >= size /\ ~b.used
    BY <2>2 DEF fitting
  <2>4. b \in Block /\ b.addr # HEAP_BEGIN /\ b.addr \notin InUse(g) /\ b.addr \in Mine(g)
    BY <1>1, <2>3 DEF Known, InUse, Mine
  <2>5. /\ Known(mark(g, b, TRUE)) /\ Mine(mark(g, b, TRUE)) = Mine(g)
        /\ n \in mark(g, b, TRUE)
        /\ InUse(mark(g, b, TRUE)) = InUse(g) \cup ({b.addr} \ {HEAP_BEGIN})
    BY <1>1, <2>3, MarkKnown
  <2>6. n.addr = b.addr /\ n.size = b.size /\ b.size \in Nat /\ b.addr \in Nat
    BY <2>4 DEF Block
  <2> HIDE DEF n
  <2>7. n.size >= req
    BY <1>2, <2>3, <2>6
  <2> QED BY <1>1, <2>1, <2>4, <2>5, <2>6, <2>7
<1>4. CASE fitting(g, size, MIN_ALIGN) = {}
  <2> DEFINE n == [addr |-> after(t, MIN_ALIGN), size |-> size, used |-> TRUE]
  <2>1. /\ ~ (end(t, size, MIN_ALIGN) > HEAP_END)
        /\ r.heap = mem_new_block(g, t, size, MIN_ALIGN) /\ r.block = after(t, MIN_ALIGN)
    BY <1>4 DEF aligned_alloc
  <2> HIDE DEF g, size
  <2>2. /\ mem_new_block(g, t, size, MIN_ALIGN) = g \cup {n}
        /\ n \in Block /\ n.addr > HEAP_BEGIN /\ n.addr \notin Mine(g)
        /\ Known(g \cup {n})
        /\ Mine(g \cup {n}) = Mine(g) \cup {n.addr}
        /\ InUse(g \cup {n}) = InUse(g) \cup {n.addr}
    BY <1>1, <1>2, <2>1, AppendKnown
  <2>3. n.addr = r.block /\ n.size = size /\ n.addr \in Nat
    BY <2>1, <2>2 DEF Block
  <2>4. InUse(g) \subseteq Mine(g)
    BY DEF InUse, Mine
  <2> HIDE DEF n
  <2> QED BY <1>1, <1>2, <2>1, <2>2, <2>3, <2>4
<1> QED BY <1>3, <1>4

(* What kfree does with a block, whether it is in use or not: the second   *)
(* release of a block changes nothing.                                     *)
LEMMA FreeGives ==
  ASSUME NEW h, Known(h), NEW p \in Mine(h)
  PROVE  /\ Known(kfree(h, p)) /\ Mine(kfree(h, p)) = Mine(h)
         /\ InUse(kfree(h, p)) = InUse(h) \ {p}
<1>1. PICK b \in h : b.addr = p /\ p # HEAP_BEGIN
  BY DEF Mine
<1>2. kfree(h, p) = mark(h, b, FALSE)
  BY <1>1, FindBlock DEF kfree
<1>3. /\ Known(mark(h, b, FALSE)) /\ Mine(mark(h, b, FALSE)) = Mine(h)
      /\ InUse(mark(h, b, FALSE)) = InUse(h) \ {b.addr}
  <2>1. FALSE \in BOOLEAN /\ (b.addr = HEAP_BEGIN => FALSE)
    BY <1>1
  <2> QED BY <2>1, MarkKnown
<1> QED BY <1>1, <1>2, <1>3

-----------------------------------------------------------------------------
(* Texts.  strlen adds up the words, and a character between two.          *)
Words == DOMAIN WordLength

(* The rounds of the loop that computes strlen.                            *)
LEMMA LengthRounds ==
  ASSUME NEW text \in Seq(Words)
  PROVE  \E v \in [0 .. Len(text) -> Int] :
           /\ v[0] = -1 /\ strlen(text) = v[Len(text)] + (IF text = <<>> THEN 1 ELSE 0)
           /\ \A i \in 1 .. Len(text) : v[i] = v[i - 1] + WordLength[text[i]] + 1
<1> DEFINE n == Len(text)
           val(g, r) == IF r = {} THEN -1 ELSE g[r \ {Max(r)}] + WordLength[text[Max(r)]] + 1
           IsLoop(g) == g = [r \in SUBSET (DOMAIN text) |-> val(g, r)]
           loop == CHOOSE g : IsLoop(g)
           step == [p \in (1 .. n) \X Int |-> p[2] + WordLength[text[p[1]]] + 1]
<1>1. strlen(text) = loop[DOMAIN text] + (IF text = <<>> THEN 1 ELSE 0)
  BY DEF strlen, FoldLeft, MapThenFoldSet
<1>2. n \in Nat /\ DOMAIN text = 1 .. n /\ \A i \in 1 .. n : WordLength[text[i]] \in Nat
  BY ShellAssumption DEF Words
<1> HIDE DEF n
<1>3. step \in [(1 .. n) \X Int -> Int] /\ -1 \in Int
  BY <1>2
<1>4. \A i \in 1 .. n : \A m \in Int : step[<<i, m>>] = m + WordLength[text[i]] + 1
  OBVIOUS
<1> HIDE DEF step
<1>5. ASSUME NEW r \in SUBSET (1 .. n), NEW g, r # {}, g[r \ {Max(r)}] \in Int
      PROVE  val(g, r) = step[<<Max(r), g[r \ {Max(r)}]>>]
  <2>1. Max(r) \in 1 .. n
    BY <1>2, <1>5, PrefixSets
  <2> QED BY <1>4, <1>5, <2>1
<1>6. \A g : val(g, {}) = -1
  OBVIOUS
<1> HIDE DEF val
<1>7. \E g : IsLoop(g)
  <2>1. PICK g \in [SUBSET (1 .. n) -> Int] : Loops(g, n, Int, -1, step)
    BY <1>2, <1>3, LoopExists
  <2>2. \A r \in SUBSET (1 .. n) : g[r] = val(g, r)
    BY <1>5, <1>6, <2>1 DEF Loops
  <2>3. g = [r \in SUBSET (1 .. n) |-> g[r]]
    OBVIOUS
  <2>4. IsLoop(g)
    BY <1>2, <2>2, <2>3
  <2> HIDE DEF IsLoop
  <2> QED BY <2>4
<1>8. IsLoop(loop)
  BY <1>7
<1> HIDE DEF loop
<1>9. Loops(loop, n, Int, -1, step)
  <2>1. \A r \in SUBSET (1 .. n) : loop[r] = val(loop, r)
    BY <1>2, <1>8
  <2> QED BY <1>5, <1>6, <2>1 DEF Loops
<1>10. PICK v : Rounds(v, n, Int, -1, step, loop[1 .. n])
  BY <1>2, <1>3, <1>9, LoopRounds
<1>11. ASSUME NEW i \in 1 .. n PROVE v[i] = v[i - 1] + WordLength[text[i]] + 1
  <2>1. v[i - 1] \in Int
    BY <1>2, <1>10 DEF Rounds
  <2>2. v[i] = step[<<i, v[i - 1]>>]
    BY <1>10 DEF Rounds
  <2> QED BY <1>4, <2>1, <2>2
<1>12. v \in [0 .. n -> Int] /\ v[0] = -1 /\ v[n] = loop[DOMAIN text]
  BY <1>2, <1>10 DEF Rounds
<1> QED BY <1>1, <1>11, <1>12 DEF n

(* A text is as long as its first word at least, and has no more words     *)
(* than characters and one.                                                *)
LEMMA LengthGrows ==
  ASSUME NEW text \in Seq(Words)
  PROVE  /\ strlen(text) \in Nat /\ Len(text) <= strlen(text) + 1
         /\ text # <<>> => WordLength[text[1]] <= strlen(text)
         /\ Len(text) = 1 => strlen(text) = WordLength[text[1]]
<1> DEFINE n == Len(text)
<1>1. n \in Nat /\ DOMAIN text = 1 .. n /\ (text = <<>> <=> n = 0)
      /\ \A i \in 1 .. n : WordLength[text[i]] \in Nat
  BY ShellAssumption DEF Words
<1>2. PICK v \in [0 .. n -> Int] :
        /\ v[0] = -1 /\ strlen(text) = v[n] + (IF text = <<>> THEN 1 ELSE 0)
        /\ \A i \in 1 .. n : v[i] = v[i - 1] + WordLength[text[i]] + 1
  BY LengthRounds
<1> HIDE DEF n
<1>3. CASE n = 0
  BY <1>1, <1>2, <1>3 DEF n
<1>4. CASE n # 0
  <2> DEFINE w == WordLength[text[1]]
             I == [i \in 0 .. n |-> IF i = 0 THEN {-1} ELSE {k \in Int : k >= w /\ k >= i - 1}]
  <2>1. w \in Nat
    BY <1>1, <1>4
  <2>2. v[0] \in I[0]
    BY <1>1, <1>2
  <2>3. ASSUME NEW i \in 1 .. n, v[i - 1] \in I[i - 1] PROVE v[i] \in I[i]
    <3>1. /\ i \in 0 .. n /\ i - 1 \in 0 .. n /\ WordLength[text[i]] \in Nat
          /\ v[i] = v[i - 1] + WordLength[text[i]] + 1
      BY <1>1, <1>2
    <3>2. CASE i = 1
      <4>1. v[1] = w
        BY <1>2, <3>1, <3>2, <2>1
      <4> QED BY <1>1, <2>1, <3>1, <3>2, <4>1
    <3>3. CASE i # 1
      <4>1. v[i - 1] \in Int /\ v[i - 1] >= w /\ v[i - 1] >= i - 2
        BY <2>3, <3>1, <3>3
      <4> HIDE DEF w
      <4>2. v[i] \in Int /\ v[i] >= w /\ v[i] >= i - 1
        BY <2>1, <3>1, <4>1
      <4> QED BY <3>1, <3>3, <4>2
    <3> QED BY <3>2, <3>3
  <2>4. v[n] \in I[n]
    <3> HIDE DEF I
    <3> QED BY <1>1, <2>2, <2>3, RoundsKeep
  <2>5. v[n] \in Int /\ v[n] >= w /\ v[n] >= n - 1 /\ strlen(text) = v[n] + 0
    BY <1>1, <1>2, <1>4, <2>4
  <2>6. n = 1 => v[n] = w
    BY <1>1, <1>2, <2>1
  <2> HIDE DEF w, I
  <2>7. strlen(text) \in Nat /\ n <= strlen(text) + 1 /\ w <= strlen(text)
        /\ (n = 1 => strlen(text) = w)
    BY <1>1, <2>1, <2>5, <2>6
  <2> QED BY <2>7 DEF w, n
<1> QED BY <1>3, <1>4

(* The rest of a text after its first word is shorter.                     *)
LEMMA TailShorter ==
  ASSUME NEW text \in Seq(Words), text # <<>>
  PROVE  Tail(text) \in Seq(Words) /\ strlen(Tail(text)) <= strlen(text)
<1> DEFINE n == Len(text)
           rest == Tail(text)
           w == WordLength[text[1]]
<1>1. /\ n \in Nat \ {0} /\ rest \in Seq(Words) /\ Len(rest) = n - 1
      /\ \A i \in 1 .. n - 1 : rest[i] = text[i + 1]
  OBVIOUS
<1>2. \A i \in 1 .. n : WordLength[text[i]] \in Nat
  BY ShellAssumption DEF Words
<1>3. PICK v \in [0 .. n -> Int] :
        /\ v[0] = -1 /\ strlen(text) = v[n] + (IF text = <<>> THEN 1 ELSE 0)
        /\ \A i \in 1 .. n : v[i] = v[i - 1] + WordLength[text[i]] + 1
  BY LengthRounds
<1>4. PICK u \in [0 .. Len(rest) -> Int] :
        /\ u[0] = -1 /\ strlen(rest) = u[Len(rest)] + (IF rest = <<>> THEN 1 ELSE 0)
        /\ \A i \in 1 .. Len(rest) : u[i] = u[i - 1] + WordLength[rest[i]] + 1
  BY <1>1, LengthRounds
<1>5. strlen(text) \in Nat /\ strlen(rest) \in Nat
  BY <1>1, LengthGrows
<1>6. w \in Nat
  BY <1>1, <1>2
<1> HIDE DEF n, rest, w
<1> DEFINE m == n - 1
           x == [i \in 0 .. m |-> v[i + 1] - u[i]]
           I == [i \in 0 .. m |-> {w + 1}]
<1>7. x[0] \in I[0]
  <2>1. v[1] = v[0] + w + 1 /\ 1 \in 0 .. n
    BY <1>1, <1>3 DEF w
  <2>2. v[1] - u[0] = w + 1
    BY <1>3, <1>4, <1>6, <2>1
  <2> QED BY <1>1, <2>2
<1>8. ASSUME NEW i \in 1 .. m, x[i - 1] \in I[i - 1] PROVE x[i] \in I[i]
  <2>1. /\ i - 1 \in 0 .. m /\ i \in 0 .. m /\ i \in 0 .. n /\ i + 1 \in 1 .. n
        /\ (i + 1) - 1 = i /\ (i - 1) + 1 = i /\ i \in 1 .. Len(rest)
    BY <1>1
  <2>2. v[i + 1] = v[i] + WordLength[text[i + 1]] + 1
    BY <1>3, <2>1
  <2>3. u[i] = u[i - 1] + WordLength[text[i + 1]] + 1
    BY <1>1, <1>4, <2>1
  <2>4. v[i] - u[i - 1] = w + 1
    BY <1>8, <2>1
  <2>5. v[i] \in Int /\ u[i - 1] \in Int /\ WordLength[text[i + 1]] \in Int
    <3>1. i - 1 \in 0 .. Len(rest)
      BY <2>1
    <3>2. WordLength[text[i + 1]] \in Nat
      BY <1>2, <2>1 DEF n
    <3>3. v[i] \in Int
      BY <2>1
    <3>4. u[i - 1] \in Int
      BY <3>1
    <3> QED BY <3>2, <3>3, <3>4
  <2>6. v[i + 1] - u[i] = w + 1
    BY <1>6, <2>2, <2>3, <2>4, <2>5
  <2> QED BY <2>1, <2>6
<1>9. m \in Nat
  BY <1>1
<1>10. x[m] \in I[m]
  <2> HIDE DEF x, I, m
  <2> QED BY <1>7, <1>8, <1>9, RoundsKeep
<1>11. v[n] - u[m] = w + 1
  BY <1>1, <1>9, <1>10
<1>12. u[m] \in Int /\ v[n] \in Int
  BY <1>1, <1>3, <1>4
<1>13. strlen(text) = v[n] + 0 /\ strlen(rest) = u[m] + (IF rest = <<>> THEN 1 ELSE 0)
  BY <1>1, <1>3, <1>4
<1> HIDE DEF m
<1>14. u[m] + 1 <= v[n]
  BY <1>6, <1>11, <1>12
<1>15. strlen(rest) <= strlen(text)
  <2>1. CASE rest = <<>>
    BY <1>12, <1>13, <1>14, <2>1
  <2>2. CASE rest # <<>>
    BY <1>12, <1>13, <1>14, <2>2
  <2> QED BY <2>1, <2>2
<1> QED BY <1>1, <1>15 DEF rest

(* The texts that may be stored: none is so long that a request for it     *)
(* wraps.                                                                  *)
Texts == {t \in Seq(Words) : Bounded(4 * strlen(t) + 4)}
Held == Texts \cup {Junk}

(* A request below a bounded one is bounded.                               *)
LEMMA Requests ==
  ASSUME NEW n \in Nat, Bounded(n), NEW m \in Nat, m <= n
  PROVE  Bounded(m)
  BY HeapNumbers DEF Bounded

(* Words, and the empty text.                                              *)
LEMMA ShortTexts ==
  ASSUME LinesFit
  PROVE  /\ <<>> \in Texts /\ strlen(<<>>) = 0 /\ Bounded(4)
         /\ \A w \in Words : /\ <<w>> \in Texts /\ strlen(<<w>>) = WordLength[w]
                              /\ WordLength[w] \in Nat /\ Bounded(WordLength[w] + 1)
<1>1. Junk \in Words /\ \A w \in Words : WordLength[w] \in Nat
  BY ShellAssumption DEF Words
<1>2. Bounded(4)
  <2>1. Bounded(4 * WordLength[Junk] + 4) /\ 4 * WordLength[Junk] + 4 \in Nat
        /\ 4 <= 4 * WordLength[Junk] + 4
    BY <1>1 DEF LinesFit, Words
  <2> QED BY <2>1, Requests
<1>3. <<>> \in Texts /\ strlen(<<>>) = 0
  <2>1. <<>> \in Seq(Words) /\ Len(<<>>) = 0
    OBVIOUS
  <2>2. PICK v \in [0 .. 0 -> Int] :
          v[0] = -1 /\ strlen(<<>>) = v[0] + (IF <<>> = <<>> THEN 1 ELSE 0)
    BY <2>1, LengthRounds
  <2>3. strlen(<<>>) = 0
    BY <2>2
  <2> QED BY <1>2, <2>1, <2>3 DEF Texts
<1>4. ASSUME NEW w \in Words
      PROVE  /\ <<w>> \in Texts /\ strlen(<<w>>) = WordLength[w]
             /\ WordLength[w] \in Nat /\ Bounded(WordLength[w] + 1)
  <2>1. <<w>> \in Seq(Words) /\ Len(<<w>>) = 1 /\ <<w>>[1] = w
    OBVIOUS
  <2>2. strlen(<<w>>) = WordLength[w]
    BY <2>1, LengthGrows
  <2>3. WordLength[w] \in Nat /\ Bounded(4 * WordLength[w] + 4)
    BY <1>1 DEF LinesFit, Words
  <2>4. WordLength[w] + 1 \in Nat /\ WordLength[w] + 1 <= 4 * WordLength[w] + 4
        /\ 4 * WordLength[w] + 4 \in Nat
    BY <2>3
  <2>5. Bounded(WordLength[w] + 1)
    BY <2>3, <2>4, Requests
  <2> QED BY <2>1, <2>2, <2>3, <2>5 DEF Texts
<1> QED BY <1>2, <1>3, <1>4

(* What the commands ask for when they store a text.                       *)
LEMMA TextRequests ==
  ASSUME LinesFit, NEW t \in Texts
  PROVE  /\ strlen(t) \in Nat /\ Bounded(strlen(t) + 1) /\ Bounded(strlen(t) + 2)
         /\ \A k \in Nat : k <= Len(t) => Bounded(4 * k)
         /\ first(t) \in Texts /\ strlen(first(t)) <= strlen(t)
         /\ t # <<>> => Head(t) \in Words
<1>1. t \in Seq(Words) /\ Bounded(4 * strlen(t) + 4)
  BY DEF Texts
<1>2. /\ strlen(t) \in Nat /\ Len(t) <= strlen(t) + 1 /\ Len(t) \in Nat
      /\ t # <<>> => WordLength[t[1]] <= strlen(t)
  BY <1>1, LengthGrows
<1> DEFINE n == strlen(t)
<1> HIDE DEF n
<1>3. n \in Nat /\ Len(t) <= n + 1 /\ Len(t) \in Nat /\ Bounded(4 * n + 4)
  BY <1>1, <1>2 DEF n
<1>4. \A m \in Nat : m <= 4 * n + 4 => Bounded(m)
  <2>1. 4 * n + 4 \in Nat
    BY <1>3
  <2> QED BY <1>3, <2>1, Requests
<1>5. Bounded(n + 1) /\ Bounded(n + 2)
  BY <1>3, <1>4
<1>6. \A k \in Nat : k <= Len(t) => Bounded(4 * k)
  BY <1>3, <1>4
<1>7. first(t) \in Texts /\ strlen(first(t)) <= n /\ (t # <<>> => Head(t) \in Words)
  <2>1. CASE t = <<>>
    BY <1>3, <2>1, ShortTexts DEF first
  <2>2. CASE t # <<>>
    <3>1. Head(t) = t[1] /\ t[1] \in Words
      BY <1>1, <2>2
    <3>2. first(t) = <<t[1]>>
      BY <2>2, <3>1 DEF first
    <3> QED BY <1>2, <2>2, <3>1, <3>2, ShortTexts DEF n
  <2> QED BY <2>1, <2>2
<1> QED BY <1>2, <1>5, <1>6, <1>7 DEF n

(* Lines and their arguments are such texts.                               *)
LEMMA LineTexts ==
  ASSUME LinesFit, NEW line \in Lines
  PROVE  /\ line \in Texts /\ line \in Seq(Words)
         /\ spaced(line) => Tail(line) \in Texts
         /\ strlen(line) + 1 <= LINE_CLI_SIZE /\ Bounded(LINE_CLI_SIZE)
<1>1. line \in Seq(Words) /\ LINE_CLI_SIZE \in Nat
  BY ShellAssumption DEF Words
<1>2. strlen(line) \in Nat
  BY <1>1, LengthGrows
<1>3. strlen(line) < LINE_CLI_SIZE /\ Bounded(4 * LINE_CLI_SIZE)
  BY DEF LinesFit
<1>4. \A m \in Nat : m <= 4 * LINE_CLI_SIZE => Bounded(m)
  <2>1. 4 * LINE_CLI_SIZE \in Nat
    BY <1>1
  <2> QED BY <1>3, <2>1, Requests
<1>5. ASSUME NEW t \in Seq(Words), strlen(t) <= strlen(line) PROVE t \in Texts
  <2>1. strlen(t) \in Nat
    BY LengthGrows
  <2>2. 4 * strlen(t) + 4 \in Nat /\ 4 * strlen(t) + 4 <= 4 * LINE_CLI_SIZE
    BY <1>1, <1>2, <1>3, <1>5, <2>1
  <2> QED BY <1>4, <2>2 DEF Texts
<1>6. line \in Texts
  BY <1>1, <1>2, <1>5
<1>7. spaced(line) => Tail(line) \in Texts
  <2>1. spaced(line) => line # <<>>
    BY <1>1 DEF spaced
  <2>2. line # <<>> => Tail(line) \in Seq(Words) /\ strlen(Tail(line)) <= strlen(line)
    BY <1>1, TailShorter
  <2> QED BY <1>5, <2>1, <2>2
<1>8. Bounded(LINE_CLI_SIZE) /\ strlen(line) + 1 <= LINE_CLI_SIZE
  BY <1>1, <1>2, <1>3, <1>4
<1> QED BY <1>1, <1>6, <1>7, <1>8

-----------------------------------------------------------------------------
(* What a command works on is in order: no text has overflowed its block,  *)
(* and the data are those of the blocks.                                   *)
WorkSet ==
  [heap : SUBSET Block, data : UNION {[D -> Held] : D \in SUBSET Nat}, at : Nat,
   phase : {"up", "aborted", "corrupt", "chip8"}, blocks : Seq(Nat),
   text : Texts, argv : Texts, dropped : SUBSET Nat]

Sound(s) ==
  /\ s \in WorkSet /\ Known(s.heap) /\ s.data \in [Mine(s.heap) -> Held]
  /\ leaked \cup s.dropped \subseteq Mine(s.heap)

(* The rest of it is as before.                                            *)
Same(s, r) ==
  r.blocks = s.blocks /\ r.text = s.text /\ r.argv = s.argv /\ r.dropped = s.dropped

(* Only the heap and the data change, to sound ones.                       *)
Reheaped(s, h, d, at) == [s EXCEPT !.heap = h, !.data = d, !.at = at]

(* ... and the command stays sound.                                        *)
LEMMA SoundHeap ==
  ASSUME NEW s, Sound(s), NEW h, Known(h), Mine(s.heap) \subseteq Mine(h),
         NEW d \in [Mine(h) -> Held], NEW at \in Nat,
         NEW r, r = Reheaped(s, h, d, at)
  PROVE  /\ Sound(r) /\ Same(s, r) /\ r.heap = h /\ r.data = d /\ r.at = at
         /\ r.phase = s.phase
<1>1. s \in WorkSet /\ leaked \cup s.dropped \subseteq Mine(s.heap)
  BY DEF Sound
<1>2. Same(s, r) /\ r.heap = h /\ r.data = d /\ r.at = at /\ r.phase = s.phase
  BY <1>1 DEF WorkSet, Same, Reheaped
<1>3. h \in SUBSET Block /\ Mine(h) \in SUBSET Nat
  BY DEF Known, Mine, Block
<1>4. d \in UNION {[D -> Held] : D \in SUBSET Nat}
  BY <1>3
<1>5. r \in WorkSet
  <2> DEFINE any == UNION {[D -> Held] : D \in SUBSET Nat}
  <2>1. WorkSet = [heap : SUBSET Block, data : any, at : Nat,
                   phase : {"up", "aborted", "corrupt", "chip8"}, blocks : Seq(Nat),
                   text : Texts, argv : Texts, dropped : SUBSET Nat]
    BY DEF WorkSet
  <2>2. d \in any
    BY <1>4
  <2> HIDE DEF any
  <2> QED BY <1>1, <1>3, <2>1, <2>2 DEF Reheaped
<1>6. Sound(r)
  BY <1>1, <1>2, <1>5 DEF Sound, Same
<1> QED BY <1>2, <1>6

(* Only the phase changes.                                                 *)
LEMMA SoundPhase ==
  ASSUME NEW s, Sound(s), NEW p \in {"up", "aborted", "corrupt", "chip8"},
         NEW r, r = [s EXCEPT !.phase = p]
  PROVE  /\ Sound(r) /\ Same(s, r) /\ r.heap = s.heap /\ r.data = s.data
         /\ r.at = s.at /\ r.phase = p
<1>1. s \in WorkSet
  BY DEF Sound
<1>2. /\ Same(s, r) /\ r.heap = s.heap /\ r.data = s.data /\ r.at = s.at /\ r.phase = p
      /\ r \in WorkSet
  BY <1>1 DEF WorkSet, Same
<1>3. Sound(r)
  BY <1>2 DEF Sound, Same
<1> QED BY <1>2, <1>3

(* r is s with a block more, which was not in use; or it aborted.          *)
Taken(s, r) ==
  /\ Sound(r) /\ Same(s, r)
  /\ r.phase = "up" =>
       /\ s.phase = "up"
       /\ r.at \in Mine(r.heap) \ InUse(s.heap)
       /\ Mine(r.heap) = Mine(s.heap) \cup {r.at}
       /\ InUse(r.heap) = InUse(s.heap) \cup {r.at}
       /\ \A p \in Mine(s.heap) \ {r.at} : r.data[p] = s.data[p]

(* kmalloc.  The block has room for four bytes more than asked for, and    *)
(* holds what it held before.                                              *)
LEMMA KmallocGives ==
  ASSUME NEW s, Sound(s), NEW req \in Nat, Bounded(req), NEW r, r = kmalloc(s, req)
  PROVE  /\ Taken(s, r)
         /\ r.phase = "up" =>
              /\ room(r) \in Nat /\ room(r) >= req + 4
              /\ \/ r.data[r.at] = Junk
                 \/ r.at \in Mine(s.heap) /\ r.data[r.at] = s.data[r.at]
<1>1. CASE s.phase # "up"
  <2>1. r = s
    BY <1>1 DEF kmalloc
  <2> QED BY <1>1, <2>1 DEF Taken, Same
<1>2. CASE s.phase = "up"
  <2> DEFINE a == aligned_alloc(s.heap, MIN_ALIGN, req)
             d == including(s.data, a.block)
  <2>1. r = obtained(s, a)
    BY <1>2 DEF kmalloc
  <2>2. CASE a.block = 0
    <3>1. r = [s EXCEPT !.phase = "aborted"]
      BY <2>1, <2>2 DEF obtained
    <3>2. Sound(r) /\ Same(s, r) /\ r.phase = "aborted"
      BY <3>1, SoundPhase
    <3> QED BY <3>2 DEF Taken
  <2>3. CASE a.block # 0
    <3>1. r = Reheaped(s, a.heap, d, a.block)
      BY <2>1, <2>3 DEF obtained, Reheaped
    <3>2. Known(s.heap) /\ s.data \in [Mine(s.heap) -> Held] /\ s \in WorkSet
      BY DEF Sound
    <3>3. /\ Known(a.heap) /\ a.block \in Nat
          /\ \E n \in a.heap : n.addr = a.block /\ n.size >= req /\ n.size \in Nat
          /\ a.block \notin InUse(s.heap) /\ a.block \in Mine(a.heap)
          /\ Mine(a.heap) = Mine(s.heap) \cup {a.block}
          /\ InUse(a.heap) = InUse(s.heap) \cup {a.block}
      BY <2>3, <3>2, AllocGives
    <3> HIDE DEF a
    <3>4. /\ DOMAIN d = Mine(s.heap) \cup {a.block}
          /\ \A p \in Mine(s.heap) : d[p] = s.data[p]
          /\ a.block \notin Mine(s.heap) => d[a.block] = Junk
          /\ d = [p \in DOMAIN d |-> d[p]]
      BY <3>2 DEF including
    <3>5. d \in [Mine(a.heap) -> Held]
      <4> HIDE DEF d
      <4>1. \A p \in Mine(a.heap) : d[p] \in Held
        BY <3>2, <3>3, <3>4 DEF Held
      <4> QED BY <3>3, <3>4, <4>1
    <3> HIDE DEF d
    <3>6. /\ Sound(r) /\ Same(s, r) /\ r.heap = a.heap /\ r.data = d /\ r.at = a.block
          /\ r.phase = s.phase
      <4>1. Mine(s.heap) \subseteq Mine(a.heap)
        BY <3>3
      <4> QED BY <3>1, <3>3, <3>5, <4>1, SoundHeap
    <3>7. room(r) \in Nat /\ room(r) >= req + 4
      <4>1. PICK n \in a.heap : n.addr = a.block /\ n.size >= req /\ n.size \in Nat
        BY <3>3
      <4>2. mem_get_block(r.heap, r.at) = n
        BY <3>3, <3>6, <4>1, FindBlock
      <4>3. room(r) = n.size + SIZEOF - header_size
        BY <4>2 DEF room
      <4> QED BY <4>1, <4>3, HeapNumbers
    <3>8. Taken(s, r)
      BY <1>2, <3>3, <3>4, <3>6 DEF Taken
    <3> QED BY <3>3, <3>4, <3>6, <3>7, <3>8
  <2> QED BY <2>2, <2>3
<1> QED BY <1>1, <1>2

(* A text stored in a new block.  It may ask for three bytes less than it  *)
(* writes with its terminator, and not for more.                           *)
LEMMA StoreGives ==
  ASSUME NEW s, Sound(s), NEW req \in Nat, Bounded(req), NEW text \in Held,
         NEW bytes \in Int, bytes <= req + 4, NEW r, r = store(s, text, req, bytes)
  PROVE  Taken(s, r) /\ (r.phase = "up" => r.data[r.at] = text)
<1> DEFINE k == kmalloc(s, req)
           d == [k.data EXCEPT ![k.at] = text]
<1>1. r = write(k, text, bytes)
  BY DEF store
<1>2. Taken(s, k) /\ (k.phase = "up" => room(k) \in Nat /\ room(k) >= req + 4)
  BY KmallocGives
<1> HIDE DEF k
<1>3. CASE k.phase # "up"
  <2>1. r = k
    BY <1>1, <1>3 DEF write
  <2> QED BY <1>2, <1>3, <2>1
<1>4. CASE k.phase = "up"
  <2>1. ~ (bytes > room(k))
    BY <1>2, <1>4
  <2>2. r = [k EXCEPT !.data = d]
    BY <1>1, <1>4, <2>1 DEF write
  <2>3. /\ Sound(k) /\ k \in WorkSet /\ Known(k.heap) /\ k.data \in [Mine(k.heap) -> Held]
        /\ k.at \in Mine(k.heap) /\ k.at \in Nat
    BY <1>2, <1>4 DEF Taken, Sound, WorkSet
  <2>4. d \in [Mine(k.heap) -> Held] /\ d[k.at] = text
        /\ \A p \in Mine(k.heap) \ {k.at} : d[p] = k.data[p]
    BY <2>3
  <2> HIDE DEF d
  <2>5. r = Reheaped(k, k.heap, d, k.at)
    BY <2>2, <2>3 DEF WorkSet, Reheaped
  <2>6. /\ Sound(r) /\ Same(k, r) /\ r.heap = k.heap /\ r.data = d /\ r.at = k.at
        /\ r.phase = k.phase
    <3>1. Mine(k.heap) \subseteq Mine(k.heap)
      OBVIOUS
    <3> QED BY <2>3, <2>4, <2>5, <3>1, SoundHeap
  <2> QED BY <1>2, <1>4, <2>3, <2>4, <2>6 DEF Taken, Same
<1> QED BY <1>3, <1>4

(* kfree.                                                                  *)
LEMMA ReleaseGives ==
  ASSUME NEW s, Sound(s), NEW p, s.phase = "up" => p \in Mine(s.heap),
         NEW r, r = release(s, p)
  PROVE  /\ Sound(r) /\ Same(s, r) /\ r.at = s.at /\ r.phase = s.phase /\ r.data = s.data
         /\ Mine(r.heap) = Mine(s.heap)
         /\ s.phase = "up" => InUse(r.heap) = InUse(s.heap) \ {p}
<1>1. CASE s.phase # "up"
  BY <1>1 DEF release, Same
<1>2. CASE s.phase = "up"
  <2> DEFINE h == kfree(s.heap, p)
  <2>1. r = [s EXCEPT !.heap = h]
    BY <1>2 DEF release
  <2>2. s \in WorkSet /\ Known(s.heap) /\ s.data \in [Mine(s.heap) -> Held] /\ s.at \in Nat
    BY DEF Sound, WorkSet
  <2>3. Known(h) /\ Mine(h) = Mine(s.heap) /\ InUse(h) = InUse(s.heap) \ {p}
    BY <1>2, <2>2, FreeGives
  <2> HIDE DEF h
  <2>4. r = Reheaped(s, h, s.data, s.at)
    BY <2>1, <2>2 DEF WorkSet, Reheaped
  <2>5. Mine(s.heap) \subseteq Mine(h) /\ s.data \in [Mine(h) -> Held]
    BY <2>2, <2>3
  <2>6. /\ Sound(r) /\ Same(s, r) /\ r.heap = h /\ r.data = s.data /\ r.at = s.at
        /\ r.phase = s.phase
    BY <2>2, <2>3, <2>4, <2>5, SoundHeap
  <2> QED BY <2>3, <2>6
<1> QED BY <1>1, <1>2

(* r is s with one block more in use, which was not.                       *)
Grown(s, r) ==
  /\ Sound(r) /\ Same(s, r)
  /\ r.phase = "up" =>
       /\ s.phase = "up" /\ r.at \in Mine(r.heap) \ InUse(s.heap)
       /\ InUse(r.heap) = InUse(s.heap) \cup {r.at}

(* A block that was taken is one block more in use.                        *)
LEMMA TakenGrown ==
  ASSUME NEW s, NEW r, Taken(s, r)
  PROVE  Grown(s, r)
  BY DEF Taken, Grown

(* A krealloc puts the new block in place of the old one.                  *)
LEMMA KreallocKeeps ==
  ASSUME NEW s, Sound(s), NEW k, Grown(s, k), NEW req \in Nat, Bounded(req),
         NEW r, r = krealloc(k, req)
  PROVE  Grown(s, r)
<1> DEFINE m == kmalloc(k, req)
           q == release(m, k.at)
           d == [q.data EXCEPT ![m.at] = Junk]
<1>1. r = moved(k, m)
  BY DEF krealloc
<1>2. Sound(k) /\ Same(s, k)
  BY DEF Grown
<1>3. Taken(k, m) /\ Sound(m) /\ Same(s, m)
  <2>1. Taken(k, m)
    BY <1>2, KmallocGives
  <2> HIDE DEF m
  <2>2. Sound(m) /\ Same(k, m)
    BY <2>1 DEF Taken
  <2> QED BY <1>2, <2>1, <2>2 DEF Same
<1> HIDE DEF m
<1>4. CASE m.phase # "up"
  <2>1. r = m
    BY <1>1, <1>4 DEF moved
  <2> QED BY <1>3, <1>4, <2>1 DEF Grown
<1>5. CASE m.phase = "up" /\ r = [m EXCEPT !.phase = "corrupt"]
  <2>1. Sound(r) /\ Same(m, r) /\ r.phase = "corrupt"
    BY <1>3, <1>5, SoundPhase
  <2> QED BY <1>3, <2>1 DEF Grown, Same
<1>6. CASE m.phase = "up" /\ r = [q EXCEPT !.data = d]
  <2>1. /\ k.phase = "up" /\ s.phase = "up" /\ k.at \in Mine(k.heap) \ InUse(s.heap)
        /\ InUse(k.heap) = InUse(s.heap) \cup {k.at}
        /\ m.at \in Mine(m.heap) \ InUse(k.heap)
        /\ Mine(m.heap) = Mine(k.heap) \cup {m.at}
        /\ InUse(m.heap) = InUse(k.heap) \cup {m.at}
    BY <1>3, <1>6 DEF Taken, Grown
  <2>2. /\ Sound(q) /\ Same(m, q) /\ q.at = m.at /\ q.phase = "up" /\ q.data = m.data
        /\ Mine(q.heap) = Mine(m.heap) /\ InUse(q.heap) = InUse(m.heap) \ {k.at}
    BY <1>3, <1>6, <2>1, ReleaseGives
  <2> HIDE DEF q
  <2>3. q \in WorkSet /\ Known(q.heap) /\ q.data \in [Mine(q.heap) -> Held] /\ q.at \in Nat
    BY <2>2 DEF Sound, WorkSet
  <2>4. d \in [Mine(q.heap) -> Held] /\ Mine(q.heap) \subseteq Mine(q.heap)
    BY <2>3 DEF Held
  <2> HIDE DEF d
  <2>5. r = Reheaped(q, q.heap, d, q.at)
    BY <1>6, <2>3 DEF WorkSet, Reheaped
  <2>6. /\ Sound(r) /\ Same(q, r) /\ r.heap = q.heap /\ r.at = q.at /\ r.phase = q.phase
    BY <2>2, <2>3, <2>4, <2>5, SoundHeap
  <2>7. Same(s, r)
    BY <1>3, <2>2, <2>6 DEF Same
  <2>8. r.at \in Mine(r.heap) \ InUse(s.heap) /\ InUse(r.heap) = InUse(s.heap) \cup {r.at}
    BY <2>1, <2>2, <2>6
  <2> QED BY <2>1, <2>6, <2>7, <2>8 DEF Grown
<1> QED BY <1>1, <1>4, <1>5, <1>6 DEF moved

(* The loop that builds argv: after every round one block more than before *)
(* it is in use.                                                           *)
LEMMA VectorGives ==
  ASSUME NEW s, Sound(s), NEW n \in Nat, Bounded(4), \A i \in 1 .. n : Bounded(4 * (i + 1)),
         NEW f, f = [i \in 1 .. n |-> 4 * (i + 1)],
         NEW r, r = FoldLeft(krealloc, calloc(s), f)
  PROVE  Grown(s, r)
<1> DEFINE base == calloc(s)
           M == {k \in WorkSet : Grown(s, k)}
           val(g, q) == IF q = {} THEN base ELSE krealloc(g[q \ {Max(q)}], f[Max(q)])
           IsLoop(g) == g = [q \in SUBSET (DOMAIN f) |-> val(g, q)]
           loop == CHOOSE g : IsLoop(g)
           step == [p \in (1 .. n) \X M |-> krealloc(p[2], f[p[1]])]
<1>1. r = loop[DOMAIN f]
  BY DEF FoldLeft, MapThenFoldSet
<1>2. DOMAIN f = 1 .. n /\ \A i \in 1 .. n : f[i] \in Nat /\ Bounded(f[i])
  OBVIOUS
<1>3. base \in M
  <2>1. base = store(s, Junk, 4, 4)
    BY DEF calloc
  <2>2. Junk \in Held
    BY DEF Held
  <2> HIDE DEF base
  <2>3. Taken(s, base)
    BY <2>1, <2>2, StoreGives
  <2>4. Grown(s, base)
    BY <2>3, TakenGrown
  <2> QED BY <2>4 DEF Grown, Sound
<1> HIDE DEF base
<1>4. step \in [(1 .. n) \X M -> M]
  <2> SUFFICES ASSUME NEW i \in 1 .. n, NEW k \in M PROVE krealloc(k, f[i]) \in M
    BY Zenon
  <2>1. Grown(s, krealloc(k, f[i]))
    BY <1>2, KreallocKeeps
  <2> QED BY <2>1 DEF Grown, Sound
<1>5. \A i \in 1 .. n : \A k \in M : step[<<i, k>>] = krealloc(k, f[i])
  OBVIOUS
<1> HIDE DEF step, M
<1>6. ASSUME NEW q \in SUBSET (1 .. n), NEW g, q # {}, g[q \ {Max(q)}] \in M
      PROVE  val(g, q) = step[<<Max(q), g[q \ {Max(q)}]>>]
  <2>1. Max(q) \in 1 .. n
    BY <1>6, PrefixSets
  <2> QED BY <1>5, <1>6, <2>1
<1>7. \A g : val(g, {}) = base
  OBVIOUS
<1> HIDE DEF val
<1>8. \E g : IsLoop(g)
  <2>1. PICK g \in [SUBSET (1 .. n) -> M] : Loops(g, n, M, base, step)
    BY <1>3, <1>4, LoopExists
  <2>2. \A q \in SUBSET (1 .. n) : g[q] = val(g, q)
    BY <1>6, <1>7, <2>1 DEF Loops
  <2>3. g = [q \in SUBSET (1 .. n) |-> g[q]]
    OBVIOUS
  <2>4. IsLoop(g)
    BY <1>2, <2>2, <2>3
  <2> HIDE DEF IsLoop
  <2> QED BY <2>4
<1>9. IsLoop(loop)
  BY <1>8
<1> HIDE DEF loop
<1>10. Loops(loop, n, M, base, step)
  <2>1. \A q \in SUBSET (1 .. n) : loop[q] = val(loop, q)
    BY <1>2, <1>9
  <2> QED BY <1>6, <1>7, <2>1 DEF Loops
<1>11. PICK x : Rounds(x, n, M, base, step, loop[1 .. n])
  BY <1>3, <1>4, <1>10, LoopRounds
<1>12. r \in M
  BY <1>1, <1>2, <1>11 DEF Rounds
<1> QED BY <1>12 DEF M

-----------------------------------------------------------------------------
(* Between two parts of a command the blocks in use are the dropped ones   *)
(* and those the command will release, and these are different.            *)
Going(s) ==
  /\ Sound(s)
  /\ s.phase = "up" =>
       /\ InUse(s.heap) = (leaked \cup s.dropped) \cup Range(s.blocks)
       /\ (leaked \cup s.dropped) \cap Range(s.blocks) = {}

Ready(s) == Going(s) /\ s.dropped = {}

(* The blocks not in use are as they were before the line.                 *)
Untouched(s) ==
  s.phase = "up" => \A p \in Mine(s.heap) \ InUse(s.heap) :
                      p \in DOMAIN data \ leaked /\ s.data[p] = data[p]

(* Everything but the blocks to release is as before.                      *)
Alike(s, r) ==
  /\ r.heap = s.heap /\ r.data = s.data /\ r.at = s.at /\ r.phase = s.phase
  /\ r.text = s.text /\ r.argv = s.argv /\ r.dropped = s.dropped

(* hold changes nothing but the blocks to release.                         *)
LEMMA HoldGives ==
  ASSUME NEW s, Sound(s), NEW r, r = hold(s)
  PROVE  Sound(r) /\ Alike(s, r) /\ Range(r.blocks) = Range(s.blocks) \cup {s.at}
<1>1. s \in WorkSet /\ s.blocks \in Seq(Nat) /\ s.at \in Nat
  BY DEF Sound, WorkSet
<1>2. Append(s.blocks, s.at) \in Seq(Nat)
  BY <1>1
<1>3. Alike(s, r) /\ r.blocks = Append(s.blocks, s.at) /\ r \in WorkSet
  BY <1>1, <1>2 DEF hold, Alike, WorkSet
<1>4. Sound(r)
  BY <1>3 DEF Sound, Alike
<1>5. Range(Append(s.blocks, s.at)) = Range(s.blocks) \cup {s.at}
  <2> DEFINE q == s.blocks
             n == Len(q)
             t == Append(q, s.at)
  <2>1. /\ n \in Nat /\ DOMAIN q = 1 .. n /\ DOMAIN t = 1 .. n + 1
        /\ \A i \in 1 .. n : t[i] = q[i]
        /\ t[n + 1] = s.at
    BY <1>1
  <2> HIDE DEF q, n, t
  <2>2. Range(t) = Range(q) \cup {s.at}
    <3>1. ASSUME NEW i \in 1 .. n + 1 PROVE t[i] \in Range(q) \cup {s.at}
      BY <2>1 DEF Range
    <3>2. ASSUME NEW i \in 1 .. n PROVE q[i] \in Range(t)
      <4>1. i \in 1 .. n + 1 /\ q[i] = t[i]
        BY <2>1
      <4> QED BY <2>1, <4>1 DEF Range
    <3>3. s.at \in Range(t)
      <4>1. n + 1 \in 1 .. n + 1
        BY <2>1
      <4> QED BY <2>1, <4>1 DEF Range
    <3> QED BY <2>1, <3>1, <3>2, <3>3 DEF Range
  <2> QED BY <2>2 DEF q, t
<1> QED BY <1>3, <1>4, <1>5

(* A new block is added to those to release.                               *)
LEMMA HoldNew ==
  ASSUME NEW s, Ready(s), NEW k, Grown(s, k), NEW r, r = hold(k)
  PROVE  Ready(r) /\ Alike(k, r) /\ (r.phase = "up" => s.phase = "up" /\ r.at \in Range(r.blocks))
<1>1. /\ Sound(k) /\ Same(s, k)
      /\ k.phase = "up" => /\ s.phase = "up" /\ k.at \in Mine(k.heap) \ InUse(s.heap)
                           /\ InUse(k.heap) = InUse(s.heap) \cup {k.at}
  BY DEF Grown
<1>2. Sound(r) /\ Alike(k, r) /\ Range(r.blocks) = Range(k.blocks) \cup {k.at}
  BY <1>1, HoldGives
<1>3. k.blocks = s.blocks /\ k.dropped = {} /\ s.dropped = {}
  BY <1>1 DEF Same, Ready
<1>4. s.phase = "up" => /\ InUse(s.heap) = leaked \cup Range(s.blocks)
                        /\ leaked \cap Range(s.blocks) = {}
  BY <1>3 DEF Ready, Going
<1>5. r.heap = k.heap /\ r.at = k.at /\ r.phase = k.phase /\ r.dropped = {}
  BY <1>2, <1>3 DEF Alike
<1>6. r.phase = "up" => /\ InUse(r.heap) = leaked \cup Range(r.blocks)
                        /\ leaked \cap Range(r.blocks) = {}
  BY <1>1, <1>2, <1>3, <1>4, <1>5
<1>7. Ready(r)
  BY <1>2, <1>5, <1>6 DEF Ready, Going
<1> QED BY <1>1, <1>2, <1>5, <1>7

(* A block is put down a second time for the release.                      *)
LEMMA HoldAgain ==
  ASSUME NEW s, Ready(s), s.phase = "up" => s.at \in Range(s.blocks), NEW r, r = hold(s)
  PROVE  Ready(r) /\ Alike(s, r)
<1>1. Sound(r) /\ Alike(s, r) /\ Range(r.blocks) = Range(s.blocks) \cup {s.at}
  BY HoldGives DEF Ready, Going
<1>2. r.heap = s.heap /\ r.phase = s.phase /\ r.dropped = {} /\ s.dropped = {}
  BY <1>1 DEF Alike, Ready
<1>3. s.phase = "up" => /\ InUse(s.heap) = leaked \cup Range(s.blocks)
                        /\ leaked \cap Range(s.blocks) = {}
  BY <1>2 DEF Ready, Going
<1>4. r.phase = "up" => /\ InUse(r.heap) = leaked \cup Range(r.blocks)
                        /\ leaked \cap Range(r.blocks) = {}
  BY <1>1, <1>2, <1>3
<1> QED BY <1>1, <1>2, <1>4 DEF Ready, Going

(* Taking a block leaves those not in use alone.                           *)
LEMMA TakenUntouched ==
  ASSUME NEW s, Untouched(s), NEW k, Taken(s, k), NEW r, Alike(k, r)
  PROVE  Untouched(r)
<1>1. r.heap = k.heap /\ r.data = k.data /\ r.phase = k.phase
  BY DEF Alike
<1>2. SUFFICES ASSUME k.phase = "up", NEW p \in Mine(k.heap) \ InUse(k.heap)
               PROVE  p \in DOMAIN data \ leaked /\ k.data[p] = data[p]
  BY <1>1 DEF Untouched
<1>3. /\ s.phase = "up" /\ Mine(k.heap) = Mine(s.heap) \cup {k.at}
      /\ InUse(k.heap) = InUse(s.heap) \cup {k.at}
      /\ \A q \in Mine(s.heap) \ {k.at} : k.data[q] = s.data[q]
  BY <1>2 DEF Taken
<1>4. p \in Mine(s.heap) \ InUse(s.heap) /\ p # k.at
  BY <1>2, <1>3
<1> QED BY <1>3, <1>4 DEF Untouched

-----------------------------------------------------------------------------
(* The inductive invariant of the commands.                                *)
ShellInv ==
  /\ Known(heap) /\ data \in [Mine(heap) -> Held] /\ leaked \subseteq Mine(heap)
  /\ phase \in {"up", "aborted", "corrupt", "chip8"}
  /\ phase = "up" => InUse(heap) = leaked

(* A command begins with no block of its own.                              *)
LEMMA WorkReady ==
  ASSUME LinesFit, ShellInv, phase = "up"
  PROVE  Ready(Work) /\ Untouched(Work)
<1> DEFINE s == Work
<1>1. /\ s.heap = heap /\ s.data = data /\ s.at = 0 /\ s.phase = "up" /\ s.blocks = <<>>
      /\ s.dropped = {}
  BY DEF Work
<1>2. s \in WorkSet
  <2> DEFINE any == UNION {[D -> Held] : D \in SUBSET Nat}
  <2>1. WorkSet = [heap : SUBSET Block, data : any, at : Nat,
                   phase : {"up", "aborted", "corrupt", "chip8"}, blocks : Seq(Nat),
                   text : Texts, argv : Texts, dropped : SUBSET Nat]
    BY DEF WorkSet
  <2>2. heap \in SUBSET Block /\ Mine(heap) \in SUBSET Nat
    BY DEF ShellInv, Known, Mine, Block
  <2>3. data \in any
    BY <2>2 DEF ShellInv
  <2>4. <<>> \in Texts /\ <<>> \in Seq(Nat)
    BY ShortTexts
  <2> HIDE DEF any
  <2> QED BY <2>1, <2>2, <2>3, <2>4 DEF Work
<1> HIDE DEF s
<1>3. Range(s.blocks) = {}
  BY <1>1 DEF Range
<1>4. Sound(s)
  BY <1>1, <1>2 DEF Sound, ShellInv
<1>5. Ready(s)
  BY <1>1, <1>3, <1>4 DEF Ready, Going, ShellInv
<1>6. Untouched(s)
  <2>1. DOMAIN data = Mine(heap) /\ InUse(heap) = leaked
    BY DEF ShellInv
  <2> QED BY <1>1, <2>1 DEF Untouched
<1> QED BY <1>5, <1>6 DEF s

(* The copy of the line.                                                   *)
LEMMA CopyLineGives ==
  ASSUME LinesFit, ShellInv, phase = "up", NEW line \in Lines, NEW r, r = copyLine(Work, line)
  PROVE  /\ Ready(r) /\ Untouched(r)
         /\ r.phase = "up" => r.at \in Range(r.blocks)
<1> DEFINE k == store(Work, first(line), LINE_CLI_SIZE, strlen(line) + 1)
<1>1. Ready(Work) /\ Untouched(Work) /\ Sound(Work)
  BY WorkReady DEF Ready, Going
<1>2. /\ first(line) \in Held /\ LINE_CLI_SIZE \in Nat /\ Bounded(LINE_CLI_SIZE)
      /\ strlen(line) + 1 \in Int /\ strlen(line) + 1 <= LINE_CLI_SIZE + 4
  <2>1. /\ line \in Texts /\ strlen(line) + 1 <= LINE_CLI_SIZE /\ Bounded(LINE_CLI_SIZE)
    BY LineTexts
  <2>2. first(line) \in Texts /\ strlen(line) \in Nat /\ LINE_CLI_SIZE \in Nat
    BY <2>1, TextRequests, ShellAssumption
  <2> QED BY <2>1, <2>2 DEF Held
<1>3. Taken(Work, k)
  BY <1>1, <1>2, StoreGives
<1>4. r = hold(k)
  BY DEF copyLine
<1> HIDE DEF k
<1>5. Grown(Work, k)
  BY <1>3, TakenGrown
<1>6. Ready(r) /\ Alike(k, r) /\ (r.phase = "up" => r.at \in Range(r.blocks))
  BY <1>1, <1>4, <1>5, HoldNew
<1>7. Untouched(r)
  BY <1>1, <1>3, <1>6, TakenUntouched
<1> QED BY <1>6, <1>7

(* The command, in the copy or in a block of its own.                      *)
LEMMA TakeCommandGives ==
  ASSUME LinesFit, NEW line \in Lines, NEW s, Ready(s), Untouched(s),
         s.phase = "up" => s.at \in Range(s.blocks), NEW r, r = takeCommand(s, line)
  PROVE  Ready(r) /\ Untouched(r)
<1>1. CASE spaced(line)
  <2>1. r = hold(s)
    BY <1>1 DEF takeCommand
  <2>2. Ready(r) /\ Alike(s, r)
    BY <2>1, HoldAgain
  <2> QED BY <2>2 DEF Untouched, Alike
<1>2. CASE ~spaced(line)
  <2> DEFINE k == store(s, first(line), strlen(line), strlen(line) + 1)
  <2>1. /\ first(line) \in Held /\ strlen(line) \in Nat /\ Bounded(strlen(line))
        /\ strlen(line) + 1 \in Int /\ strlen(line) + 1 <= strlen(line) + 4
    <3>1. line \in Texts
      BY LineTexts
    <3>2. first(line) \in Texts /\ strlen(line) \in Nat /\ Bounded(strlen(line) + 1)
      BY <3>1, TextRequests
    <3>3. Bounded(strlen(line))
      <4>1. strlen(line) + 1 \in Nat /\ strlen(line) <= strlen(line) + 1
        BY <3>2
      <4> QED BY <3>2, <4>1, Requests
    <3> QED BY <3>2, <3>3 DEF Held
  <2>2. Sound(s)
    BY DEF Ready, Going
  <2>3. Taken(s, k)
    BY <2>1, <2>2, StoreGives
  <2>4. r = hold(k)
    BY <1>2 DEF takeCommand
  <2> HIDE DEF k
  <2>5. Grown(s, k)
    BY <2>3, TakenGrown
  <2>6. Ready(r) /\ Alike(k, r)
    BY <2>4, <2>5, HoldNew
  <2>7. Untouched(r)
    BY <2>3, <2>6, TakenUntouched
  <2> QED BY <2>6, <2>7
<1> QED BY <1>1, <1>2

(* What the block args holds: the arguments, or, when there are none,      *)
(* rubbish or what a block not in use held before the line.                *)
Found(line, held) ==
  \/ spaced(line) /\ held = Tail(line)
  \/ ~spaced(line) /\ (held = Junk \/ \E p \in DOMAIN data \ leaked : held = data[p])

(* args.                                                                   *)
LEMMA TakeArgsGives ==
  ASSUME LinesFit, NEW line \in Lines, NEW s, Ready(s), Untouched(s),
         NEW r, r = takeArgs(s, line)
  PROVE  /\ Ready(r)
         /\ r.phase = "up" => r.data[r.at] \in Held /\ Found(line, r.data[r.at])
<1> DEFINE rest == strlen(line) - strlen(first(line))
           k == IF spaced(line) THEN store(s, Tail(line), rest, rest) ELSE kmalloc(s, rest)
<1>1. rest \in Nat /\ Bounded(rest)
  <2>1. line \in Texts
    BY LineTexts
  <2>2. /\ first(line) \in Texts /\ strlen(line) \in Nat /\ Bounded(strlen(line) + 1)
        /\ strlen(first(line)) <= strlen(line)
    BY <2>1, TextRequests
  <2>3. strlen(first(line)) \in Nat
    BY <2>2, TextRequests
  <2>4. rest \in Nat /\ rest <= strlen(line) + 1 /\ strlen(line) + 1 \in Nat
    BY <2>2, <2>3
  <2> QED BY <2>2, <2>4, Requests
<1>2. r = hold(k)
  BY DEF takeArgs
<1>3. Sound(s)
  BY DEF Ready, Going
<1> HIDE DEF rest
<1>4. Taken(s, k) /\ (k.phase = "up" => Found(line, k.data[k.at]))
  <2>1. CASE spaced(line)
    <3> DEFINE t == Tail(line)
    <3>1. t \in Held
      BY <2>1, LineTexts DEF Held
    <3>2. k = store(s, t, rest, rest)
      BY <2>1
    <3>3. rest \in Int /\ rest <= rest + 4
      BY <1>1
    <3> HIDE DEF k, t
    <3>4. Taken(s, k) /\ (k.phase = "up" => k.data[k.at] = t)
      BY <1>1, <1>3, <3>1, <3>2, <3>3, StoreGives
    <3> QED BY <2>1, <3>4 DEF Found, t
  <2>2. CASE ~spaced(line)
    <3>1. k = kmalloc(s, rest)
      BY <2>2
    <3> HIDE DEF k
    <3>2. /\ Taken(s, k)
          /\ k.phase = "up" => \/ k.data[k.at] = Junk
                               \/ k.at \in Mine(s.heap) /\ k.data[k.at] = s.data[k.at]
      BY <1>1, <1>3, <3>1, KmallocGives
    <3>3. k.phase = "up" => s.phase = "up" /\ k.at \notin InUse(s.heap)
      BY <3>2 DEF Taken
    <3>4. ASSUME k.phase = "up", k.data[k.at] # Junk
          PROVE  k.at \in DOMAIN data \ leaked /\ k.data[k.at] = data[k.at]
      <4>1. s.phase = "up" /\ k.at \in Mine(s.heap) \ InUse(s.heap) /\ k.data[k.at] = s.data[k.at]
        BY <3>2, <3>3, <3>4
      <4> QED BY <4>1 DEF Untouched
    <3> QED BY <2>2, <3>2, <3>4 DEF Found
  <2> QED BY <2>1, <2>2
<1> HIDE DEF k
<1>5. Grown(s, k)
  BY <1>4, TakenGrown
<1>6. Ready(r) /\ Alike(k, r)
  BY <1>2, <1>5, HoldNew
<1>7. k.phase = "up" => k.data[k.at] \in Held
  <2>1. k.phase = "up" => k.at \in Mine(k.heap) /\ k.data \in [Mine(k.heap) -> Held]
    BY <1>4 DEF Taken, Sound
  <2> QED BY <2>1
<1>8. r.data = k.data /\ r.at = k.at /\ r.phase = k.phase
  BY <1>6 DEF Alike
<1> QED BY <1>4, <1>6, <1>7, <1>8

(* The arguments a command may get.                                        *)
Passed(line, argv) ==
  \/ spaced(line) /\ argv = Tail(line)
  \/ /\ ~spaced(line)
     /\ \/ argv \in {<<>>, <<Junk>>}
        \/ \E p \in DOMAIN data \ leaked : argv = data[p]

(* Only the texts change.                                                  *)
Reads(s, t, v) == [s EXCEPT !.text = t, !.argv = v]

(* Reading args changes nothing on the heap.                               *)
LEMMA ReadsGives ==
  ASSUME NEW s, Ready(s), NEW t \in Texts, NEW v \in Texts, NEW r, r = Reads(s, t, v)
  PROVE  Ready(r) /\ r.phase = s.phase /\ r.argv = v
<1>1. s \in WorkSet /\ Sound(s)
  BY DEF Ready, Going, Sound
<1>2. /\ r \in WorkSet /\ r.heap = s.heap /\ r.data = s.data /\ r.at = s.at
      /\ r.phase = s.phase /\ r.argv = v /\ r.blocks = s.blocks /\ r.dropped = s.dropped
  BY <1>1 DEF Reads, WorkSet
<1>3. Sound(r)
  BY <1>1, <1>2 DEF Sound
<1>4. Ready(r)
  BY <1>2, <1>3 DEF Ready, Going
<1> QED BY <1>2, <1>4

(* argv gets what the block args holds.                                    *)
LEMMA ReadArgsGives ==
  ASSUME LinesFit, NEW line \in Lines, NEW s, Ready(s),
         s.phase = "up" => s.data[s.at] \in Held /\ Found(line, s.data[s.at]),
         NEW junk \in {<<>>, <<Junk>>}, NEW low, NEW r, r = readArgs(s, junk, low)
  PROVE  Ready(r) /\ (r.phase = "up" => Passed(line, r.argv))
<1> DEFINE held == s.data[s.at]
<1>1. junk \in Texts /\ <<>> \in Texts
  BY ShortTexts, ShellAssumption DEF Words
<1>2. spaced(line) => Tail(line) # Junk
  <2>1. spaced(line) => Tail(line) \in Seq(Words)
    BY LineTexts DEF Texts
  <2> QED BY <2>1, ShellAssumption DEF Words
<1>3. CASE s.phase # "up"
  BY <1>3 DEF readArgs
<1>4. CASE s.phase = "up" /\ held = Junk
  <2> DEFINE t == junk
             v == IF low THEN <<>> ELSE junk
  <2>1. t \in Texts /\ v \in Texts /\ v \in {<<>>, <<Junk>>}
    BY <1>1
  <2>2. r = Reads(s, t, v)
    BY <1>4 DEF readArgs, Reads
  <2> HIDE DEF t, v
  <2>3. t \in Texts /\ v \in Texts
    BY <2>1
  <2>4. Ready(r) /\ r.argv = v
    BY <2>2, <2>3, ReadsGives
  <2>5. ~spaced(line)
    BY <1>2, <1>4 DEF Found
  <2> QED BY <2>1, <2>4, <2>5 DEF Passed
<1>5. CASE s.phase = "up" /\ held # Junk
  <2>1. r = Reads(s, held, held)
    BY <1>5 DEF readArgs, Reads
  <2>2. held \in Texts /\ Found(line, held)
    BY <1>5 DEF Held
  <2> HIDE DEF held
  <2>3. Ready(r) /\ r.argv = held
    BY <2>1, <2>2, ReadsGives
  <2> QED BY <1>5, <2>2, <2>3 DEF Passed, Found
<1> QED BY <1>3, <1>4, <1>5

(* Copying the arguments and building argv leaves them as they are.        *)
LEMMA CopyArgsGives ==
  ASSUME LinesFit, NEW s, Ready(s), NEW r, r = copyArgs(s)
  PROVE  Ready(r) /\ r.argv = s.argv /\ (r.phase = "up" => s.phase = "up")
<1> DEFINE n == strlen(s.text) + 1
           k == store(s, first(s.text), n, n)
<1>1. Sound(s) /\ s.text \in Texts
  BY DEF Ready, Going, Sound, WorkSet
<1>2. first(s.text) \in Held /\ n \in Nat /\ Bounded(n)
  BY <1>1, TextRequests DEF Held
<1>3. r = hold(k)
  BY DEF copyArgs
<1> HIDE DEF n
<1>4. n \in Int /\ n <= n + 4
  BY <1>2
<1>5. Taken(s, k)
  BY <1>1, <1>2, <1>4, StoreGives
<1> HIDE DEF k
<1>6. Grown(s, k)
  BY <1>5, TakenGrown
<1>7. Ready(r) /\ Alike(k, r) /\ (r.phase = "up" => s.phase = "up")
  BY <1>3, <1>6, HoldNew
<1>8. r.argv = s.argv
  BY <1>5, <1>7 DEF Taken, Same, Alike
<1> QED BY <1>7, <1>8

(* The same for the vector that points to the arguments.                   *)
LEMMA BuildVectorGives ==
  ASSUME LinesFit, NEW s, Ready(s), NEW r, r = buildVector(s)
  PROVE  Ready(r) /\ r.argv = s.argv /\ (r.phase = "up" => s.phase = "up")
<1> DEFINE m == Len(s.text) - 1
           n == IF m < 0 THEN 0 ELSE m
           f == [i \in 1 .. m |-> 4 * (i + 1)]
           k == FoldLeft(krealloc, calloc(s), f)
<1>1. Sound(s) /\ s.text \in Texts /\ Len(s.text) \in Nat
  BY DEF Ready, Going, Sound, WorkSet, Texts
<1>2. n \in Nat /\ 1 .. m = 1 .. n /\ f = [i \in 1 .. n |-> 4 * (i + 1)]
  BY <1>1
<1>3. Bounded(4) /\ \A i \in 1 .. n : Bounded(4 * (i + 1))
  <2>1. \A j \in Nat : j <= Len(s.text) => Bounded(4 * j)
    BY <1>1, TextRequests
  <2>2. \A i \in 1 .. n : i + 1 \in Nat /\ i + 1 <= Len(s.text)
    BY <1>1
  <2> QED BY <2>1, <2>2, ShortTexts
<1>4. r = hold(k)
  BY DEF buildVector
<1> HIDE DEF n, f
<1>5. Grown(s, k)
  BY <1>1, <1>2, <1>3, VectorGives
<1> HIDE DEF k
<1>6. Ready(r) /\ Alike(k, r) /\ (r.phase = "up" => s.phase = "up")
  BY <1>4, <1>5, HoldNew
<1>7. r.argv = s.argv
  BY <1>5, <1>6 DEF Grown, Same, Alike
<1> QED BY <1>6, <1>7

-----------------------------------------------------------------------------
(* A block that is taken and given back leaves the command as it was.      *)
LEMMA TakenReleased ==
  ASSUME NEW s, Ready(s), NEW k, Taken(s, k), NEW r, r = releaseLast(k)
  PROVE  Ready(r) /\ r.argv = s.argv /\ (r.phase = "up" => s.phase = "up")
<1>1. /\ Sound(k) /\ Same(s, k)
      /\ k.phase = "up" => /\ s.phase = "up" /\ k.at \in Mine(k.heap) \ InUse(s.heap)
                           /\ InUse(k.heap) = InUse(s.heap) \cup {k.at}
  BY DEF Taken
<1>2. r = release(k, k.at)
  BY DEF releaseLast
<1>3. /\ Sound(r) /\ Same(k, r) /\ r.phase = k.phase
      /\ k.phase = "up" => InUse(r.heap) = InUse(k.heap) \ {k.at}
  BY <1>1, <1>2, ReleaseGives
<1>4. r.blocks = s.blocks /\ r.argv = s.argv /\ r.dropped = {} /\ s.dropped = {}
  BY <1>1, <1>3 DEF Same, Ready
<1>5. r.phase = "up" => s.phase = "up" /\ InUse(r.heap) = InUse(s.heap)
  BY <1>1, <1>3
<1> QED BY <1>3, <1>4, <1>5 DEF Ready, Going

(* A block that is dropped is in use from then on.                         *)
LEMMA TakenDropped ==
  ASSUME NEW s, Ready(s), NEW k, Taken(s, k), NEW r, r = drop(k)
  PROVE  Going(r) /\ r.argv = s.argv /\ (r.phase = "up" => s.phase = "up")
<1>1. /\ Sound(k) /\ Same(s, k)
      /\ k.phase = "up" => /\ s.phase = "up" /\ k.at \in Mine(k.heap) \ InUse(s.heap)
                           /\ InUse(k.heap) = InUse(s.heap) \cup {k.at}
  BY DEF Taken
<1>2. k.blocks = s.blocks /\ k.argv = s.argv /\ k.dropped = {} /\ s.dropped = {}
  BY <1>1 DEF Same, Ready
<1>3. CASE k.phase # "up"
  <2>1. r = k
    BY <1>3 DEF drop
  <2> QED BY <1>1, <1>2, <1>3, <2>1 DEF Going
<1>4. CASE k.phase = "up"
  <2>1. k \in WorkSet /\ k.at \in Nat
    BY <1>1 DEF Sound, WorkSet
  <2>2. /\ r \in WorkSet /\ r.heap = k.heap /\ r.data = k.data /\ r.phase = k.phase
        /\ r.blocks = k.blocks /\ r.argv = k.argv /\ r.dropped = {k.at}
    BY <1>4, <2>1 DEF drop, WorkSet
  <2>3. leaked \subseteq Mine(k.heap) /\ k.at \in Mine(k.heap)
    BY <1>1, <1>4 DEF Sound
  <2>4. Sound(r)
    BY <1>1, <2>2, <2>3 DEF Sound
  <2>5. InUse(s.heap) = leaked \cup Range(s.blocks) /\ leaked \cap Range(s.blocks) = {}
    BY <1>1, <1>2, <1>4 DEF Ready, Going
  <2>6. /\ InUse(r.heap) = (leaked \cup {k.at}) \cup Range(s.blocks)
        /\ (leaked \cup {k.at}) \cap Range(s.blocks) = {}
    BY <1>1, <1>4, <2>2, <2>5
  <2>7. Going(r)
    BY <1>2, <2>2, <2>4, <2>6 DEF Going
  <2> QED BY <1>1, <1>2, <1>4, <2>2, <2>7
<1> QED BY <1>3, <1>4

(* The command itself.                                                     *)
LEMMA RunGives ==
  ASSUME LinesFit, NEW s, Ready(s), NEW command, NEW found, NEW r, r = run(s, command, found)
  PROVE  Going(r) /\ r.argv = s.argv /\ (r.phase = "up" => s.phase = "up")
<1> DEFINE kind == Kind[command]
           name == Head(s.argv)
           dir == IF name \in DOMAIN AsDirectory THEN <<AsDirectory[name]>> ELSE Junk
           lists == kind = "ls" /\ s.argv # <<>> /\ ~found
           length == strlen(first(s.text))
<1>1. Sound(s) /\ s.argv \in Texts /\ s.text \in Texts
  BY DEF Ready, Going, Sound, WorkSet
<1>2. ASSUME NEW k, Taken(s, k), r = releaseLast(k)
      PROVE  Going(r) /\ r.argv = s.argv /\ (r.phase = "up" => s.phase = "up")
  BY <1>2, TakenReleased DEF Ready
<1>3. CASE lists
  <2> DEFINE w == WordLength[name]
             k == store(s, dir, w + 1, w + 2)
  <2>1. r = releaseLast(k)
    BY <1>3 DEF run
  <2>2. name \in Words
    BY <1>1, <1>3, TextRequests
  <2>3. w \in Nat /\ Bounded(w + 1)
    BY <2>2, ShortTexts
  <2>4. dir \in Held
    <3>1. CASE name \in DOMAIN AsDirectory
      <4>1. AsDirectory[name] \in Words
        BY <3>1, ShellAssumption DEF Words
      <4>2. <<AsDirectory[name]>> \in Texts
        BY <4>1, ShortTexts
      <4> QED BY <3>1, <4>2 DEF Held
    <3>2. CASE name \notin DOMAIN AsDirectory
      BY <3>2 DEF Held
    <3> QED BY <3>1, <3>2
  <2> HIDE DEF w, dir
  <2>5. w + 1 \in Nat /\ w + 2 \in Int /\ w + 2 <= (w + 1) + 4
    BY <2>3
  <2>6. Taken(s, k)
    BY <1>1, <2>3, <2>4, <2>5, StoreGives
  <2> HIDE DEF k
  <2> QED BY <1>2, <2>1, <2>6
<1>4. CASE kind = "cat"
  <2> DEFINE t == first(s.text)
             k == store(s, t, length + 2, length + 1)
  <2>1. r = releaseLast(k)
    BY <1>4 DEF run
  <2>2. t \in Texts
    BY <1>1, TextRequests
  <2>3. length \in Nat /\ Bounded(length + 2) /\ t \in Held
    BY <2>2, TextRequests DEF Held
  <2> HIDE DEF t, length
  <2>4. length + 2 \in Nat /\ length + 1 \in Int /\ length + 1 <= (length + 2) + 4
    BY <2>3
  <2>5. Taken(s, k)
    BY <1>1, <2>3, <2>4, StoreGives
  <2> HIDE DEF k
  <2> QED BY <1>2, <2>1, <2>5
<1>5. CASE kind = "date"
  <2> DEFINE k == kmalloc(s, DATE_SIZE)
  <2>1. r = drop(k)
    BY <1>5 DEF run
  <2>2. DATE_SIZE \in Nat /\ Bounded(DATE_SIZE)
    BY ShellAssumption DEF LinesFit
  <2>3. Taken(s, k)
    BY <1>1, <2>2, KmallocGives
  <2> HIDE DEF k
  <2> QED BY <2>1, <2>3, TakenDropped
<1>6. CASE kind = "chip8" /\ s.phase = "up"
  <2>1. r = [s EXCEPT !.phase = "chip8"]
    BY <1>6 DEF run
  <2>2. Sound(r) /\ Same(s, r) /\ r.phase = "chip8"
    BY <1>1, <2>1, SoundPhase
  <2> QED BY <2>2 DEF Going, Same
<1>7. CASE ~lists /\ kind \notin {"cat", "date"} /\ ~(kind = "chip8" /\ s.phase = "up")
  <2>1. r = s
    BY <1>7 DEF run
  <2> QED BY <2>1 DEF Ready
<1> QED BY <1>3, <1>4, <1>5, <1>6, <1>7

(* The command is the first word of the line.                              *)
LEMMA RunFirstGives ==
  ASSUME LinesFit, NEW line, NEW s, Ready(s), NEW found, NEW r, r = runFirst(s, line, found)
  PROVE  Going(r) /\ r.argv = s.argv /\ (r.phase = "up" => s.phase = "up")
<1>1. CASE line = <<>>
  <2>1. r = s
    BY <1>1 DEF runFirst
  <2> QED BY <2>1 DEF Ready
<1>2. CASE line # <<>>
  <2> DEFINE c == Head(line)
  <2>1. r = run(s, c, found)
    BY <1>2 DEF runFirst
  <2> HIDE DEF c
  <2> QED BY <2>1, RunGives
<1> QED BY <1>1, <1>2

(* At the end every block taken is released, once or twice; only the       *)
(* dropped ones stay in use.                                               *)
LEMMA FinishGives ==
  ASSUME NEW s, Going(s), NEW r, r = finish(s)
  PROVE  /\ Sound(r) /\ Same(s, r) /\ r.phase = s.phase
         /\ r.phase = "up" => InUse(r.heap) = leaked \cup r.dropped
<1> DEFINE f == s.blocks
           n == Len(f)
           L == leaked \cup s.dropped
           M == {k \in WorkSet :
                   /\ Sound(k) /\ Same(s, k) /\ k.phase = s.phase
                   /\ Mine(k.heap) = Mine(s.heap)
                   /\ s.phase = "up" => /\ L \subseteq InUse(k.heap)
                                         /\ InUse(k.heap) \subseteq L \cup Range(f)}
           val(g, q) == IF q = {} THEN s ELSE release(g[q \ {Max(q)}], f[Max(q)])
           IsLoop(g) == g = [q \in SUBSET (DOMAIN f) |-> val(g, q)]
           loop == CHOOSE g : IsLoop(g)
           step == [p \in (1 .. n) \X M |-> release(p[2], f[p[1]])]
           I == [i \in 0 .. n |-> {k \in M : s.phase = "up" =>
                                     \A j \in 1 .. i : f[j] \notin InUse(k.heap)}]
<1>1. r = loop[DOMAIN f]
  BY DEF finish, FoldLeft, MapThenFoldSet
<1>2. f \in Seq(Nat) /\ Sound(s) /\ s \in WorkSet
  BY DEF Going, Sound, WorkSet
<1>3. n \in Nat /\ DOMAIN f = 1 .. n /\ Range(f) = {f[i] : i \in 1 .. n}
  BY <1>2 DEF Range
<1>4. s.phase = "up" => InUse(s.heap) = L \cup Range(f) /\ L \cap Range(f) = {}
  BY DEF Going
<1> HIDE DEF n, f, L
<1>5. s \in M
  BY <1>2, <1>4 DEF Same
<1>6. ASSUME NEW i \in 1 .. n, NEW k \in M
      PROVE  /\ release(k, f[i]) \in M
             /\ s.phase = "up" => InUse(release(k, f[i]).heap) = InUse(k.heap) \ {f[i]}
  <2> DEFINE q == release(k, f[i])
  <2>1. Sound(k) /\ Same(s, k) /\ k.phase = s.phase /\ Mine(k.heap) = Mine(s.heap)
    OBVIOUS
  <2>2. s.phase = "up" => f[i] \in Mine(s.heap) /\ f[i] \notin L
    <3>1. f[i] \in Range(f)
      BY <1>3
    <3>2. InUse(s.heap) \subseteq Mine(s.heap)
      BY DEF InUse, Mine
    <3> QED BY <1>4, <3>1, <3>2
  <2>3. /\ Sound(q) /\ Same(k, q) /\ q.phase = k.phase /\ Mine(q.heap) = Mine(k.heap)
        /\ k.phase = "up" => InUse(q.heap) = InUse(k.heap) \ {f[i]}
    BY <2>1, <2>2, ReleaseGives
  <2> HIDE DEF q
  <2>4. Same(s, q) /\ q \in WorkSet
    BY <2>1, <2>3 DEF Same, Sound
  <2>5. s.phase = "up" => L \subseteq InUse(k.heap) /\ InUse(k.heap) \subseteq L \cup Range(f)
    OBVIOUS
  <2>6. s.phase = "up" => L \subseteq InUse(q.heap) /\ InUse(q.heap) \subseteq L \cup Range(f)
    BY <2>1, <2>2, <2>3, <2>5
  <2>7. q \in M
    BY <2>1, <2>3, <2>4, <2>6
  <2> QED BY <2>1, <2>3, <2>7 DEF q
<1>7. step \in [(1 .. n) \X M -> M]
  <2> SUFFICES ASSUME NEW i \in 1 .. n, NEW k \in M PROVE release(k, f[i]) \in M
    BY Zenon
  <2> QED BY <1>6
<1>8. \A i \in 1 .. n : \A k \in M : step[<<i, k>>] = release(k, f[i])
  OBVIOUS
<1> HIDE DEF step
<1>9. /\ I \in [0 .. n -> SUBSET M] /\ s \in I[0]
  BY <1>3, <1>5
<1>10. ASSUME NEW i \in 1 .. n, NEW k \in I[i - 1] PROVE step[<<i, k>>] \in I[i]
  <2>1. i - 1 \in 0 .. n /\ i \in 0 .. n
    BY <1>3
  <2>2. k \in M /\ (s.phase = "up" => \A j \in 1 .. i - 1 : f[j] \notin InUse(k.heap))
    BY <2>1
  <2> DEFINE q == release(k, f[i])
  <2>3. q \in M /\ (s.phase = "up" => InUse(q.heap) = InUse(k.heap) \ {f[i]})
    BY <1>6, <2>2
  <2> HIDE DEF q, M
  <2>4. s.phase = "up" => \A j \in 1 .. i : f[j] \notin InUse(q.heap)
    <3>1. \A j \in 1 .. i : j \in 1 .. i - 1 \/ j = i
      OBVIOUS
    <3> QED BY <2>2, <2>3, <3>1
  <2>5. q \in I[i]
    BY <2>1, <2>3, <2>4
  <2> HIDE DEF I
  <2>6. step[<<i, k>>] = q
    BY <1>8, <2>2 DEF q
  <2> QED BY <2>5, <2>6
<1> HIDE DEF M
<1>11. r \in I[n]
  <2> HIDE DEF I
  <2>1. ASSUME NEW q \in SUBSET (1 .. n), NEW g, q # {}, g[q \ {Max(q)}] \in M
        PROVE  val(g, q) = step[<<Max(q), g[q \ {Max(q)}]>>]
    <3>1. Max(q) \in 1 .. n
      BY <1>3, <2>1, PrefixSets
    <3> QED BY <1>8, <2>1, <3>1
  <2>2. \A g : val(g, {}) = s
    OBVIOUS
  <2> HIDE DEF val
  <2>3. \E g : IsLoop(g)
    <3>1. PICK g \in [SUBSET (1 .. n) -> M] : Loops(g, n, M, s, step)
      BY <1>3, <1>5, <1>7, LoopExists
    <3>2. \A q \in SUBSET (1 .. n) : g[q] = val(g, q)
      BY <2>1, <2>2, <3>1 DEF Loops
    <3>3. g = [q \in SUBSET (1 .. n) |-> g[q]]
      OBVIOUS
    <3>4. IsLoop(g)
      BY <1>3, <3>2, <3>3
    <3> HIDE DEF IsLoop
    <3> QED BY <3>4
  <2>4. IsLoop(loop)
    BY <2>3
  <2> HIDE DEF loop
  <2>5. Loops(loop, n, M, s, step)
    <3>1. \A q \in SUBSET (1 .. n) : loop[q] = val(loop, q)
      BY <1>3, <2>4
    <3> QED BY <2>1, <2>2, <3>1 DEF Loops
  <2>6. loop[1 .. n] \in I[n]
    BY <1>3, <1>5, <1>7, <1>9, <1>10, <2>5, LoopGives
  <2> QED BY <1>1, <1>3, <2>6
<1>12. r \in M /\ (s.phase = "up" => \A j \in 1 .. n : f[j] \notin InUse(r.heap))
  <2>1. n \in 0 .. n
    BY <1>3
  <2> QED BY <1>11, <2>1
<1>13. /\ Sound(r) /\ Same(s, r) /\ r.phase = s.phase
       /\ s.phase = "up" => L \subseteq InUse(r.heap) /\ InUse(r.heap) \subseteq L \cup Range(f)
  BY <1>12 DEF M
<1>14. s.phase = "up" => InUse(r.heap) = L
  <2>1. s.phase = "up" => \A p \in Range(f) : p \notin InUse(r.heap)
    BY <1>3, <1>12
  <2> QED BY <1>13, <2>1
<1> QED BY <1>13, <1>14 DEF L, Same

(* The whole command.                                                      *)
LEMMA LaunchGives ==
  ASSUME LinesFit, ShellInv, phase = "up", NEW line \in Lines,
         NEW junk \in {<<>>, <<Junk>>}, NEW low, NEW found,
         NEW r, r = launch_command(line, junk, low, found)
  PROVE  /\ Sound(r)
         /\ r.phase = "up" => InUse(r.heap) = leaked \cup r.dropped /\ Passed(line, r.argv)
<1> DEFINE a == copyLine(Work, line)
           b == takeCommand(a, line)
           c == takeArgs(b, line)
           d == readArgs(c, junk, low)
           e == copyArgs(d)
           v == buildVector(e)
           x == runFirst(v, line, found)
<1>1. r = finish(x)
  BY DEF launch_command
<1>2. Ready(a) /\ Untouched(a) /\ (a.phase = "up" => a.at \in Range(a.blocks))
  BY CopyLineGives
<1> HIDE DEF a
<1>3. Ready(b) /\ Untouched(b)
  BY <1>2, TakeCommandGives
<1> HIDE DEF b
<1>4. Ready(c) /\ (c.phase = "up" => c.data[c.at] \in Held /\ Found(line, c.data[c.at]))
  BY <1>3, TakeArgsGives
<1> HIDE DEF c
<1>5. Ready(d) /\ (d.phase = "up" => Passed(line, d.argv))
  BY <1>4, ReadArgsGives
<1> HIDE DEF d
<1>6. Ready(e) /\ e.argv = d.argv /\ (e.phase = "up" => d.phase = "up")
  BY <1>5, CopyArgsGives
<1> HIDE DEF e
<1>7. Ready(v) /\ v.argv = e.argv /\ (v.phase = "up" => e.phase = "up")
  BY <1>6, BuildVectorGives
<1> HIDE DEF v
<1>8. Going(x) /\ x.argv = v.argv /\ (x.phase = "up" => v.phase = "up")
  BY <1>7, RunFirstGives
<1> HIDE DEF x
<1>9. /\ Sound(r) /\ Same(x, r) /\ r.phase = x.phase
      /\ r.phase = "up" => InUse(r.heap) = leaked \cup r.dropped
  BY <1>1, <1>8, FinishGives
<1>10. r.argv = d.argv
  BY <1>6, <1>7, <1>8, <1>9 DEF Same
<1>11. r.phase = "up" => d.phase = "up"
  BY <1>6, <1>7, <1>8, <1>9
<1> QED BY <1>5, <1>9, <1>10, <1>11

(* A step of the shell.                                                    *)
ArgumentsStep ==
  phase' = "up" =>
    \/ spaced(last'.line) /\ last'.argv = Tail(last'.line)
    \/ /\ ~spaced(last'.line)
       /\ \/ last'.argv \in {<<>>, <<Junk>>}
          \/ \E p \in DOMAIN data \ leaked : last'.argv = data[p]

(* Running a line keeps the invariant and passes the arguments.            *)
LEMMA EnterGives ==
  ASSUME LinesFit, ShellInv, NEW line \in Lines, Enter(line)
  PROVE  ShellInv' /\ ArgumentsStep
<1>1. PICK o \in Outcomes(line) : \E r \in {launch_command(line, o.junk, o.low, o.found)} :
        /\ phase = "up" /\ heap' = r.heap /\ data' = r.data
        /\ leaked' = leaked \cup r.dropped
        /\ last' = [line |-> line, argv |-> r.argv] /\ phase' = r.phase
  BY DEF Enter
<1> DEFINE r == launch_command(line, o.junk, o.low, o.found)
<1>2. /\ phase = "up" /\ heap' = r.heap /\ data' = r.data
      /\ leaked' = leaked \cup r.dropped
      /\ last' = [line |-> line, argv |-> r.argv] /\ phase' = r.phase
  BY <1>1
<1>3. o.junk \in {<<>>, <<Junk>>}
  BY <1>1 DEF Outcomes
<1>4. /\ Sound(r)
      /\ r.phase = "up" => InUse(r.heap) = leaked \cup r.dropped /\ Passed(line, r.argv)
  <2> DEFINE junk == o.junk
             low == o.low
             found == o.found
  <2>1. junk \in {<<>>, <<Junk>>}
    BY <1>3
  <2>2. phase = "up"
    BY <1>2
  <2> HIDE DEF junk, low, found
  <2> QED BY <2>1, <2>2, LaunchGives DEF junk, low, found
<1> HIDE DEF r
<1>5. /\ Known(r.heap) /\ r.data \in [Mine(r.heap) -> Held]
      /\ leaked \cup r.dropped \subseteq Mine(r.heap)
      /\ r.phase \in {"up", "aborted", "corrupt", "chip8"}
  BY <1>4 DEF Sound, WorkSet
<1>6. /\ Known(heap') /\ data' \in [Mine(heap') -> Held] /\ leaked' \subseteq Mine(heap')
      /\ phase' \in {"up", "aborted", "corrupt", "chip8"}
      /\ phase' = "up" => InUse(heap') = leaked'
  BY <1>2, <1>4, <1>5
<1>7. ShellInv'
  BY <1>6 DEF ShellInv
<1>8. last'.line = line /\ last'.argv = r.argv
  BY <1>2
<1>9. ArgumentsStep
  BY <1>2, <1>4, <1>8 DEF ArgumentsStep, Passed
<1> QED BY <1>7, <1>9

(* A key that is no command leaves the shell alone.                        *)
LEMMA ShellStep ==
  ASSUME LinesFit, ShellInv, [Next]_vars
  PROVE  ShellInv' /\ (ArgumentsStep \/ UNCHANGED shellVars)
<1>1. CASE UNCHANGED shellVars
  BY <1>1 DEF shellVars, ShellInv
<1>2. ASSUME NEW line \in Lines, Line(line) PROVE ShellInv' /\ ArgumentsStep
  BY <1>2, EnterGives DEF Line
<1>3. (\E line \in Lines : Line(line)) \/ UNCHANGED shellVars
  BY DEF Next, vars, Key, Escape
<1> QED BY <1>1, <1>2, <1>3

(* The invariant holds when nothing has been run.                          *)
LEMMA ShellStart ==
  ASSUME Init
  PROVE  ShellInv
<1>1. heap = {} /\ data = <<>> /\ leaked = {} /\ phase = "up"
  BY DEF Init, shellInit
<1>2. Known({}) /\ Mine({}) = {} /\ InUse({}) = {}
  BY DEF Known, Mine, InUse
<1>3. <<>> \in [{} -> Held]
  OBVIOUS
<1> QED BY <1>1, <1>2, <1>3 DEF ShellInv

(* ShellInv always holds: launch_command_framebuffer keeps the heap, what  *)
(* its blocks hold and the dropped pointers in step with each other.       *)
THEOREM ShellInductive ==
  ASSUME LinesFit
  PROVE  Spec => []ShellInv
<1>1. Init => ShellInv
  BY ShellStart
<1>2. LinesFit /\ ShellInv /\ [Next]_vars => ShellInv'
  BY ShellStep
<1>3. LinesFit
  OBVIOUS
<1> QED BY <1>1, <1>2, <1>3, PTL DEF Spec

(* No text is written past the room of its block (TextsFit of Shell): a    *)
(* command name and args ask for one byte less than they write, but every  *)
(* block has four bytes more than its size, and no size is rounded down.   *)
THEOREM TextsAlwaysFit ==
  ASSUME LinesFit
  PROVE  Spec => []TextsFit
<1>1. ShellInv => TextsFit
  BY DEF ShellInv, TextsFit
<1>2. Spec => []ShellInv
  BY ShellInductive
<1> QED BY <1>1, <1>2, PTL

(* Every command gives back what it took (BlocksReturned of Shell): the    *)
(* blocks in use between two commands are those whose pointer was dropped, *)
(* although the copy of a line with a space is released twice.             *)
THEOREM BlocksAlwaysReturned ==
  ASSUME LinesFit
  PROVE  Spec => []BlocksReturned
<1>1. ShellInv => BlocksReturned
  BY DEF ShellInv, BlocksReturned, shellTypes, Known, Mine, InUse
<1>2. Spec => []ShellInv
  BY ShellInductive
<1> QED BY <1>1, <1>2, PTL

(* Commands get their arguments (ArgumentsPassed of Shell): those typed,   *)
(* or else nothing, rubbish, or what a block nobody used held before the   *)
(* line, never a string that was dropped or what this line has stored.     *)
THEOREM ArgumentsArrive ==
  ASSUME LinesFit
  PROVE  Spec => ArgumentsPassed
<1>1. LinesFit /\ ShellInv /\ [Next]_vars => [ArgumentsStep]_shellVars
  BY ShellStep
<1>2. Spec => []ShellInv
  BY ShellInductive
<1>3. LinesFit
  OBVIOUS
<1>4. Spec => [][ArgumentsStep]_shellVars
  BY <1>1, <1>2, <1>3, PTL DEF Spec
<1>5. ArgumentsPassed <=> [][ArgumentsStep]_shellVars
  BY DEF ArgumentsPassed, ArgumentsStep
<1> QED BY <1>4, <1>5, PTL
==============================================================================
