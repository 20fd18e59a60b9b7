---------------------------- MODULE Containers ----------------------------
(***************************************************************************)
(* kernel/data_structures: the growing array, the stack, pairs.  Garbage   *)
(* stands for memory kmalloc returned and nobody wrote.                    *)
(***************************************************************************)
EXTENDS Integers, Sequences, SequencesExt

NIL == "NULL"
Garbage == "garbage"

-----------------------------------------------------------------------------
(* list.c: `data` is the block of `size` items, `used` of them in use.     *)

list_create_ext(n, s) == [used |-> n, size |-> s, data |-> [i \in 0 .. s - 1 |-> Garbage]]

list_create == list_create_ext(0, 1)

(* The items become NULL, `used` stays.                                    *)
list_clear(l) ==
  [l EXCEPT !.data = [i \in DOMAIN l.data |-> IF i < l.used THEN NIL ELSE l.data[i]]]

list_is_empty(l) == l.used = 0

(* krealloc keeps the old items.                                           *)
Grown(l) ==
  [l EXCEPT !.size = 2 * l.size,
            !.data = [i \in 0 .. 2 * l.size - 1 |->
                        IF i < l.size THEN l.data[i] ELSE Garbage]]

Put(l, d) == [l EXCEPT !.data[l.used] = d, !.used = l.used + 1]

list_append(d, l) == IF l.used = l.size THEN Put(Grown(l), d) ELSE Put(l, d)

(* A new list of the same size takes the items that stay, in order.        *)
list_remove(d, l) ==
  FoldLeft(LAMBDA n, i : IF l.data[i - 1] # d THEN list_append(l.data[i - 1], n) ELSE n,
           list_create_ext(0, l.size), [i \in 1 .. l.used |-> i])

list_remove_index(index, l) ==
  FoldLeft(LAMBDA n, i : IF i - 1 # index THEN list_append(l.data[i - 1], n) ELSE n,
           list_create_ext(0, l.size), [i \in 1 .. l.used |-> i])

list_find(d, l) == IF \E i \in 0 .. l.used - 1 : l.data[i] = d THEN d ELSE NIL

list_find_at(index, l) == l.data[index]

create_pair(first, second) == [first |-> first, second |-> second]

-----------------------------------------------------------------------------
(* stack.c: the nodes from the root on; every node is a block of the heap. *)

stack_is_empty(root) == root = <<>>

stack_push(root, d) == <<d>> \o root

(* The data and the root that is left.                                     *)
stack_pop(root) ==
  IF stack_is_empty(root) THEN create_pair(NIL, root)
  ELSE create_pair(Head(root), Tail(root))
=============================================================================
