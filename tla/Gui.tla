-------------------------------- MODULE Gui --------------------------------
(***************************************************************************)
(* The windows of the graphical build: kernel/arch/i386/gui.c on the lists *)
(* of kernel/kernel/data_structures/list.c.                                *)
(*                                                                         *)
(* A window is its address.  Closing one frees it, and the address may be  *)
(* given to a later one; what is drawn, and where, is left out.            *)
(***************************************************************************)
EXTENDS Naturals, Sequences, SequencesExt, FiniteSets

CONSTANTS Windows,      \* the addresses windows may have
          background_window,
          top_bar_window,
          NULL

ASSUME GuiAssumption ==
  /\ background_window \in Windows /\ top_bar_window \in Windows
  /\ background_window # top_bar_window /\ NULL \notin Windows

VARIABLES window_list,  \* [items, size]: the windows and the room for them
          focused,
          live,         \* the windows allocated
          flags,        \* WM_WINDOW, or 0 for a normal window
          screen        \* "up"; "wild" once a window at address 0 was used
guiVars == <<window_list, focused, live, flags, screen>>

-----------------------------------------------------------------------------
(* list.c: the array doubles when it is full.                              *)
list_append(data, list) ==
  [items |-> Append(list.items, data),
   size  |-> IF Len(list.items) = list.size THEN 2 * list.size ELSE list.size]

(* A new list with the size of the old one, without the entry.             *)
list_remove(data, list) ==
  FoldLeft(LAMBDA new, w : IF w # data THEN list_append(w, new) ELSE new,
           [items |-> <<>>, size |-> list.size], list.items)

isNormal(w) == flags[w] = "normal"

(* The first normal window of the list, NULL when there is none.           *)
find_first_normal_window(list) ==
  LET normal == {i \in DOMAIN list.items : isNormal(list.items[i])}
  IN  IF normal = {} THEN NULL ELSE list.items[Min(normal)]

(* kernel_main: init_gui opens the background and the top bar, and then    *)
(* the first window is opened.                                             *)
guiInit ==
  \E w \in Windows \ {background_window, top_bar_window} :
    /\ window_list = list_append(w, list_append(top_bar_window,
                       list_append(background_window, [items |-> <<>>, size |-> 1])))
    /\ focused = w
    /\ live = {background_window, top_bar_window, w}
    /\ flags = [v \in Windows |-> IF v \in {background_window, top_bar_window}
                                  THEN "WM_WINDOW" ELSE "normal"]
    /\ screen = "up"

(* The 'n' key: a normal window at any free address.                       *)
open_window ==
  \E w \in Windows \ live :
    /\ live' = live \cup {w}
    /\ flags' = [flags EXCEPT ![w] = "normal"]
    /\ focused' = w
    /\ window_list' = list_append(w, window_list)
    /\ UNCHANGED screen

(* Mutant: the window is freed and stays in the list.                      *)
close_window_listed ==
  /\ focused # NULL
  /\ focused' = find_first_normal_window(list_remove(focused, window_list))
  /\ live' = live \ {focused}
  /\ UNCHANGED <<window_list, flags, screen>>

(* The 'q' key: close_window of the focused window.                        *)
close_window ==
  /\ focused # NULL
  /\ window_list' = list_remove(focused, window_list)
  /\ focused' = find_first_normal_window(window_list')
  /\ live' = live \ {focused}
  /\ UNCHANGED <<flags, screen>>

(* An arrow moves the focused window, another key draws a character in it: *)
(* neither changes anything here.  Any key but 'n' and Enter takes the     *)
(* focused window for granted.                                             *)
use_focused == focused # NULL /\ UNCHANGED guiVars

use_nothing ==
  /\ focused = NULL
  /\ screen' = "wild"
  /\ UNCHANGED <<window_list, focused, live, flags>>

keypress == screen = "up" /\ (open_window \/ close_window \/ use_focused \/ use_nothing)

-----------------------------------------------------------------------------
listed == Range(window_list.items)

(* What the timer and every key draw is alive: the list has each window    *)
(* that is allocated, once, and no window that was freed.                  *)
ListedAreLive == listed = live /\ IsInjective(window_list.items)

(* The keys go to a normal window whenever there is one, and never to the  *)
(* background or the top bar, which 'q' would then close.                  *)
FocusIsNormal ==
  IF \E w \in listed : isNormal(w)
  THEN focused \in listed /\ isNormal(focused)
  ELSE focused = NULL
=============================================================================
