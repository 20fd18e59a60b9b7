------------------------------- MODULE Input -------------------------------
(***************************************************************************)
(* What keys do: sys_key_handler of kernel/arch/i386/irq_handlers.c.  In   *)
(* the graphical build (GUI_MODE) keys go to the windows of Gui, in the    *)
(* text build a line goes to the commands of Shell; in both Escape         *)
(* restarts the machine.  Interrupts are off in the handler, so each key   *)
(* is one step.  key_pressed is only ever written, and the keys that build *)
(* up a line are left out.                                                 *)
(***************************************************************************)
EXTENDS Shell, Gui

VARIABLES build,    \* GUI_MODE: "gui" or "text"
          machine   \* "on", or "reset" by Escape
vars == <<build, machine, shellVars, guiVars>>

Init ==
  /\ build \in {"gui", "text"} /\ machine = "on"
  /\ shellInit /\ guiInit

(* The handler acts on the press of a key; what runs on in another key's   *)
(* handler keeps it from being called.                                     *)
handles(b) == build = b /\ machine = "on" /\ phase = "up" /\ screen = "up"

Key == handles("gui") /\ keypress /\ UNCHANGED <<build, machine, shellVars>>

Line(line) == handles("text") /\ Enter(line) /\ UNCHANGED <<build, machine, guiVars>>

Escape ==
  /\ handles(build)
  /\ machine' = "reset"
  /\ UNCHANGED <<build, shellVars, guiVars>>

Next == Key \/ Escape \/ \E line \in Lines : Line(line)

Spec == Init /\ [][Next]_vars

(* Types: the windows, and the array of the list, which has room for what  *)
(* it holds.                                                               *)
TypeOK ==
  /\ build \in {"gui", "text"} /\ machine \in {"on", "reset"}
  /\ live \subseteq Windows /\ focused \in Windows \cup {NULL}
  /\ screen \in {"up", "wild"}
  /\ Len(window_list.items) <= window_list.size

(* The windows drawn and the focus are alive, the background and the bar   *)
(* never get the focus, and the list has room for what it holds, whatever  *)
(* sequence of keys opened and closed windows.                             *)
WindowsSound == TypeOK /\ ListedAreLive /\ FocusIsNormal
=============================================================================
