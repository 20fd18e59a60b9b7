------------------------------ MODULE Keyboard ------------------------------
(***************************************************************************)
(* The lights of the keyboard (switch_led and kbd_ack, keyboard.c), which  *)
(* kernel_main sets at the end of booting with interrupts on, against the  *)
(* handler of the keyboard, which reads the same port.  In the graphical   *)
(* build mouse_install ran before and may have left answers unread.        *)
(*                                                                         *)
(* The keyboard answers a byte before the next one is sent, as emulated    *)
(* ones do.  The controller puts one byte at a time into the port; a byte  *)
(* of the keyboard raises line 1, one of the mouse line 12 if that is      *)
(* enabled.  `pending' is a request of line 1; the handler is one step.    *)
(***************************************************************************)
EXTENDS Ps2

CONSTANTS
  Lights,         \* the arguments of the calls of switch_led
  MAX_KEYS        \* keys pressed meanwhile

\* kernel_main calls switch_led three times.
LightsGiven == Lights \in Seq(Int) /\ Lights # <<>>

VARIABLES
  leds_status,
  todo,           \* calls still to be made
  at,             \* "call", "ack", "data" in switch_led
  pending,
  keys            \* keys pressed so far

kvars == <<leds_status, todo, at, pending, keys>>
allvars == <<s, phase, leds_status, todo, at, pending, keys>>

KInit == PInit /\ leds_status = 0 /\ todo = Lights /\ at = "call" /\ pending = FALSE /\ keys = 0

\* Line 1 is raised when a byte of the keyboard comes to the front of `out'.
Raises(t) == t.out # <<>> /\ t.out[1].from = 0 /\ HasBit(t.config, 1)
Raised(before, after) ==
  pending' = (pending \/ (Raises(after) /\ (before.out = <<>> \/ Len(after.out) < Len(before.out))))

\* A bitwise "or" of numbers of three bits.
Or(a, b) == SetBit(SetBit(SetBit(0, 1), 2), 4) -
  (IF HasBit(a, 1) \/ HasBit(b, 1) THEN 0 ELSE 1) -
  (IF HasBit(a, 2) \/ HasBit(b, 2) THEN 0 ELSE 2) -
  (IF HasBit(a, 4) \/ HasBit(b, 4) THEN 0 ELSE 4)

\* The lights are taken off if all of them are on, and put on otherwise.
Switched(leds, led) ==
  CASE led = 0 -> 0
    [] led # 0 /\ leds = Or(leds, led) -> leds - led
    [] OTHER -> Or(leds, led)

Booted == phase \in {"mouse", "text"}

\* Mutant: the lights are sent without waiting for the acknowledgement.
switch_ledHasty ==
  /\ Booted /\ at = "call" /\ todo # <<>>
  /\ leds_status' = Switched(leds_status, Head(todo))
  /\ todo' = Tail(todo)
  /\ s' = Data(s, 237) /\ Raised(s, Data(s, 237))
  /\ at' = "call"
  /\ UNCHANGED <<phase, keys>>

switch_led ==
  /\ Booted /\ at = "call" /\ todo # <<>>
  /\ leds_status' = Switched(leds_status, Head(todo))
  /\ todo' = Tail(todo)
  /\ s' = Data(s, 237) /\ Raised(s, Data(s, 237))
  /\ at' = "ack"
  /\ UNCHANGED <<phase, keys>>

\* Mutant: only a byte that nobody read before is an acknowledgement.
kbd_ackFresh ==
  /\ Booted /\ at = "ack"
  /\ s' = inb(s) /\ Raised(s, inb(s))
  /\ at' = IF s.out # <<>> /\ inb(s).read = ACK THEN "data" ELSE "ack"
  /\ UNCHANGED <<phase, leds_status, todo, keys>>

\* One round of the loop: the port shows the last byte when there is no new one.
kbd_ack ==
  /\ Booted /\ at = "ack"
  /\ s' = inb(s) /\ Raised(s, inb(s))
  /\ at' = IF inb(s).read = ACK THEN "data" ELSE "ack"
  /\ UNCHANGED <<phase, leds_status, todo, keys>>

SendLights ==
  /\ Booted /\ at = "data"
  /\ s' = Data(s, leds_status) /\ Raised(s, Data(s, leds_status))
  /\ at' = "call"
  /\ UNCHANGED <<phase, leds_status, todo, keys>>

\* sys_key_handler reads the port; an acknowledgement looks like a key that
\* was let go and is dropped.
sys_key_handler ==
  /\ Booted /\ pending
  /\ s' = inb(s)
  /\ pending' = Raises(inb(s))
  /\ UNCHANGED <<phase, leds_status, todo, at, keys>>

KeyPress ==
  /\ Booted /\ keys < MAX_KEYS /\ s.machine.present[0]
  /\ keys' = keys + 1
  /\ s' = Answers(s, 0, <<30>>) /\ Raised(s, Answers(s, 0, <<30>>))
  /\ UNCHANGED <<phase, leds_status, todo, at>>

KNext == \/ PNext /\ UNCHANGED kvars
         \/ switch_led \/ kbd_ack \/ SendLights \/ sys_key_handler \/ KeyPress

\* kernel_main runs, and a pending interrupt is taken.
KSpec == /\ KInit /\ [][KNext]_allvars
         /\ WF_allvars(switch_led \/ kbd_ack \/ SendLights)
         /\ WF_allvars(sys_key_handler)

-----------------------------------------------------------------------------

Done == todo = <<>> /\ at = "call"

\* kbd_ack has no time-out, yet booting goes on as long as no key is pressed:
\* the acknowledgement stays in the port when the handler was first to read
\* it.  Without a keyboard there is nobody to acknowledge.
LightsEnd == (Booted /\ s.machine.present[0]) ~> (Done \/ keys > 0)

\* When the lights are done, the keyboard shows what leds_status says, and no
\* byte of the mouse, which nobody would fetch, keeps its bytes from the port.
KeyboardFree ==
  Booted /\ Done /\ keys = 0 /\ s.machine.present[0] =>
    s.lights = leds_status /\ (s.out = <<>> \/ s.out[1].from # 1)
=============================================================================
