------------------------------- MODULE Chip8 -------------------------------
(***************************************************************************)
(* The chip8 emulator (kernel/chip8/emulator.c).  The command chip8 runs   *)
(* it inside the handler of the keyboard interrupt, with interrupts off    *)
(* and without end, so nothing runs beside it: it is modelled as a         *)
(* function from the program to the machines it passes through.            *)
(*                                                                         *)
(* The stack is only counted, since every node holds the same pointer,     *)
(* &emulator.pc, which stack_pop gives back to nobody.  `lit' is the set   *)
(* of the red words of the framebuffer.  An access outside ram or          *)
(* vregisters makes the machine "wild": the neighbouring fields of the     *)
(* structure are hit, and nothing is claimed from then on.                 *)
(***************************************************************************)
EXTENDS Integers, Sequences, SequencesExt, FiniteSetsExt, TLC, Bitwise, Graphics

CONSTANTS
  RAM,            \* bytes of memory, 4096 in the code
  START,          \* where a program is loaded, 0x200
  SPEED,          \* instructions in a frame, 10
  MAX_NODES,      \* nodes of the stack that the heap has room for
  FrameBuffer     \* what fb_get_info returns

ASSUME Chip8Assumption ==
  /\ RAM \in Nat /\ START \in 0 .. RAM - 1 /\ SPEED \in Nat \ {0} /\ MAX_NODES \in Nat
  /\ FrameBuffer.width >= 64 /\ FrameBuffer.height >= 32 /\ FrameBuffer.pitch >= FrameBuffer.width

CHIP8_SCREEN_WIDTH == 64
CHIP8_SCREEN_HEIGHT == 32
WORD == 2 ^ 16

Emulator == [ram |-> [a \in 0 .. RAM - 1 |-> 0], vregisters |-> [r \in 0 .. 15 |-> 0],
             i |-> 0, delay_timer |-> 0, pc |-> 0, stack |-> 0, lit |-> {}, fate |-> "running"]

\* The keys of the keyboard in the layout of the hexadecimal keypad.
chip8_keyboard_handler(key, c) ==
  LET keypad == ("1" :> 1) @@ ("2" :> 2) @@ ("3" :> 3) @@ ("4" :> 12) @@
                ("q" :> 4) @@ ("w" :> 5) @@ ("e" :> 6) @@ ("r" :> 13) @@
                ("a" :> 7) @@ ("s" :> 8) @@ ("d" :> 8) @@ ("f" :> 14) @@
                ("z" :> 10) @@ ("x" :> 0) @@ ("c" :> 11) @@ ("v" :> 15)
  IN  IF c \in DOMAIN keypad THEN keypad[c] ELSE key

-----------------------------------------------------------------------------
(* The screen.                                                             *)

\* The words of a cell, whose coordinates are bytes.  Nothing clips them.
write_chip8_pixel(fb, x, y) ==
  UNION {draw_pixel(fb, ((x % 256) * fb.width) \div CHIP8_SCREEN_WIDTH + xtemp,
                        ((y % 256) * fb.height) \div CHIP8_SCREEN_HEIGHT + ytemp) :
           xtemp \in 0 .. fb.width \div CHIP8_SCREEN_WIDTH - 1,
           ytemp \in 0 .. fb.height \div CHIP8_SCREEN_HEIGHT - 1}

\* The cells of `display', which setup clears and no instruction writes.
chip8_update_framebuffer(e) ==
  [e EXCEPT !.lit = @ \ UNION {write_chip8_pixel(FrameBuffer, x, y) :
                                 x \in 0 .. CHIP8_SCREEN_WIDTH - 1,
                                 y \in 0 .. CHIP8_SCREEN_HEIGHT - 1}]

-----------------------------------------------------------------------------
(* The instructions.  e is the emulator with pc already advanced, x and y  *)
(* are the registers an instruction names, kk its second byte.             *)

Overrun(e) == [e EXCEPT !.fate = "wild"]

SetV(e, r, byte) == [e EXCEPT !.vregisters[r] = byte]

SkipIf(e, condition) == [e EXCEPT !.pc = (IF condition THEN @ + 2 ELSE @) % WORD]

\* 8xy4: the sum is cut to a byte before it could set the carry.
AddV(e, x, y) ==
  SetV(SetV(e, 15, 0), x, (e.vregisters[x] + e.vregisters[y]) % 256)

\* 8xy5: VF is written first, and may be one of the operands.
Flag(e, x, y) == SetV(e, 15, IF e.vregisters[x] > e.vregisters[y] THEN 1 ELSE 0)
Difference(e, x, y) == SetV(e, x, (e.vregisters[x] - e.vregisters[y]) % 256)


Subtract(e, x, y) == Difference(Flag(SetV(e, 15, 0), x, y), x, y)

ShiftRight(e, x) == SetV(e, x, e.vregisters[x] \div 2)

Arithmetic(e, x, y, n) ==
  CASE n = 0 -> SetV(e, x, e.vregisters[y])
    [] n = 1 -> SetV(e, x, e.vregisters[x] | e.vregisters[y])
    [] n = 2 -> SetV(e, x, e.vregisters[x] & e.vregisters[y])
    [] n = 3 -> SetV(e, x, e.vregisters[x] ^^ e.vregisters[y])
    [] n = 4 -> AddV(e, x, y)
    [] n = 5 -> Subtract(e, x, y)
    [] n = 6 -> ShiftRight(SetV(e, 15, e.vregisters[x] % 2), x)
    [] OTHER -> e

\* Dxyn: the lit bits of n bytes from i on, over what is already drawn.
DrawSprite(e, x, y, n) ==
  IF e.i + n > RAM THEN Overrun(e)
  ELSE [e EXCEPT !.lit = @ \cup UNION
          {write_chip8_pixel(FrameBuffer, e.vregisters[x] + p[1], e.vregisters[y] + p[2]) :
             p \in {q \in (0 .. 7) \X (0 .. n - 1) :
                      (e.ram[e.i + q[2]] \div 2 ^ (7 - q[1])) % 2 = 1}}]

\* Fx55 and Fx65 count to the VALUE of Vx, which Fx65 may load meanwhile.
StoreV(e, x) ==
  IF e.vregisters[x] > 15 \/ e.i + e.vregisters[x] >= RAM THEN Overrun(e)
  ELSE [e EXCEPT !.ram = [a \in DOMAIN @ |->
          IF a - e.i \in 0 .. e.vregisters[x] THEN e.vregisters[a - e.i] ELSE @[a]]]

RECURSIVE LoadV(_, _, _)
LoadV(e, x, k) ==
  IF k > e.vregisters[x] THEN e
  ELSE IF k > 15 \/ e.i + k >= RAM THEN Overrun(e)
  ELSE LoadV(SetV(e, k, e.ram[e.i + k]), x, k + 1)

Miscellaneous(e, x, kk) ==
  CASE kk = 7  -> SetV(e, x, e.delay_timer % 256)
    [] kk = 21 -> [e EXCEPT !.delay_timer = e.vregisters[x]]
    [] kk = 30 -> [e EXCEPT !.i = (@ + e.vregisters[x]) % WORD]
    [] kk = 41 -> [e EXCEPT !.i = e.vregisters[x] * 5]
    [] kk = 85 -> StoreV(e, x)
    [] kk = 101 -> LoadV(e, x, 0)
    [] OTHER -> e

\* 00EE takes a node off the stack and leaves pc where it is.
System(e, kk) ==
  CASE kk = 224 -> [e EXCEPT !.lit = @ \ fill_screen(FrameBuffer)]
    [] kk = 238 -> [e EXCEPT !.stack = IF @ = 0 THEN 0 ELSE @ - 1]
    [] OTHER -> e

Subroutine(e, nnn) ==
  IF e.stack = MAX_NODES THEN [e EXCEPT !.fate = "aborted"]
  ELSE [e EXCEPT !.stack = @ + 1, !.pc = nnn]

chip8_execute_instruction(e, byte1, byte2, random) ==
  LET op == byte1 \div 16
      x == byte1 % 16
      y == byte2 \div 16
      nnn == (x * 256 + byte2) % RAM
  IN  CASE op = 0 -> System(e, byte2)
        [] op = 1 -> [e EXCEPT !.pc = nnn]
        [] op = 2 -> Subroutine(e, nnn)
        [] op = 3 -> SkipIf(e, e.vregisters[x] = byte2)
        [] op = 4 -> SkipIf(e, e.vregisters[x] # byte2)
        [] op = 5 -> SkipIf(e, e.vregisters[x] = e.vregisters[y])
        [] op = 6 -> SetV(e, x, byte2)
        [] op = 7 -> SetV(e, x, (e.vregisters[x] + byte2) % 256)
        [] op = 8 -> Arithmetic(e, x, y, byte2 % 16)
        [] op = 9 -> SkipIf(e, e.vregisters[x] # e.vregisters[y])
        [] op = 10 -> [e EXCEPT !.i = nnn]
        [] op = 11 -> [e EXCEPT !.pc = nnn + e.vregisters[0]]
        [] op = 12 -> SetV(e, x, random & byte2)
        [] op = 13 -> DrawSprite(SetV(e, 15, 0), x, y, byte2 % 16)
        [] op = 15 -> Miscellaneous(e, x, byte2)
        [] OTHER -> e

\* One round of the loop of chip8_cycle.
Round(e, random) ==
  IF e.fate # "running" THEN e
  ELSE IF e.pc + 1 >= RAM THEN Overrun(e)
  ELSE chip8_execute_instruction([e EXCEPT !.pc = (@ + 2) % WORD], e.ram[e.pc], e.ram[e.pc + 1], random)

\* The machines of a frame, from the first on.
MachinesOfFrame(e, random) ==
  FoldLeft(LAMBDA t, k : Append(t, Round(Last(t), random)), <<e>>, [k \in 1 .. SPEED |-> k])

chip8_update_timers(e) ==
  [e EXCEPT !.delay_timer = IF @ > 0 THEN @ - 1 ELSE @]

\* The end of chip8_cycle.  It returns 0, so chip8_mainloop leaves its loop
\* after one frame, and setup_chip8_emulator starts the program again.
EndOfCycle(e) ==
  IF e.fate # "running" THEN e
  ELSE [chip8_update_framebuffer(chip8_update_timers(e)) EXCEPT !.pc = START]

chip8_load_program_into_ram(e, buf) ==
  [e EXCEPT !.ram = [a \in DOMAIN @ |->
      IF a - START \in 0 .. Len(buf) - 1 THEN buf[a - START + 1] ELSE @[a]]]

\* n frames of the loop without end.  The length of a file that was not
\* found is read, through the null pointer, before that is noticed, and the
\* emulator goes on: it may hold anything.
NotFound == [found |-> FALSE]
setup_chip8_emulator(file, random, n) ==
  LET ready == IF ~file.found \/ START + Len(file.rom) > RAM THEN Overrun(Emulator)
               ELSE chip8_load_program_into_ram([Emulator EXCEPT !.pc = START], file.rom)
  IN  FoldLeft(LAMBDA f, k : Append(f, MachinesOfFrame(EndOfCycle(Last(Last(f))), random)),
               <<MachinesOfFrame(ready, random)>>, [k \in 1 .. n - 1 |-> k])

-----------------------------------------------------------------------------
(* What an instruction should do to the machine m, told by its bits, by    *)
(* equations and by what it leaves alone; n is the machine after it.       *)

Bits == 0 .. 7
Bit(b, k) == (b \div 2 ^ k) % 2

\* The word of every pixel of the screen whose cell P holds for.
Words64x32(fb, P(_, _)) ==
  {pixel_offset(fb, p[1], p[2]) :
     p \in {q \in (0 .. fb.width - 1) \X (0 .. fb.height - 1) :
              P(q[1] \div (fb.width \div 64), q[2] \div (fb.height \div 32))}}

\* Not claimed, since the code does otherwise: that 00EE continues behind
\* the call, the carry of 8xy4, the flag of 8xy5 if it is an operand or the
\* operands are equal, that a sprite is mixed with what is drawn and its
\* flag, and Fx55 and Fx65 when Vx is not x.
Obeyed(m, n, random) ==
  LET b == m.ram[m.pc]
      kk == m.ram[m.pc + 1]
      op == b \div 16
      x == b % 16
      y == kk \div 16
      k == kk % 16
      nnn == (x * 256 + kk) % RAM
      v == m.vregisters
      w == n.vregisters
      F(z) == op = 15 /\ kk = z
      A(z) == op = 8 /\ k = z
      changed == (IF op \in {6, 7, 12} \/ F(7) \/ \E z \in 0 .. 6 : A(z) THEN {x} ELSE {})
                 \cup (IF op = 13 \/ \E z \in 4 .. 6 : A(z) THEN {15} ELSE {})
                 \cup (IF F(101) THEN 0 .. (IF v[x] = x /\ m.ram[m.i + x] <= x THEN x ELSE 15) ELSE {})
      skips == CASE op = 3 -> v[x] = kk [] op = 4 -> v[x] # kk
                 [] op = 5 -> v[x] = v[y] [] op = 9 -> v[x] # v[y] [] OTHER -> FALSE
      sprite(cx, cy) == /\ cx - v[x] \in Bits /\ cy - v[y] \in 0 .. k - 1
                        /\ Bit(m.ram[m.i + cy - v[y]], 7 - (cx - v[x])) = 1
  IN  /\ \A r \in (0 .. 15) \ changed : w[r] = v[r]
      /\ op = 10 \/ F(30) \/ F(41) \/ n.i = m.i
      /\ F(21) \/ n.delay_timer = m.delay_timer
      /\ F(85) \/ n.ram = m.ram
      /\ op = 13 \/ (op = 0 /\ kk = 224) \/ n.lit = m.lit
      /\ IF op \in {1, 2} THEN n.pc = nnn
         ELSE IF op = 11 THEN n.pc = nnn + v[0]
         ELSE n.pc = m.pc + (IF skips THEN 4 ELSE 2)
      /\ op = 7 => (w[x] - v[x] - kk) % 256 = 0
      /\ op = 12 => \A j \in Bits : Bit(w[x], j) = Bit(random, j) * Bit(kk, j)
      /\ A(1) => \A j \in Bits : Bit(w[x], j) = 1 <=> 1 \in {Bit(v[x], j), Bit(v[y], j)}
      /\ A(2) => \A j \in Bits : Bit(w[x], j) = 1 <=> 0 \notin {Bit(v[x], j), Bit(v[y], j)}
      /\ A(3) => \A j \in Bits : Bit(w[x], j) = 1 <=> Bit(v[x], j) # Bit(v[y], j)
      /\ A(4) => (w[x] - v[x] - v[y]) % 256 = 0
      /\ A(5) /\ 15 \notin {x, y} => /\ (w[x] - v[x] + v[y]) % 256 = 0
                                     /\ v[x] > v[y] => w[15] = 1
                                     /\ v[x] < v[y] => w[15] = 0
      /\ A(6) /\ x # 15 => 2 * w[x] + w[15] = v[x]
      /\ F(85) /\ v[x] = x =>
           n.ram = [a \in DOMAIN m.ram |-> IF a \in m.i .. m.i + x THEN v[a - m.i] ELSE m.ram[a]]
      /\ F(101) /\ v[x] = x => \A r \in 0 .. x : w[r] = m.ram[m.i + r]
      /\ op = 0 /\ kk = 224 => n.lit = m.lit \ Words64x32(FrameBuffer, LAMBDA cx, cy : TRUE)
      /\ op = 13 /\ v[x] + 7 < 64 /\ v[y] + k <= 32 /\ 15 \notin {x, y} =>
           n.lit = m.lit \cup Words64x32(FrameBuffer, sprite)

\* A frame after another: the program begins again where the last left it.
FrameFollows(m, n) ==
  /\ n.pc = START
  /\ n.delay_timer \in Nat /\ n.delay_timer >= m.delay_timer - 1
  /\ m.delay_timer > 0 => n.delay_timer < m.delay_timer
  /\ <<n.ram, n.vregisters, n.i, n.stack>> = <<m.ram, m.vregisters, m.i, m.stack>>

\* The keys of the left of the keyboard and those of the keypad lie alike;
\* `d' is left out, the code gives it the key beside it.
KeypadExact(key, c, now) ==
  LET keyboard == <<"1","2","3","4", "q","w","e","r", "a","s","d","f", "z","x","c","v">>
      keypad   == << 1,  2,  3,  12,  4,  5,  6,  13,  7,  8,  9,  14,  10, 0,  11, 15>>
  IN  IF \E j \in 1 .. 16 : keyboard[j] = c
      THEN c # "d" => \E j \in 1 .. 16 : keyboard[j] = c /\ keypad[j] = now
      ELSE now = key
=============================================================================
