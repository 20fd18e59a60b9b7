------------------------------ MODULE Terminal ------------------------------
(***************************************************************************)
(* The terminal on the framebuffer (arch/i386/tty_framebuffer.c), the ANSI *)
(* sequences (kernel/tools/ansi.c) and the coloured messages               *)
(* (libc/stdio/modes.c), in the build without GUI.                         *)
(*                                                                         *)
(* Two writers share it: kernel_main, which puts its messages one          *)
(* character after the other with interrupts on, and the handler of the    *)
(* keyboard, which can run between any two steps of kernel_main and shows  *)
(* a key, deletes a character or runs a command without being interrupted. *)
(* kernel_main reads the cursor anew for every pixel of a glyph: it draws  *)
(* the upper part and the lower part, and a key may come in between.       *)
(* Positions are counted in characters: 8 pixels across, 12 down (that a   *)
(* glyph is 16 pixels high, and reaches into the line below, is left out). *)
(* A glyph is drawn over what is there, so a place holds a set of glyphs.  *)
(***************************************************************************)
EXTENDS Integers, Sequences, Text

CONSTANTS COLS, ROWS,     \* fb.width / 8, fb.height / 12
          Messages,       \* what kernel_main puts: set, reset and put items
          Outputs,        \* texts a command may put
          Letters,        \* characters of keys
          MAX_EARLY,      \* bound: keys pressed before kernel_main is done
          MAX_LATE        \* bound: keys pressed then, by the number of early ones

ESC == 27
Newline == 10
Space == 32
White == "white"          \* COLOR_WHITE
NoColor == "none"         \* the -1 of ansi_color_to_hex

VARIABLES tty,            \* row, column, color, old_color, escape state, screen
          line,           \* line_cli
          next,           \* kernel_main: the item it puts
          phase,          \* how far: "begin", "half" and "whole" of a glyph, "newline"
          loaded,         \* the column it has read to advance it
          pending,        \* what the handler has still to put
          entered,        \* it runs a command
          early, late,    \* keys pressed before and after kernel_main was done
          split,          \* history: the items of kernel_main a key fell into
          cut, deleted, clean   \* history, see the properties

main == <<next, phase, loaded>>
history == <<split, cut, deleted, clean>>
vars == <<tty, line, main, pending, entered, early, late, history>>

-----------------------------------------------------------------------------
(* ansi.c *)

ansi_color_to_hex(ansi_col) ==
  CASE ansi_col = 37 -> White
    [] ansi_col = 31 -> "red"
    [] ansi_col = 34 -> "blue"
    [] ansi_col = 32 -> "green"
    [] OTHER -> NoColor

(* Reads on to the first character that is not alphanumeric, over an 'm'   *)
(* too: the position after the number, the position itself if there is     *)
(* none, and the number, -1 if there is none.                              *)
NumberEnd(sequence, pos) == FirstFrom(sequence, pos, isalnum)

ansi_get_number(sequence, pos, end) ==
  IF end = pos THEN -1 ELSE atoi(SubSeq(sequence, pos + 1, end))

terminal_framebuffer_setcolor(t, col) == [t EXCEPT !.old_color = t.color, !.color = col]

(* Mutant: the colour is not put back.                                     *)
terminal_framebuffer_reset_colorKept(t) == t

terminal_framebuffer_reset_color(t) == [t EXCEPT !.color = t.old_color]

handle_ansi_sequence(t, sequence) ==
  LET start == IF At(sequence, 0) = 91 THEN 1 ELSE 0
      mode == NumberEnd(sequence, start)
      col == IF At(sequence, mode) = 59 THEN mode + 1 ELSE mode
      end == IF col = mode THEN mode ELSE NumberEnd(sequence, col)
      reset == At(sequence, end) = 109 /\ ansi_get_number(sequence, start, mode) = 0
      u == IF reset THEN terminal_framebuffer_reset_color(t) ELSE t
  IN  terminal_framebuffer_setcolor(u, ansi_color_to_hex(ansi_get_number(sequence, col, end)))

-----------------------------------------------------------------------------
(* tty_framebuffer.c *)

Blank == [p \in {} |-> {}]

(* The glyphs at a place.                                                  *)
Cell(t, p) == IF p \in DOMAIN t.screen THEN t.screen[p] ELSE {}

Draw(t, glyph) ==
  LET p == <<t.row, t.column>>
  IN  [t EXCEPT !.screen = [q \in DOMAIN t.screen \cup {p} |->
                              IF q = p THEN Cell(t, p) \cup {glyph} ELSE t.screen[q]]]

(* column += 8 from the value that was read; the end of a line wraps, and  *)
(* only there the bottom is looked at.                                     *)
Advance(t, col) ==
  IF col + 1 < COLS THEN [t EXCEPT !.column = col + 1]
  ELSE [t EXCEPT !.column = 0, !.row = IF t.row + 1 = ROWS THEN 0 ELSE t.row + 1]

(* Everything terminal_framebuffer_putc does with a character that is not  *)
(* drawn.  In a sequence only a space or a newline ends it.                *)
Controls(t, c) == c = ESC \/ t.esc \/ c = Newline
Control(t, c) ==
  IF c = ESC THEN [t EXCEPT !.esc = TRUE, !.buf = <<>>]
  ELSE IF t.esc /\ c \in {Space, Newline}
  THEN [handle_ansi_sequence(t, t.buf) EXCEPT !.esc = FALSE]
  ELSE IF t.esc THEN [t EXCEPT !.buf = append(t.buf, <<c>>)]
  ELSE [t EXCEPT !.row = t.row + 1, !.column = 0]

(* The whole function, as the handler runs it.                             *)
terminal_framebuffer_putc(t, c) ==
  IF Controls(t, c) THEN Control(t, c)
  ELSE Advance(Draw(t, [ch |-> c, color |-> t.color, part |-> "keys"]), t.column)

terminal_framebuffer_clear(t) == [t EXCEPT !.row = 0, !.column = 0, !.screen = Blank]

(* Mutant: the glyph stays.                                                *)
terminal_framebuffer_delete_characterShown(t) == [t EXCEPT !.column = t.column - 1]

(* Blackens the place before the cursor, whatever is there.                *)
terminal_framebuffer_delete_character(t) ==
  LET p == <<t.row, t.column - 1>>
  IN  [t EXCEPT !.column = t.column - 1,
                !.screen = [q \in DOMAIN t.screen \ {p} |-> t.screen[q]]]

-----------------------------------------------------------------------------
Init ==
  /\ tty = [row |-> 0, column |-> 0, color |-> White, old_color |-> NoColor,
            esc |-> FALSE, buf |-> <<>>, screen |-> Blank]
  /\ line = <<>> /\ next = 1 /\ phase = "begin" /\ loaded = 0
  /\ pending = <<>> /\ entered = FALSE /\ early = 0 /\ late = 0
  /\ split = {} /\ cut = FALSE /\ deleted = FALSE /\ clean = FALSE

(* The handler is not interrupted.                                         *)
NoHandler == pending = <<>>

Idle == next > Len(Messages)
Item == Messages[next]
NextItem == next' = next + 1 /\ phase' = "begin" /\ loaded' = 0

(* alert, green: the colour before and after the text.                     *)
Colour ==
  /\ NoHandler /\ ~Idle /\ Item.op \in {"set", "reset"}
  /\ tty' = IF Item.op = "set" THEN terminal_framebuffer_setcolor(tty, Item.color)
            ELSE terminal_framebuffer_reset_color(tty)
  /\ NextItem
  /\ UNCHANGED <<line, pending, entered, early, late, history>>

(* The escape state and its buffer change in one step: a key that came     *)
(* between the two would be one pressed inside the sequence.               *)
PutControl ==
  /\ NoHandler /\ ~Idle /\ Item.op = "put" /\ phase = "begin" /\ Controls(tty, Item.ch)
  /\ IF Item.ch = Newline /\ ~tty.esc
     THEN /\ tty' = [tty EXCEPT !.row = @ + 1]
          /\ phase' = "newline" /\ UNCHANGED <<next, loaded>>
     ELSE tty' = Control(tty, Item.ch) /\ NextItem
  /\ UNCHANGED <<line, pending, entered, early, late, history>>

PutReturn ==
  /\ NoHandler /\ phase = "newline"
  /\ tty' = [tty EXCEPT !.column = 0]
  /\ NextItem
  /\ UNCHANGED <<line, pending, entered, early, late, history>>

Upper(i) == [ch |-> i.ch, color |-> i.color, part |-> "upper"]
Lower(i) == [ch |-> i.ch, color |-> i.color, part |-> "lower"]

(* The pixels of a glyph, row by row, each at the cursor as it is then.    *)
PutUpper ==
  /\ NoHandler /\ ~Idle /\ Item.op = "put" /\ phase = "begin" /\ ~Controls(tty, Item.ch)
  /\ tty' = Draw(tty, Upper([ch |-> Item.ch, color |-> tty.color]))
  /\ phase' = "half"
  /\ UNCHANGED <<line, next, loaded, pending, entered, early, late, history>>

PutLower ==
  /\ NoHandler /\ phase = "half"
  /\ tty' = Draw(tty, Lower([ch |-> Item.ch, color |-> tty.color]))
  /\ phase' = "whole" /\ loaded' = tty.column
  /\ UNCHANGED <<line, next, pending, entered, early, late, history>>

(* The column that is advanced is the one in memory, or the one loaded     *)
(* before a key moved it: both are code a compiler emits.                  *)
PutAdvance ==
  /\ NoHandler /\ phase = "whole"
  /\ \E col \in {loaded, tty.column} : tty' = Advance(tty, col)
  /\ NextItem
  /\ UNCHANGED <<line, pending, entered, early, late, history>>

(* The rest of the cursor's line is empty: it is not when the bottom line  *)
(* was full and the text goes on over the first one.                       *)
NothingAhead(t) == \A q \in DOMAIN t.screen : q[1] = t.row => q[2] < t.column

Pressed ==
  /\ NoHandler
  /\ IF Idle THEN late < MAX_LATE[early] /\ late' = late + 1 /\ UNCHANGED early
     ELSE early < MAX_EARLY /\ early' = early + 1 /\ UNCHANGED late
  /\ cut' = (cut \/ tty.esc)
  /\ split' = IF phase = "half" THEN split \cup {next} ELSE split
  /\ UNCHANGED main

(* terminal_framebuffer_keypress: a key without a character has 0, which   *)
(* ends the string where it already ends and is drawn.                     *)
KeyPress ==
  /\ Pressed
  /\ \E c \in Letters \cup {0} :
       /\ line' = IF c = 0 THEN line ELSE append(line, <<c>>)
       /\ pending' = <<c>>
       /\ clean' = (clean /\ c # 0)
  /\ UNCHANGED <<tty, entered, deleted>>

(* On an empty line the byte before line_cli becomes 0.                    *)
KeyDelete ==
  /\ Pressed
  /\ tty' = terminal_framebuffer_delete_character(tty)
  /\ line' = IF line = <<>> THEN line ELSE SubSeq(line, 1, Len(line) - 1)
  /\ deleted' = TRUE
  /\ clean' = (clean /\ line # <<>>)
  /\ UNCHANGED <<pending, entered>>

(* launch_command_framebuffer with its output, empty_line_cli_framebuffer, *)
(* the prompt.                                                             *)
KeyEnter ==
  /\ Pressed
  /\ \/ \E text \in Outputs :
          /\ pending' = text \o <<Newline, 62, Space>>
          /\ UNCHANGED <<tty, deleted>>
     \/ /\ pending' = <<Newline, 62, Space>>
        /\ tty' = terminal_framebuffer_clear(tty)
        /\ deleted' = TRUE
  /\ line' = <<>> /\ entered' = TRUE /\ clean' = FALSE

(* The next character of the handler's text.                               *)
HandlerPut ==
  /\ pending # <<>>
  /\ tty' = terminal_framebuffer_putc(tty, Head(pending))
  /\ pending' = Tail(pending)
  /\ entered' = (entered /\ pending' # <<>>)
  /\ clean' = IF entered THEN pending' = <<>> /\ Idle /\ NothingAhead(tty')
              ELSE clean /\ tty'.row = tty.row
  /\ UNCHANGED <<line, main, early, late, split, cut, deleted>>

Next == Colour \/ PutControl \/ PutReturn \/ PutUpper \/ PutLower \/ PutAdvance
        \/ KeyPress \/ KeyDelete \/ KeyEnter \/ HandlerPut

Spec == Init /\ [][Next]_vars

-----------------------------------------------------------------------------
(* Once kernel_main is done, each of its characters that is not part of an *)
(* escape sequence is on the screen in the colour it was meant to have,    *)
(* whatever was typed in between: whole at one place, unless a key was     *)
(* pressed while its glyph was drawn, which may leave its parts at two     *)
(* places but loses none.  This holds as long as no key was pressed inside *)
(* a sequence (a space there ends it, a letter joins it), nothing was      *)
(* deleted or cleared, and the cursor is on the screen: newlines take it   *)
(* off for ever, a full line never does.                                   *)
MessagesShown ==
  Idle /\ NoHandler /\ ~cut /\ ~deleted /\ tty.row < ROWS =>
    \A i \in DOMAIN Messages :
      Messages[i].op = "put" /\ Messages[i].want # "hidden" =>
        LET glyph == [ch |-> Messages[i].ch, color |-> Messages[i].want]
            places == (0 .. ROWS - 1) \X (0 .. COLS - 1)
        IN  \E p, q \in places : /\ Upper(glyph) \in Cell(tty, p)
                                 /\ Lower(glyph) \in Cell(tty, q)
                                 /\ p = q \/ i \in split

(* The line that will be run is the line the user sees, while the cursor   *)
(* is on the screen: after a prompt, the places up to it show the          *)
(* characters of line_cli and nothing else, in order, and a deleted one is *)
(* gone, unless a key without character, a deletion past the start or the  *)
(* end of the screen line came in between.                                 *)
TypedIsShown ==
  clean /\ NoHandler /\ tty.row < ROWS =>
    /\ ~tty.esc /\ tty.column >= Len(line)
    /\ \A i \in DOMAIN line :
         LET shown == Cell(tty, <<tty.row, tty.column - Len(line) + i - 1>>)
         IN  shown # {} /\ \A g \in shown : g.ch = line[i] /\ g.part = "keys"
    /\ NothingAhead(tty)
=============================================================================
