------------------------------ MODULE VgaText ------------------------------
(***************************************************************************)
(* The terminal in VGA text mode (arch/i386/tty.c), as functions on its    *)
(* state [row, column, color, old, x, y, tick, keypress, buffer]: x and y  *)
(* are the cursor, `buffer` the words written since the last clear, with   *)
(* their index, and `past` those written behind the last line.             *)
(***************************************************************************)
EXTENDS Integers, Sequences, SequencesExt

CONSTANTS VGA_WIDTH, VGA_HEIGHT

update_cursor(t, x, y) == [t EXCEPT !.x = x, !.y = y]
get_cursor_position(t) == (t.y * VGA_WIDTH + t.x) % 65536
move_cursor_right(t) == update_cursor(t, t.x + 1, t.y)
move_cursor_left(t) == update_cursor(t, t.x - 1, t.y)
move_cursor_next_line(t) == update_cursor(t, 3, t.y + 1)
move_cursor_last_line(t) == update_cursor(t, 3, t.y - 1)

Grey == 7     \* vga_entry_color(VGA_COLOR_LIGHT_GREY, VGA_COLOR_BLACK)

terminal_clear(t) ==
  update_cursor([t EXCEPT !.row = 0, !.column = 0, !.color = Grey, !.buffer = <<>>,
                          !.tick = FALSE, !.keypress = FALSE], 3, 1)

terminal_initialize ==
  terminal_clear([row |-> 0, column |-> 0, color |-> 0, old |-> 0, x |-> 0, y |-> 0,
                  tick |-> TRUE, keypress |-> TRUE, buffer |-> <<>>, past |-> <<>>])

terminal_setcolor(t, color) == [t EXCEPT !.old = t.color, !.color = color]
terminal_setcolors(t, fg, bg) == [t EXCEPT !.old = t.color, !.color = fg + bg * 16]
terminal_reset_color(t) == [t EXCEPT !.color = t.old]

(* Below the last line the screen is cleared first (and the prompt goes to *)
(* the terminal on the framebuffer), but the word is still written where   *)
(* the line below would be.                                                *)
terminal_putentryat(t, c, color, x, y) ==
  IF y >= VGA_HEIGHT
  THEN [move_cursor_right(move_cursor_last_line(terminal_clear(t)))
          EXCEPT !.past = Append(t.past, <<y * VGA_WIDTH + x, c, color>>)]
  ELSE [t EXCEPT !.buffer = Append(t.buffer, <<y * VGA_WIDTH + x, c, color>>)]

(* ++terminal_column after the switch, after a newline too.                *)
NextColumn(t) ==
  IF t.column + 1 # VGA_WIDTH THEN [t EXCEPT !.column = t.column + 1]
  ELSE [t EXCEPT !.column = 0, !.row = IF t.row + 1 = VGA_HEIGHT THEN 0 ELSE t.row + 1]

Shows(t, c) == NextColumn(terminal_putentryat(t, c, t.color, t.column, t.row))

RECURSIVE terminal_write(_, _)

(* A tab is four spaces and then the glyph of the tab: there is no break.  *)
terminal_putchar(t, c) ==
  CASE c = 10 -> NextColumn(move_cursor_next_line([t EXCEPT !.row = t.row + 1, !.column = 0]))
    [] c = 9 -> Shows(terminal_write(t, <<32, 32, 32, 32>>), c)
    [] OTHER -> Shows(t, c)

(* ESC is dropped with the '[' after it; what follows is shown.  The set   *)
(* holds the one state before the rest is written.                         *)
terminal_write(t, data) ==
  IF data = <<>> THEN t
  ELSE IF Head(data) = 27
  THEN terminal_write(t, SubSeq(data, IF Len(data) > 1 /\ data[2] = 91 THEN 3 ELSE 2, Len(data)))
  ELSE CHOOSE r \in {terminal_write(u, Tail(data)) : u \in {terminal_putchar(t, Head(data))}} : TRUE

terminal_keypress_init(t, n) == VGA_WIDTH * t.row + n
terminal_tick_init(t, n) == VGA_WIDTH * t.row + n

-----------------------------------------------------------------------------
(* What is written lands in the buffer: the end of a line never takes the  *)
(* next character out of it, only newlines at the bottom do, and then the  *)
(* first character after them is the one that is lost behind the last      *)
(* line, with the screen cleared.                                          *)
StaysInBuffer(t, text) ==
  /\ t.column \in 0 .. VGA_WIDTH - 1
  /\ \A i \in DOMAIN t.buffer : t.buffer[i][1] < VGA_WIDTH * VGA_HEIGHT
  /\ \A i \in DOMAIN t.past : t.past[i][1] >= VGA_WIDTH * VGA_HEIGHT
  /\ t.row >= VGA_HEIGHT =>
       \E i \in DOMAIN text : text[i] = 10 /\ \A j \in i + 1 .. Len(text) : text[j] \in {27, 91}
  /\ t.past # <<>> => \E i \in 1 .. Len(text) - 1 : text[i] = 10
=============================================================================
