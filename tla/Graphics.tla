------------------------------ MODULE Graphics ------------------------------
(***************************************************************************)
(* The drawing functions of arch/i386/graphics.c and the window copies of  *)
(* arch/i386/gui.c, each as the set of the framebuffer words it writes.    *)
(* A framebuffer is [width, height, pitch] with the pitch in words; a      *)
(* pixel is 32 bits, the depth init_fb supports.                           *)
(***************************************************************************)
EXTENDS Integers, FiniteSets

(* The word of a pixel.  Nothing clips: a column past the width is a       *)
(* column of the next line.                                                *)
pixel_offset(fb, x, y) == y * fb.pitch + x

draw_pixel(fb, x, y) == {pixel_offset(fb, x, y)}

(* The loop of draw_line_low and draw_line_high along the major axis, from *)
(* a0 to a1 (exclusive): the pairs (major, minor) it plots.  `b` is the    *)
(* minor coordinate, D the error term; both functions update D alike.      *)
RECURSIVE Bresenham(_, _, _, _, _, _, _)
Bresenham(a, a1, b, bi, da, db, D) ==
  IF a >= a1 THEN {}
  ELSE {<<a, b>>} \cup
       Bresenham(a + 1, a1, IF D > 0 THEN b + bi ELSE b, bi, da, db,
                 (IF D > 0 THEN D - 2 * da ELSE D) + 2 * db)

Magnitude(n) == IF n < 0 THEN -n ELSE n
Direction(n) == IF n < 0 THEN -1 ELSE 1

draw_line_low(fb, x0, y0, x1, y1) ==
  {pixel_offset(fb, p[1], p[2]) :
     p \in Bresenham(x0, x1, y0, Direction(y1 - y0), x1 - x0, Magnitude(y1 - y0),
                     2 * Magnitude(y1 - y0) - (x1 - x0))}

(* Mutant: x does not turn back when the line goes left.                   *)
draw_line_highRight(fb, x0, y0, x1, y1) ==
  {pixel_offset(fb, p[2], p[1]) :
     p \in Bresenham(y0, y1, x0, 1, y1 - y0, Magnitude(x1 - x0),
                     2 * Magnitude(x1 - x0) - (y1 - y0))}

draw_line_high(fb, x0, y0, x1, y1) ==
  {pixel_offset(fb, p[2], p[1]) :
     p \in Bresenham(y0, y1, x0, Direction(x1 - x0), y1 - y0, Magnitude(x1 - x0),
                     2 * Magnitude(x1 - x0) - (y1 - y0))}

Lower(a, b) == IF a > b THEN b ELSE a
Upper(a, b) == IF a > b THEN a ELSE b

(* Both ends are drawn, in either order.                                   *)
draw_line_horizontal(fb, x0, x1, y) ==
  {pixel_offset(fb, Lower(x0, x1), y) + i : i \in 0 .. Upper(x0, x1) - Lower(x0, x1)}

draw_line_vertical(fb, x, y0, y1) ==
  {pixel_offset(fb, x, Lower(y0, y1)) + i * fb.pitch : i \in 0 .. Upper(y0, y1) - Lower(y0, y1)}

(* A vertical line is drawn twice: only the horizontal case returns.       *)
draw_line(fb, x0, y0, x1, y1) ==
  IF y0 = y1 THEN draw_line_horizontal(fb, x0, x1, y0)
  ELSE (IF x0 = x1 THEN draw_line_vertical(fb, x0, y0, y1) ELSE {})
       \cup
       (IF Magnitude(y1 - y0) < Magnitude(x1 - x0)
        THEN IF x0 > x1 THEN draw_line_low(fb, x1, y1, x0, y0)
                        ELSE draw_line_low(fb, x0, y0, x1, y1)
        ELSE IF y0 > y1 THEN draw_line_high(fb, x1, y1, x0, y0)
                        ELSE draw_line_high(fb, x0, y0, x1, y1))

(* The words a glyph of the 8 x 16 font can touch: bit j is drawn at       *)
(* column x + 8 - j, that is in columns x + 1 .. x + 8.                    *)
draw_char(fb, x, y) ==
  UNION {draw_pixel(fb, x + 8 - j, y + i) : i \in 0 .. 15, j \in 0 .. 7}

(* Each pixel becomes a diagonal of `size_mult` pixels.                    *)
draw_char_size(fb, size_mult, x, y) ==
  UNION {draw_pixel(fb, (x + 8 - j) * size_mult + add, (y + i) * size_mult + add) :
           i \in 0 .. 15, j \in 0 .. 7, add \in 0 .. size_mult - 1}

draw_string(fb, len, x, y) == UNION {draw_char(fb, x + 8 * i, y) : i \in 0 .. len - 1}

draw_string_size(fb, size_mult, len, x, y) ==
  UNION {draw_char_size(fb, size_mult, x + 8 * i, y) : i \in 0 .. len - 1}

draw_rectangle(fb, x, y, w, h) ==
  {pixel_offset(fb, x, y) + i * fb.pitch + j : i \in 0 .. h - 1, j \in 0 .. w - 1}

draw_border(fb, x, y, w, h) ==
  draw_line_horizontal(fb, x, x + w - 1, y)
  \cup draw_line_horizontal(fb, x, x + w - 1, y + h - 1)
  \cup draw_line_vertical(fb, x, y, y + h - 1)
  \cup draw_line_vertical(fb, x + w - 1, y, y + h - 1)

fill_screen(fb) ==
  UNION {draw_pixel(fb, x, y) : x \in 0 .. fb.width - 1, y \in 0 .. fb.height - 1}

(* fill_window_place and the copy of render_window: the words of the       *)
(* screen under a window of size w x h placed at (x, y).                   *)
WindowPlace(fb, x, y, w, h) ==
  UNION {draw_pixel(fb, x + i, y + j) : i \in 0 .. w - 1, j \in 0 .. h - 1}

(* render_window: the copy, then the border unless NO_BORDER.              *)
render_window(fb, win) ==
  WindowPlace(fb, win.x, win.y, win.w, win.h)
  \cup (IF win.no_border THEN {} ELSE draw_border(fb, win.x, win.y, win.w, win.h))

(* draw_window works in the window's own buffer, but at (10, 10) and with  *)
(* the whole width and height.                                             *)
draw_window(fb, margin) ==
  draw_rectangle(fb, margin, margin, fb.width, fb.height)
  \cup draw_border(fb, margin, margin, fb.width, fb.height)
=============================================================================
