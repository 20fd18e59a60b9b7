-------------------------------- MODULE Text --------------------------------
(***************************************************************************)
(* The text functions of libc: numbers to text and back, formats, the      *)
(* string searches, the character classes.  A string is the sequence of    *)
(* the codes before its terminator, a pointer into it a 0-based offset,    *)
(* NULL is -1.                                                             *)
(***************************************************************************)
EXTENDS Integers, SequencesExt

NULL == -1

(* str[i], where the terminator is the 0 after the last character.         *)
At(str, i) == IF i < Len(str) THEN str[i + 1] ELSE 0

Zero == 48
Minus == 45
Percent == 37
Whitespace == {32, 9, 10, 12, 13, 11}

-----------------------------------------------------------------------------
(* Numbers to text.                                                        *)

(* append of every character of `t`: it begins where `str` ends.           *)
append(str, t) == str \o t

reverse(str) == Reverse(str)

Abs(n) == IF n < 0 THEN -n ELSE n

RECURSIVE LowDigitFirst(_)
LowDigitFirst(n) ==
  <<Zero + (n % 10)>> \o (IF n \div 10 > 0 THEN LowDigitFirst(n \div 10) ELSE <<>>)

(* The digits are decimal whatever the base is; base 16 only adds "0x",    *)
(* before the sign.  INT_MIN has no opposite: it stays negative and the    *)
(* loop ends after one character, '0' - 8.                                 *)
INT_MIN == -2147483647 - 1
int_to_ascii_base(n, base) ==
  reverse((IF n = INT_MIN THEN <<Zero - 8>> ELSE LowDigitFirst(Abs(n)))
          \o (IF n < 0 THEN <<Minus>> ELSE <<>>)
          \o (IF base = 16 THEN <<120, Zero>> ELSE <<>>))

int_to_ascii(n) == int_to_ascii_base(n, 10)

(* `p` is the pointer's eight nibbles, the highest first.  Above the       *)
(* lowest nibble the test is tmp > 0xA, so 0xA there becomes ':'.          *)
hex_to_ascii(p) ==
  LET zeros == Min({i \in 1 .. 7 : p[i] # 0} \cup {8})
      high(d) == IF d > 10 THEN 97 + d - 10 ELSE Zero + d
      low(d) == IF d >= 10 THEN 97 + d - 10 ELSE Zero + d
  IN  append(<<Zero, 120>>,
             [i \in 1 .. 8 - zeros |-> high(p[zeros + i - 1])] \o <<low(p[8])>>)

-----------------------------------------------------------------------------
(* Text to numbers.                                                        *)

DigitValue(c, base) ==
  IF c \in Zero .. 57 THEN c - Zero
  ELSE IF c \in 97 .. 122 THEN c - 97 + 10
  ELSE IF c \in 65 .. 90 THEN c - 65 + 10
  ELSE base

(* The end of a run: the first position from i on without P.               *)
FirstFrom(str, i, P(_)) == Min({j \in i .. Len(str) : ~P(At(str, j))})

(* White space, sign, "0x" before base 16, digits; base 0 picks the base   *)
(* by the prefix.  The value and the offset *endptr, which is 0 when there *)
(* is no digit.  The callers here keep to values that fit a long.          *)
strtol(str, base) ==
  LET w == FirstFrom(str, 0, LAMBDA c : c \in Whitespace)
      neg == At(str, w) = Minus
      s == IF At(str, w) \in {Minus, 43} THEN w + 1 ELSE w
      hex == At(str, s) = Zero /\ At(str, s + 1) \in {120, 88}
      b == IF base # 0 THEN base
           ELSE IF At(str, s) # Zero THEN 10 ELSE IF hex THEN 16 ELSE 8
      d == IF hex /\ base \in {0, 16} THEN s + 2 ELSE s
      e == FirstFrom(str, d, LAMBDA c : DigitValue(c, b) < b)
      n == FoldLeft(LAMBDA m, c : m * b + DigitValue(c, b), 0, SubSeq(str, d + 1, e))
  IN  IF base < 0 \/ base > 36 THEN [value |-> 0, end |-> 0]
      ELSE [value |-> IF neg THEN -n ELSE n, end |-> IF e = d THEN 0 ELSE e]

atoi(str) == strtol(str, 10).value

-----------------------------------------------------------------------------
(* Formats.  The text goes to `out`, the returned count is `written`: one  *)
(* for a number, whatever its length.  A number that does not fit its      *)
(* buffer overwrites what is next on the stack: from there on nothing is   *)
(* known, which `fits` records.                                            *)

Buffer10 == 10    \* char i2[10] of each number conversion

Conversion(c, v) ==
  CASE c = 99 -> <<v>>                            \* c
    [] c = 115 -> v                               \* s
    [] c \in {100, 105} -> int_to_ascii(v)        \* d, i
    [] c = 120 -> int_to_ascii_base(v, 16)        \* x
    [] c = 112 -> hex_to_ascii(v)                 \* p

Conversions == {99, 115, 100, 105, 120, 112}
fits(c, v) == c \in {99, 115} \/ Len(Conversion(c, v)) + 1 <= Buffer10

RECURSIVE vfprintf(_, _)
(* The chunks handed to fprint, each with what it adds to `written`.       *)
vfprintf(format, args) ==
  IF format = <<>> THEN <<>>
  ELSE IF At(format, 0) # Percent \/ At(format, 1) = Percent
  THEN LET f == IF At(format, 0) = Percent THEN Tail(format) ELSE format
           amount == FirstFrom(f, 1, LAMBDA c : c # 0 /\ c # Percent)
       IN  <<[text |-> SubSeq(f, 1, amount), count |-> amount, fits |-> TRUE]>>
           \o vfprintf(SubSeq(f, amount + 1, Len(f)), args)
  ELSE IF At(format, 1) \in Conversions
  THEN LET t == Conversion(At(format, 1), Head(args))
       IN  <<[text |-> t, count |-> IF At(format, 1) = 115 THEN Len(t) ELSE 1,
              fits |-> fits(At(format, 1), Head(args))]>>
           \o vfprintf(SubSeq(format, 3, Len(format)), Tail(args))
  ELSE <<[text |-> format, count |-> Len(format), fits |-> TRUE]>>

Written(chunks) == FoldLeft(LAMBDA n, k : n + k.count, 0, chunks)
AllFit(chunks) == \A k \in Range(chunks) : k.fits

(* fprint: fputchar of every character.                                    *)
fprint(out, text) == out \o text

printf(format, args) ==
  LET chunks == vfprintf(format, args)
  IN  [out |-> FoldLeft(LAMBDA o, k : fprint(o, k.text), <<>>, chunks),
       written |-> Written(chunks), fits |-> AllFit(chunks)]

(* Mutant: the buffer's text is overwritten.                               *)
sprintfFromStart(string, format, args) == printf(format, args)

(* The loop of vfprintf again, with append for fprint: it begins where the *)
(* text of the buffer ends, and appending a 0 leaves the buffer as it was. *)
sprintf(string, format, args) ==
  LET chunks == vfprintf(format, args)
  IN  [out |-> FoldLeft(LAMBDA o, k : append(o, SelectSeq(k.text, LAMBDA c : c # 0)),
                        string, chunks),
       written |-> Written(chunks), fits |-> AllFit(chunks)]

LOG_SCREEN == 0
LOG_SERIAL == 1
LOG_ALL == 3

(* "[ OK ] " in green, then the message.                                   *)
OkMark == <<91, 32, 79, 75, 32, 93, 32>>
vok_printing_boot(format, args) == OkMark \o printf(format, args).out

(* ok_printing_boot is variadic and is handed the va_list: the first       *)
(* argument it takes is that pointer, the next ones what is behind it.     *)
log(level, ok, format, args, behind) ==
  LET screen == IF ok THEN vok_printing_boot(format, behind) ELSE printf(format, args).out
  IN  CASE level = LOG_SCREEN -> [screen |-> screen, serial |-> <<>>]
        [] level = LOG_SERIAL -> [screen |-> <<>>, serial |-> printf(format, args).out]
        [] level = LOG_ALL -> [screen |-> screen, serial |-> printf(format, args).out]
        [] OTHER -> [screen |-> "unknown log level", serial |-> <<>>]

-----------------------------------------------------------------------------
(* div and ldiv: C's quotient goes towards zero; then a negative one with  *)
(* a positive remainder is raised once more.                               *)
div(num, denom) ==
  LET sign == IF (num < 0) # (denom < 0) THEN -1 ELSE 1
      quot == sign * (Abs(num) \div Abs(denom))
      rem == num - denom * quot
  IN  IF quot < 0 /\ 0 < rem THEN [quot |-> quot + 1, rem |-> rem - denom]
      ELSE [quot |-> quot, rem |-> rem]

-----------------------------------------------------------------------------
(* Searches and comparisons.                                               *)

(* The differing pair where strcmp stops.                                  *)
strcmp(s1, s2) ==
  LET i == Min({j \in 0 .. Len(s1) : At(s1, j) = 0 \/ At(s1, j) # At(s2, j)})
  IN  At(s1, i) - At(s2, i)

strncmp(s1, s2, n) ==
  LET stop == {j \in 0 .. Len(s1) : At(s1, j) = 0 \/ At(s1, j) # At(s2, j)} \cap 0 .. n - 1
  IN  IF stop = {} THEN 0 ELSE At(s1, Min(stop)) - At(s2, Min(stop))

memcmp(a, b, size) ==
  LET stop == {j \in 1 .. size : a[j] # b[j]}
  IN  IF stop = {} THEN 0 ELSE IF a[Min(stop)] < b[Min(stop)] THEN -1 ELSE 1

strchr(str, c) ==
  LET hits == {i \in 0 .. Len(str) : At(str, i) = c}
  IN  IF hits = {} THEN NULL ELSE Min(hits)

(* The inner loop's j: how far str2 matches at i.                          *)
Matched(str1, str2, i) ==
  Min({j \in 0 .. Len(str2) : j = Len(str2) \/ i + j >= Len(str1) \/ At(str1, i + j) # At(str2, j)})

strstr(str1, str2) ==
  LET hits == {i \in 0 .. Len(str1) - 1 : Matched(str1, str2, i) = Len(str2)}
  IN  IF hits = {} THEN NULL ELSE Min(hits)

(* `line` is read past its terminator when it is the shorter one: what is  *)
(* there is unknown, but the terminator itself has already differed.       *)
startswith(str, line) == \A i \in 0 .. Len(str) - 1 : At(str, i) = At(line, i)

(* The copy of memmove inside one memory, from the end that is not yet    *)
(* overwritten.                                                            *)
memmove(mem, dst, src, size) ==
  FoldLeft(LAMBDA m, i : [m EXCEPT ![dst + i] = m[src + i]], mem,
           IF dst < src THEN [k \in 1 .. size |-> k - 1]
                        ELSE [k \in 1 .. size |-> size - k])

strcat(dest, src) == dest \o src

(* At most num characters; the terminator goes after them, at dst[num].    *)
strncpy(src, num) == SubSeq(src, 1, IF num < Len(src) THEN num ELSE Len(src))

(* One call of strtok_r: the token and what *save_this points to then, as  *)
(* sequences of one string, or of none for NULL.  A text without delimiter *)
(* is no token on the first call, and *save_this keeps its value `save`.   *)
strtok_r(text, d, save, first) ==
  LET cut == FirstFrom(text, 0, LAMBDA c : c # 0 /\ c # d)
  IN  IF At(text, cut) = d
      THEN [token |-> <<SubSeq(text, 1, cut)>>, save |-> <<SubSeq(text, cut + 2, Len(text))>>]
      ELSE IF first THEN [token |-> <<>>, save |-> save]
      ELSE [token |-> <<text>>, save |-> <<>>]

RECURSIVE NextTokens(_, _)
NextTokens(save, d) ==
  IF save = <<>> THEN <<>>
  ELSE LET r == strtok_r(Head(save), d, save, FALSE)
       IN  r.token \o NextTokens(r.save, d)

(* The loop of the callers: a call with the text, then calls with NULL.    *)
Tokens(text, d) ==
  LET r == strtok_r(text, d, <<>>, TRUE)
  IN  r.token \o NextTokens(r.save, d)

-----------------------------------------------------------------------------
(* Character classes: _ctype has no entry for EOF, and the macros look at  *)
(* _ctype + 1.                                                             *)

ctype(c) ==
  CASE c \in 48 .. 57 -> {"digit", "xdigit"}
    [] c \in 65 .. 70 -> {"upper", "xdigit"}
    [] c \in 71 .. 90 -> {"upper"}
    [] c \in 97 .. 102 -> {"lower", "xdigit"}
    [] c \in 103 .. 122 -> {"lower"}
    [] c \in 9 .. 13 -> {"space", "cntrl"}
    [] c \in 0 .. 31 \cup {127} -> {"cntrl"}
    [] c = 32 -> {"space", "blank"}
    [] c \in 128 .. 255 -> {}
    [] OTHER -> {"punct"}

isalnum(c) == ctype(c + 1) \cap {"upper", "lower", "digit"} # {}
=============================================================================
