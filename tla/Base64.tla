------------------------------- MODULE Base64 -------------------------------
(***************************************************************************)
(* kernel/tools/base64.c.  Bytes and characters are numbers; kmalloc       *)
(* returns a block.                                                        *)
(***************************************************************************)
EXTENDS Integers, Sequences

Pad == 61    \* '='

encoding_table(i) ==
  CASE i < 26 -> 65 + i
    [] i \in 26 .. 51 -> 97 + i - 26
    [] i \in 52 .. 61 -> 48 + i - 52
    [] i = 62 -> 43
    [] i = 63 -> 47

(* 0 for the characters outside the alphabet.                              *)
decoding_table(c) ==
  CASE c \in 65 .. 90 -> c - 65
    [] c \in 97 .. 122 -> 26 + c - 97
    [] c \in 48 .. 57 -> 52 + c - 48
    [] c = 43 -> 62
    [] c = 47 -> 63
    [] OTHER -> 0

(* Mutant: the paddings of one and of two missing octets are swapped.      *)
mod_tableSwapped(n) == <<0, 1, 2>>[n + 1]

mod_table(n) == <<0, 2, 1>>[n + 1]

(* The octets of the group that holds position k, 0 past the input.        *)
Triple(data, first) ==
  LET octet(i) == IF i <= Len(data) THEN data[i] ELSE 0
  IN  octet(first) * 65536 + octet(first + 1) * 256 + octet(first + 2)

base64_encode(data) ==
  LET n == 4 * ((Len(data) + 2) \div 3)
      sextet(j) == (Triple(data, 3 * ((j - 1) \div 4) + 1) \div 64 ^ (3 - ((j - 1) % 4))) % 64
  IN  [j \in 1 .. n |-> IF j > n - mod_table(Len(data) % 3) THEN Pad
                        ELSE encoding_table(sextet(j))]

(* For texts that are not empty: the last two characters are looked at     *)
(* before anything else.                                                   *)
base64_decode(text) ==
  LET n == (Len(text) \div 4) * 3
           - (IF text[Len(text)] = Pad THEN 1 ELSE 0)
           - (IF text[Len(text) - 1] = Pad THEN 1 ELSE 0)
      sextet(i) == IF text[i] = Pad THEN 0 ELSE decoding_table(text[i])
      triple(g) == sextet(4 * g + 1) * 262144 + sextet(4 * g + 2) * 4096
                   + sextet(4 * g + 3) * 64 + sextet(4 * g + 4)
  IN  IF Len(text) % 4 # 0 THEN <<>>
      ELSE [j \in 1 .. n |-> (triple((j - 1) \div 3) \div 256 ^ (2 - ((j - 1) % 3))) % 256]
=============================================================================
