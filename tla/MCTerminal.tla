----------------------------- MODULE MCTerminal -----------------------------
(* Instances of Terminal.                                                  *)
EXTENDS Terminal

Set(c) == [op |-> "set", color |-> c]
Reset == [op |-> "reset"]
Put(c, want) == [op |-> "put", ch |-> c, want |-> want]
Hide(text) == [i \in DOMAIN text |-> Put(text[i], "hidden")]

(* A green "o", a white "s", a red "e", then the line in red between its   *)
(* escape sequences, and the prompt.                                       *)
MCMessages ==
  <<Set("green"), Put(111, "green"), Reset, Put(115, White), Put(Newline, "hidden"),
    Set("red"), Put(101, "red"), Reset>>
  \o Hide(<<ESC, 91, 49, 59, 51, 49, 109, Space>>) \o <<Put(104, "red"), Put(105, "red")>>
  \o Hide(<<ESC, 91, 48, 109, Space>>) \o <<Put(62, NoColor)>>
MCOutputs == {<<98, 99, 98, 99, 98>>}
MCLetters == {97, Space}
(* Long lines after an undisturbed start, short ones after a disturbed one. *)
MCLate == [n \in 0 .. MAX_EARLY |-> IF n = 0 THEN 6 ELSE 3 - n]
=============================================================================
