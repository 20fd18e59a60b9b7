------------------------------ MODULE MCInput ------------------------------
(* Lines of up to three arguments.  Words of 7 and 24 characters bring the *)
(* sizes asked for to a multiple of eight, where one byte matters.  The    *)
(* long word makes a block that later commands find larger than they need; *)
(* as a command it finds none that is large enough, and takes the name of  *)
(* an earlier command for its argument.                                    *)
EXTENDS Input

CONSTANTS w1, w2, w3, bg, bar
MCWindows == {w1, w2, w3, bg, bar}
Symmetry == Permutations({w1, w2, w3})

MCWordLength == "beep----" :> 8 @@ "ls" :> 2 @@ "cat" :> 3 @@ "date" :> 4
                @@ "chip8" :> 5 @@ "x" :> 1 @@ "seven--" :> 7 @@ "twenty-four" :> 24
                @@ "x/" :> 2 @@ "seven--/" :> 8 @@ "twenty-four/" :> 25 @@ "junk" :> 3
MCKind == "beep----" :> "plain" @@ "ls" :> "ls" @@ "cat" :> "cat" @@ "date" :> "date"
          @@ "chip8" :> "chip8" @@ "twenty-four" :> "plain"
MCAsDirectory == "x" :> "x/" @@ "seven--" :> "seven--/" @@ "twenty-four" :> "twenty-four/"
MCLines == {<<>>, <<"beep----", "x", "x", "x">>,
            <<"ls">>, <<"ls", "seven--">>, <<"cat", "x">>, <<"date">>, <<"chip8">>,
            <<"twenty-four">>}

ASSUME LinesFit
=============================================================================
