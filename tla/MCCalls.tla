------------------------------ MODULE MCCalls ------------------------------
(* Instances of Calls.                                                     *)
EXTENDS Calls

MCNumbers == {0, 7, 10, -1, -42, 99999999, 100000000, -99999999, -100000000,
              999999999, 1000000000, 2147483647, -2147483647, INT_MIN}
MCPointers == {<<0, 0, 0, 0, 0, 0, 0, d>> : d \in 0 .. 15}
              \cup {<<d, 11, 0, e, 0, 10, 0, 15>> : d \in 0 .. 7, e \in 0 .. 15}
              \cup {<<0, 0, d, 0, 12, 0, 0, 10>> : d \in 0 .. 15}

Item(k, c, v) == [kind |-> k, code |-> c, value |-> v]
Items == {Item("char", 0, 97), Item("percent", 0, 0), Item("conv", 99, 0), Item("conv", 99, 66),
          Item("conv", 115, <<>>), Item("conv", 115, <<66, 67>>), Item("conv", 100, -12),
          Item("conv", 105, -99999999), Item("conv", 105, 1000000000), Item("conv", 120, 7),
          Item("conv", 120, 9999999), Item("conv", 120, -1000000),
          Item("conv", 112, <<0, 15, 0, 0, 0, 0, 11, 10>>), Item("conv", 112, <<8, 0, 0, 0, 0, 0, 0, 0>>),
          Item("conv", 108, 5)}
MCFormats == UNION {[1 .. n -> Items] : n \in 0 .. 3}

MCLogFormats == UNION {[1 .. n -> {Item("char", 0, 97), Item("conv", 100, 1), Item("conv", 105, 0)}] : n \in 0 .. 3}

MCStrings == UNION {[1 .. n -> {Slash, 97}] : n \in 0 .. 4} \cup [1 .. 3 -> {Slash, 97, 98}]

MCScreens == {[width |-> 6, height |-> 5, pitch |-> 6], [width |-> 5, height |-> 6, pitch |-> 8]}
MCLines == (0 .. 4) \X (0 .. 4) \X (0 .. 4) \X (0 .. 4)
MCBoxes == {b \in (0 .. 4) \X (0 .. 4) \X (1 .. 5) \X (1 .. 5) : b[1] + b[3] <= 5 /\ b[2] + b[4] <= 5}

MCOctets == UNION {[1 .. n -> {0, 63, 255}] : n \in 1 .. 5}
MCMoves == {m \in (1 .. 6) \X (1 .. 6) \X (0 .. 5) : m[1] + m[3] <= 7 /\ m[2] + m[3] <= 7}
MCOps == UNION {[1 .. n -> ({"append", "remove"} \X {"a", "b"}) \cup ({"remove_index"} \X {0, 1})] :
                  n \in 0 .. 4}
MCMountLists == UNION {[1 .. n -> {<<p, f>> : p \in {<<Slash>>, <<97, Slash>>, <<98, Slash, 97, Slash>>,
                                                  <<98, Slash, 97, Slash, 97, Slash>>, <<98, Slash>>,
                                                  <<98, Slash, 97, Slash, 98, Slash>>},
                                           f \in {"ram", "dev"}}] : n \in 0 .. 2}
MCFrameSizes == 1 .. 5

Section(t, o, s, a) == [type |-> t, offset |-> o, size |-> s, alloc |-> a,
                        info |-> 0, link |-> 0, rels |-> <<>>]
Relocations(i, r) == [type |-> "REL", offset |-> 60, size |-> 8, alloc |-> FALSE,
                      info |-> i, link |-> 5, rels |-> r]
Symbol(x, v, w) == [shndx |-> x, value |-> v, weak |-> w]
(* Symbols: none, text, bss, undefined, weak, data; 6 is out of range, 9   *)
(* more than the index holds.                                              *)
Symbols == <<Symbol(UNDEF, 0, FALSE), Symbol(1, 3, FALSE), Symbol(2, 2, FALSE),
             Symbol(UNDEF, 0, FALSE), Symbol(UNDEF, 0, TRUE), Symbol(6, 1, FALSE)>>
RelEntries == [offset : {0, 5}, sym : {0, 1, 2, 3, 4, 5, 6, 9}, kind : {"NONE", "32", "PC32", "GOT32"}]
RelLists == {r \in {<<>>} \cup {<<x>> : x \in RelEntries} \cup (RelEntries \X RelEntries) :
               Len(r) = 2 => /\ r[1].offset = 0 /\ r[2].offset = 5
                             /\ r[1].sym \in {1, 2, 3} /\ r[1].kind # "GOT32"}
Files(h) == {[header |-> h, symbols |-> Symbols, entry |-> 100,
              sections |-> <<Section("NULL", 0, 0, FALSE), Section("PROGBITS", 20, 10, TRUE),
                             Section("NOBITS", 30, 8, TRUE), Section("NOBITS", 30, 4, b),
                             Relocations(i, r), Section("SYMTAB", 40, 6, FALSE),
                             Section("PROGBITS", 50, 4, TRUE)>>] :
                b \in BOOLEAN, i \in {1, 2}, r \in RelLists}
MCModules == Files(GoodHeader)
             \cup {[f EXCEPT !.header = h] : f \in {CHOOSE f \in Files(GoodHeader) : TRUE},
                     h \in {[GoodHeader EXCEPT !.mag = "bad"], [GoodHeader EXCEPT !.class = 64],
                            [GoodHeader EXCEPT !.type = "EXEC"], [GoodHeader EXCEPT !.machine = 62]}}
MCArguments == UNION {[1 .. n -> 0 .. 5] : n \in 0 .. 3}
MCTexts == UNION {[1 .. n -> {97, 10, 9, 27, 91}] : n \in 0 .. 5}
MCChips ==
  [what : {"gdt"}, tss : [hi : {0, 1, 15, 16, 3072, 4095}, lo : {0, 4096, 65535, 65536, 2 ^ 20 - 104, 2 ^ 20 - 4}]]
  \cup [what : {"idt"}, entry : [high : {0, 16, 49168}, low : {0, 16, 65100, 65535}]]
  \cup [what : {"pit"}, frequency : {1, 18, 19, 20, 100, 1000, 30000, INTERNAL_FREQ - 1, INTERNAL_FREQ},
        hz : {1, 18, 19, 440, 1000, 20000}]
  \cup {[what |-> "pci", class |-> k, data |-> [a \in {0, 8, 16, 32, 36, 60} |-> IF a = 8 THEN c ELSE IF a = 0 THEN v ELSE x]] :
           k \in {<<0, 0>>, <<1, 1>>, <<1, 6>>, <<6, 1>>}, c \in {0, 1, 6, 255}, v \in {0, 134, 255}, x \in {0, 240}}
  \cup [what : {"ahci"}, pi : 0 .. 15,
        ports : [1 .. 3 -> {[det |-> 0, ipm |-> 0, sig |-> "SATA"], [det |-> 3, ipm |-> 1, sig |-> "SATA"],
                            [det |-> 3, ipm |-> 1, sig |-> "SATAPI"], [det |-> 3, ipm |-> 2, sig |-> "PM"]}]]
  \cup [what : {"cpuid"}, vendor : {"intel", "amd", "other"}, max : 0 .. 8, word : {0, 1}, eax : {0, 1664, 3895, 329443, 67044}]

BootTag(type, size) == [type |-> type, size |-> size]
BootTagsOf == {BootTag(7, 17), BootTag(7, 24)}
              \cup [type : {TAG_MODULE}, size : {20, 23}, cmdline : {"initrd", "module"}, id : 1 .. 2, files : {<<>>, <<3, 8>>}]
              \cup [type : {TAG_FB}, size : {38}, width : {5}, height : {4}, pitch : {6, 8}]
MCTagLists == {Append(l, BootTag(TAG_END, 8)) : l \in UNION {[1 .. n -> BootTagsOf] : n \in 0 .. 2}}
MCNodes == [null : {FALSE}, read : {None, "read"}, write : {None}, open : {None, "open"}, close : {None, "close"},
            finddir : {None, "finddir"}, get_file_size : {None}, flags : {1, 2, 10}, mode : {0, 1}]
Ended(n, s) == {f \in [0 .. n -> s \cup {0}] : f[n] = 0}
MCDirectories == {d \in Ended(5, {47, 97}) : \A i \in 0 .. 4 : d[i] = 0 => d[i + 1] = 0}
MCStale == Ended(5, {47, 98})

(* Programs: two registers are set and i, then each instruction, then one  *)
(* that uses what it left; and programs that overrun the memory.           *)
Instructions ==
  { <<0, 224>>, <<0, 238>>, <<16, 14>>, <<32, 10>>, <<49, 3>>, <<49, 4>>, <<66, 3>>, <<66, 200>>,
    <<81, 32>>, <<80, 32>>, <<97, 3>>, <<114, 128>>, <<129, 32>>, <<129, 33>>, <<129, 34>>,
    <<129, 35>>, <<130, 20>>, <<129, 37>>, <<130, 21>>, <<129, 38>>, <<130, 22>>, <<145, 32>>,
    <<129, 245>>, <<143, 22>>, <<160, 9>>, <<176, 8>>, <<194, 201>>, <<208, 18>>, <<209, 35>>,
    <<241, 7>>, <<241, 21>>, <<241, 30>>, <<241, 41>>, <<241, 85>>, <<241, 101>>, <<224, 0>>,
    <<240, 85>>, <<240, 101>>, <<242, 85>>, <<242, 101>> }
Seconds == { <<0, 238>>, <<32, 10>>, <<114, 128>>, <<208, 18>>, <<129, 37>>, <<241, 101>>, <<0, 224>> }
MCRoms ==
  {NotFound} \cup [found : {TRUE}, rom :
     { <<97, a, 98, b, 160, 9>> \o c \o d : a \in {1, 3}, b \in {2, 200}, c \in Instructions, d \in Seconds }
     \cup { <<97, 20, 241, 85>>, <<97, 255, 241, 101>>, [k \in 1 .. 30 |-> 0],
            <<96, 30, 176, 30>>, <<160, 30, 208, 15>>, <<32, 8>> }]
MCPressed == {"1", "2", "3", "4", "q", "w", "e", "r", "a", "s", "d", "f", "z", "x", "c", "v", "p"}
MCFrameBuffer == [width |-> 128, height |-> 32, pitch |-> 130]
MCBitmaps == SUBSET (0 .. Words * WORD_BITS - 1)
=============================================================================
