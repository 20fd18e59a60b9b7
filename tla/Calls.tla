-------------------------------- MODULE Calls --------------------------------
(***************************************************************************)
(* The pure functions of the kernel and of libc, one call per behaviour:   *)
(* Init chooses the function and its arguments, Call computes what it      *)
(* returns or leaves in memory.  The properties compare that with a        *)
(* definition that says what the result should be and not how it is found. *)
(***************************************************************************)
EXTENDS Integers, FiniteSets, FileCalls, Graphics, Base64, Containers, PmmScan, Elf, Programs,
        VgaText, Hardware, Boot, Chip8

CONSTANTS Numbers,      \* integers that are printed and read back
          Pointers,     \* addresses, as eight nibbles
          Formats,      \* sequences of format items
          LogFormats,   \* formats of numbers only
          Strings,      \* strings that are searched and split
          Screens,      \* framebuffers
          Lines,        \* <<x0, y0, x1, y1>>
          Boxes,        \* <<x, y, w, h>>
          Octets,       \* contents of files that are encoded
          Moves,        \* <<dst, src, size>> of memmove
          Ops,          \* sequences of list operations
          MountLists,   \* sequences of <<path, file system>>
          Bitmaps, FrameSizes,
          Modules,      \* ELF files
          Arguments,    \* sequences of lengths of program arguments
          Texts,        \* sequences of characters for the VGA terminal
          Chips,        \* inputs of the functions of Hardware
          TagLists,     \* sequences of boot tags
          Nodes,        \* file nodes
          Roms,         \* what chip8 may find, as [found, rom]
          RandomBytes,  \* what rand() % 256 may give
          Pressed,      \* keys while chip8 runs
          Directories, Stale   \* the arrays `directory` and `temp` of cd

VARIABLES input, output, done

vars == <<input, output, done>>

-----------------------------------------------------------------------------
(* A format item is a literal character, the escaped percent sign, or a    *)
(* conversion with its argument; the format string is made of them.        *)
ItemText(t) == IF t.kind = "char" THEN <<t.value>>
               ELSE IF t.kind = "percent" THEN <<Percent, Percent>>
               ELSE <<Percent, t.code>>
FormatOf(items) == FlattenSeq([i \in DOMAIN items |-> ItemText(items[i])])
ArgsOf(items) == LET c == SelectSeq(items, LAMBDA t : t.kind = "conv")
                 IN  [i \in DOMAIN c |-> c[i].value]

(* One list operation on the list and its meaning on a sequence.           *)
Apply(l, op) ==
  CASE op[1] = "append" -> list_append(op[2], l)
    [] op[1] = "remove" -> list_remove(op[2], l)
    [] op[1] = "remove_index" -> list_remove_index(op[2], l)
Means(s, op) ==
  CASE op[1] = "append" -> Append(s, op[2])
    [] op[1] = "remove" -> SelectSeq(s, LAMBDA e : e # op[2])
    [] op[1] = "remove_index" ->
         IF op[2] < Len(s) THEN SubSeq(s, 1, op[2]) \o SubSeq(s, op[2] + 2, Len(s)) ELSE s

Init ==
  /\ done = FALSE /\ output = <<>>
  /\ \/ \E n \in Numbers : input = [what |-> "number", n |-> n]
     \/ \E p \in Pointers : input = [what |-> "pointer", p |-> p]
     \/ \E f \in Formats, b \in {<<>>, <<65>>} : input = [what |-> "format", items |-> f, buffer |-> b]
     \/ \E s, t \in Strings : input = [what |-> "strings", s |-> s, t |-> t]
     \/ \E l \in 0 .. 4, ok \in BOOLEAN, f \in LogFormats, n \in -1 .. 1 :
          input = [what |-> "log", level |-> l, ok |-> ok, items |-> f, behind |-> n]
     \/ \E n \in -7 .. 7, d \in (-3 .. 3) \ {0} : input = [what |-> "div", num |-> n, denom |-> d]
     \/ \E fb \in Screens, l \in Lines : input = [what |-> "line", fb |-> fb, l |-> l]
     \/ \E fb \in Screens, b \in Boxes : input = [what |-> "box", fb |-> fb, b |-> b]
     \/ \E d \in Octets : input = [what |-> "base64", data |-> d]
     \/ \E m \in Moves : input = [what |-> "memmove", m |-> m]
     \/ \E o \in Ops : input = [what |-> "list", ops |-> o]
     \/ \E m \in MountLists, p \in Strings : input = [what |-> "mount", mounts |-> m, path |-> p]
     \/ \E b \in Bitmaps, n \in FrameSizes : input = [what |-> "scan", bitmap |-> b, size |-> n]
     \/ \E f \in Modules : input = [what |-> "elf", f |-> f]
     \/ \E a \in Arguments : input = [what |-> "stack", lens |-> a]
     \/ \E e \in 0 .. 7, d \in 0 .. 4 : input = [what |-> "task", eax |-> e, fd |-> d]
     \/ \E t \in Texts : input = [what |-> "vga", text |-> t]
     \/ \E c \in Chips : input = c
     \/ \E l \in TagLists, a \in {8, 12} : input = [what |-> "boot", tags |-> l, addr |-> a]
     \/ \E n \in Nodes, f \in 0 .. 2 : input = [what |-> "node", node |-> n, flags |-> f]
     \/ \E f \in Roms, r \in RandomBytes : input = [what |-> "chip8", file |-> f, random |-> r]
     \/ \E k \in 0 .. 15, p \in Pressed : input = [what |-> "key", key |-> k, c |-> p]
     \/ \E d \in Directories, g \in Stale : input = [what |-> "cd", directory |-> d, temp |-> g]

Memory == [a \in 1 .. 6 |-> 10 * a]
Top == 4096
Before == [eax |-> 1, ebx |-> 2, ecx |-> 3, edx |-> 4, esi |-> 5, edi |-> 6, ebp |-> 7,
           esp |-> 800, eip |-> 9, eflags |-> 10, cr3 |-> 11]
Image0 == [a \in 0 .. 200 |-> (a % 7) + 1]

Result ==
  CASE input.what = "number" -> int_to_ascii(input.n)
    [] input.what = "pointer" -> hex_to_ascii(input.p)
    [] input.what = "format" ->
         <<printf(FormatOf(input.items), ArgsOf(input.items)),
           sprintf(input.buffer, FormatOf(input.items), ArgsOf(input.items))>>
    [] input.what = "strings" -> <<strstr(input.s, input.t), strcmp(input.s, input.t),
                                   Tokens(input.s, Slash), startswith(input.t, input.s)>>
    [] input.what = "log" ->
         log(input.level, input.ok, FormatOf(input.items), ArgsOf(input.items),
             [i \in DOMAIN ArgsOf(input.items) |-> input.behind])
    [] input.what = "div" -> div(input.num, input.denom)
    [] input.what = "line" ->
         draw_line(input.fb, input.l[1], input.l[2], input.l[3], input.l[4])
    [] input.what = "box" ->
         <<draw_rectangle(input.fb, input.b[1], input.b[2], input.b[3], input.b[4]),
           draw_border(input.fb, input.b[1], input.b[2], input.b[3], input.b[4])>>
    [] input.what = "base64" -> base64_encode(input.data)
    [] input.what = "memmove" -> memmove(Memory, input.m[1], input.m[2], input.m[3])
    [] input.what = "list" -> FoldLeft(Apply, list_create, input.ops)
    [] input.what = "mount" ->
         FoldLeft(LAMBDA t, m : vfs_mount(t, m[1], m[2]), vfs_tree_init, input.mounts)
    [] input.what = "scan" -> ScanFrames(input.bitmap, input.size, 0, 0, 0, 0)
    [] input.what = "elf" -> elf_load_file(input.f, Image0, 150)
    [] input.what = "stack" -> UserStack(Top, input.lens)
    [] input.what = "task" ->
         <<test_switch_task(initTasking(Before, 77, 2000), 500,
                            [Before EXCEPT !.eax = input.eax, !.ebp = input.fd, !.esp = 6000]),
           syscall_handler(input.eax, input.fd, <<65, 66>>, 2)>>
    [] input.what = "vga" -> terminal_write(terminal_initialize, input.text)
    [] input.what = "gdt" -> gdt_initialize(input.tss)
    [] input.what = "idt" -> idt_initialize(input.entry)
    [] input.what = "pit" -> pit_init(init_speaker(PowerOn), input.frequency)
    [] input.what = "pci" -> <<ahci_init(input.data)>>
    [] input.what = "ahci" -> port_probe(input.pi, input.ports, 0)
    [] input.what = "cpuid" -> detect_cpu(input.vendor, input.max, input.word, input.eax)
    [] input.what = "boot" -> kernel_main(LaidOut(input.tags, input.addr), input.addr)
    [] input.what = "node" -> open_fs(input.node, input.flags)
    [] input.what = "chip8" -> setup_chip8_emulator(input.file, input.random, 2)
    [] input.what = "key" -> chip8_keyboard_handler(input.key, input.c)
    [] input.what = "cd" -> cd_up(input.directory, input.temp)

Call == ~done /\ done' = TRUE /\ output' = Result /\ UNCHANGED input

Next == Call

Spec == Init /\ [][Next]_vars

-----------------------------------------------------------------------------
Value(p) == FoldLeft(LAMBDA n, d : 16 * n + d, 0, p)

(* What a number should look like, from its size and its positions.        *)
Numeral(d) == IF d < 10 THEN 48 + d ELSE 87 + d
Digits(n, base, places) ==
  LET k == IF n = 0 THEN 1 ELSE Cardinality({j \in 0 .. places : base ^ j <= n})
  IN  [i \in 1 .. k |-> Numeral((n \div base ^ (k - i)) % base)]
Decimal(n) == (IF n < 0 THEN <<45>> ELSE <<>>) \o Digits(Abs(n), 10, 9)
Hex(n) == <<48, 120>> \o Digits(n, 16, 7)
Address(p) ==
  <<48, 120>> \o LET i == Min({j \in 1 .. 8 : p[j] # 0} \cup {8})
                 IN  [j \in 1 .. 9 - i |-> Numeral(p[i + j - 1])]
Meant(t) ==
  CASE t.kind = "percent" -> <<37>>
    [] t.kind = "char" \/ t.code = 99 -> <<t.value>>
    [] t.code = 115 -> t.value
    [] t.code \in {100, 105} -> Decimal(t.value)
    [] t.code = 120 -> Hex(t.value)
    [] t.code = 112 -> Address(t.value)

(* The numbers whose text fits the ten bytes, and those shown as meant: %x *)
(* shows decimal digits, %p a colon for a ten above the lowest digit.      *)
InBuffer(t) ==
  \/ t.kind # "conv" \/ t.code \in {99, 115}
  \/ t.code \in {100, 105} /\ t.value \in -99999999 .. 999999999
  \/ t.code = 120 /\ t.value \in -999999 .. 9999999
  \/ t.code = 112 /\ t.value[1] = 0
AsMeant(t) ==
  /\ InBuffer(t)
  /\ t.kind = "conv" /\ t.code = 120 => t.value \in 0 .. 9
  /\ t.kind = "conv" /\ t.code = 112 => \A i \in 1 .. 7 : t.value[i] # 10
OneEach(t) == t.kind = "conv" /\ t.code # 115 => Len(Meant(t)) = 1

NumberExact ==
  /\ input.n # INT_MIN => output = Decimal(input.n) /\ atoi(output) = input.n
  /\ input.n \in -99999999 .. 999999999 => Len(output) + 1 <= Buffer10

PointerExact ==
  (\A i \in 1 .. 7 : input.p[i] # 10) =>
    /\ output = Address(input.p)
    /\ strtol(output, 16) = [value |-> Value(input.p), end |-> Len(output)]

FormatExact ==
  LET items == input.items
      unknown == {i \in DOMAIN items : items[i].kind = "conv" /\ items[i].code \notin Conversions}
      n == Min(unknown \cup {Len(items) + 1})
      all(P(_)) == \A i \in 1 .. n - 1 : P(items[i])
      text == FlattenSeq([i \in 1 .. n - 1 |-> Meant(items[i])])
              \o FormatOf(SubSeq(items, n, Len(items)))
  IN  /\ output[1].written = output[2].written
      /\ all(InBuffer) => output[1].fits /\ output[2].fits
      /\ all(AsMeant) => /\ output[1].out = text
                         /\ output[2].out = input.buffer \o SelectSeq(text, LAMBDA c : c # 0)
                         /\ all(OneEach) => output[1].written = Len(text)

StringsExact ==
  LET hits == {i \in 0 .. Len(input.s) - 1 : IsPrefixOf(input.t, SubSeq(input.s, i + 1, Len(input.s)))}
  IN  /\ output[1] = IF hits = {} THEN NULL ELSE Min(hits)
      /\ output[2] = 0 <=> input.s = input.t
      /\ output[2] < 0 <=> strcmp(input.t, input.s) > 0
      /\ output[4] <=> IsPrefixOf(input.t, input.s)
      /\ \A n \in 0 .. 4 : /\ strncmp(input.s, input.t, n) = 0
                              <=> strncpy(input.s, n) = strncpy(input.t, n)
                          /\ startswith(strncpy(input.s, n), input.s)
      /\ input.t # <<>> => strstr(strcat(input.s, input.t), input.t) \in 0 .. Len(input.s)
      /\ strchr(input.s, Slash) = strstr(input.s, <<Slash>>)
      /\ Len(input.s) = Len(input.t) =>
           (memcmp(input.s, input.t, Len(input.s)) < 0 <=> strcmp(input.s, input.t) < 0)
      /\ (\E i \in DOMAIN input.s : input.s[i] = Slash) =>
           /\ \A k \in DOMAIN output[3] : \A i \in DOMAIN output[3][k] : output[3][k][i] # Slash
           /\ Tail(FlattenSeq([k \in DOMAIN output[3] |-> <<Slash>> \o output[3][k]])) = input.s

LogExact ==
  /\ input.level = LOG_ALL /\ (input.ok => ArgsOf(input.items) = <<>>)
     => output.screen = (IF input.ok THEN OkMark ELSE <<>>) \o output.serial
  /\ input.level \in {LOG_SERIAL, LOG_ALL}
     => output.serial = FlattenSeq([i \in DOMAIN input.items |-> Meant(input.items[i])])

DivExact ==
  /\ output.quot * input.denom + output.rem = input.num
  /\ input.denom > 0 \/ input.num <= -input.denom
     => Abs(output.rem) < Abs(input.denom)

(* Numbers, formats and strings come out as meant.  An integer is printed  *)
(* with the digits it has and reads back as itself, INT_MIN apart; so is a *)
(* pointer unless a digit above the lowest is ten.  printf and sprintf     *)
(* show the items of a format in order, whatever runs of characters and    *)
(* percent signs are between them, up to the first unknown conversion,     *)
(* from where the format is shown raw.  The ten bytes of each conversion   *)
(* hold every number below 10^9 and above -10^8, as %x those below 10^7    *)
(* and above -10^6, as %p the pointers of seven digits; %x is hexadecimal  *)
(* for one digit only, and the count returned is that of the characters if *)
(* each number has one.  Searches find the first match, and the tokens of  *)
(* strtok_r joined again are the text, if it has a delimiter.              *)
(* A message logged to all has the same text on both, with the mark        *)
(* of OK before it on the screen, when it has no arguments or no mark; the *)
(* remainder of div is smaller than the divisor, unless that is negative   *)
(* and the number larger than its opposite.  (libc/stdio, libc/string,     *)
(* libc/stdlib, modes.c, log.c)                                            *)
TextExact ==
  done => /\ input.what = "number" => NumberExact
          /\ input.what = "pointer" => PointerExact
          /\ input.what = "format" => FormatExact
          /\ input.what = "strings" => StringsExact
          /\ input.what = "log" => LogExact
          /\ input.what = "div" => DivExact

-----------------------------------------------------------------------------
X(fb, w) == w % fb.pitch
Y(fb, w) == w \div fb.pitch

(* A line that is not horizontal: `u` is the major axis.                   *)
LineExact ==
  LET fb == input.fb
      flat == Magnitude(input.l[4] - input.l[2]) < Magnitude(input.l[3] - input.l[1])
      u(w) == IF flat THEN X(fb, w) ELSE Y(fb, w)
      v(w) == IF flat THEN Y(fb, w) ELSE X(fb, w)
      u0 == IF flat THEN input.l[1] ELSE input.l[2]
      u1 == IF flat THEN input.l[3] ELSE input.l[4]
      v0 == IF flat THEN input.l[2] ELSE input.l[1]
      v1 == IF flat THEN input.l[4] ELSE input.l[3]
      last == IF u0 = u1 THEN u0
              ELSE IF v0 = v1 THEN Upper(u0, u1) ELSE Upper(u0, u1) - 1
  IN  /\ {u(w) : w \in output} = Lower(u0, u1) .. last
      /\ \A w \in output :
           Magnitude(2 * ((v(w) - v0) * (u1 - u0) - (v1 - v0) * (u(w) - u0))) <= Magnitude(u1 - u0)
      /\ \A w, x \in output : u(w) = u(x) => w = x

BoxExact ==
  LET fb == input.fb
      b == input.b
      inside(w, m) == /\ X(fb, w) \in b[1] + m .. b[1] + b[3] - 1 - m
                      /\ Y(fb, w) \in b[2] + m .. b[2] + b[4] - 1 - m
      all == {w \in 0 .. fb.pitch * fb.height - 1 : inside(w, 0)}
  IN  /\ output[1] = all
      /\ output[2] = {w \in all : ~inside(w, 1)}
      /\ render_window(fb, [x |-> b[1], y |-> b[2], w |-> b[3], h |-> b[4], no_border |-> FALSE]) = all
      /\ fill_screen(fb) = {w \in 0 .. fb.pitch * fb.height - 1 : X(fb, w) < fb.width}
      /\ draw_window(fb, b[1]) \subseteq 0 .. fb.pitch * fb.height - 1 <=> b[1] = 0

(* A string of two characters at b in a buffer that holds it.              *)
StringDrawn ==
  LET fb == [width |-> 48, height |-> 44, pitch |-> 48]
      x == input.b[1]
      y == input.b[2]
  IN  /\ draw_string(fb, 2, x, y) = {w \in 0 .. 48 * 44 - 1 : X(fb, w) \in x + 1 .. x + 16 /\ Y(fb, w) \in y .. y + 15}
      /\ draw_string_size(fb, 1, 2, x, y) = draw_string(fb, 2, x, y)
      /\ draw_char_size(fb, 2, x, y) \cap draw_char_size(fb, 2, x + 8, y) = {}
      /\ Cardinality(draw_char_size(fb, 2, x, y)) = 2 * Cardinality(draw_char(fb, x, y))

(* What is drawn is what was asked for, word by word of a framebuffer      *)
(* whose lines may be longer than its width.  A line has one pixel for     *)
(* every step of its longer axis, never more than half a pixel off the     *)
(* ideal line and in whichever direction it is drawn; a sloped line misses *)
(* its far end, a straight one has both.  A border is the edge of the      *)
(* rectangle of the same arguments, also when it is one pixel wide or      *)
(* high, a rendered window covers its own place and nothing else, and      *)
(* fill_screen leaves the padding alone.  The characters of a string lie   *)
(* side by side, one column right of where they are asked for, at twice    *)
(* the size with half of their pixels; draw_window draws outside of its    *)
(* buffer, since its frame has a margin and the whole size.  In VGA text   *)
(* mode what is written stays in the buffer: see StaysInBuffer.            *)
(* (graphics.c, gui.c, tty.c)                                              *)
PixelsExact ==
  done => /\ input.what = "line" => LineExact
          /\ input.what = "box" => BoxExact
          /\ input.what = "box" /\ input.b[3] = 1 /\ input.b[4] = 1 => StringDrawn
          /\ input.what = "vga" => StaysInBuffer(output, input.text)

-----------------------------------------------------------------------------
ListExact ==
  LET s == FoldLeft(Means, <<>>, input.ops)
  IN  /\ output.used = Len(s)
      /\ output.used <= output.size
      /\ \A i \in 1 .. Len(s) : output.data[i - 1] = s[i]
      /\ \A e \in Range(s) : list_find(e, output) = e
      /\ list_is_empty(output) <=> s = <<>>
      /\ \A i \in 1 .. Len(s) : list_find_at(i - 1, list_clear(output)) = NIL
      /\ LET popped == stack_pop(FoldLeft(stack_push, <<>>, s))
         IN  popped = IF s = <<>> THEN create_pair(NIL, <<>>)
                      ELSE create_pair(Last(s), Reverse(Front(s)))

(* Bytes survive their containers: decoding what base64_encode wrote gives *)
(* the file back, with one, two or no octets missing in its last group;    *)
(* memmove copies overlapping blocks in either direction; a list holds     *)
(* what a sequence would after the same appends and removals, and never    *)
(* uses more items than its block has.  (base64.c, memmove.c, list.c)      *)
BytesExact ==
  done => /\ input.what = "base64" => base64_decode(output) = input.data
          /\ input.what = "memmove" =>
               output = [a \in DOMAIN Memory |->
                           IF a \in input.m[1] .. input.m[1] + input.m[3] - 1
                           THEN Memory[a - input.m[1] + input.m[2]] ELSE Memory[a]]
          /\ input.what = "list" => ListExact

(* The loop of mmap_find_free_frame returns what BitmapSearch says, for    *)
(* every bitmap: also when a run crosses a word boundary, fills the words  *)
(* to the last bit, or starts at bit 0, which `first` cannot tell from     *)
(* "none".  (pmm.c)                                                        *)
FrameSearchCorrect ==
  done /\ input.what = "scan" =>
    output = mmap_find_free_frame(input.bitmap, Words * WORD_BITS, input.size)


(* What the machine gets from the kernel, and the kernel from the boot     *)
(* loader, means what was intended, on the inputs the predicates of        *)
(* Hardware name: the tables and the interrupt frame, the timer and the    *)
(* tone, the bus, the ports of a SATA controller, the name of the          *)
(* processor.  From the boot tags the kernel takes what is in them (see    *)
(* Booted), and nothing from an unaligned address.                         *)
(* (descriptor_tables.c and .S, tss.c, pit.c, speaker.c, pci.c, ahci.c,    *)
(* cpuid.c, kernel.c, multiboot2.c, fb.c)                                  *)
MachineExact ==
  done => /\ input.what = "gdt" => SegmentsExact(output, input.tss)
          /\ input.what = "idt" => InterruptsExact(output, input.entry)
          /\ input.what = "pit" => TimersExact(output, input.frequency, input.hz)
          /\ input.what = "pci" => BusExact(input.data, input.class, output[1])
          /\ input.what = "ahci" => PortsExact(input.pi, input.ports, output)
          /\ input.what = "cpuid" => NameExact(input.vendor, input.max, input.word, input.eax, output)
          /\ input.what = "boot" =>
               IF input.addr % 8 = 0 THEN Booted(input.tags, input.addr, output)
               ELSE output = Unbooted

(* Foreign code is entered as it expects and control comes back.  A module *)
(* is loaded as its relocations ask, or refused: see Loaded.  The stack of *)
(* a new process keeps its arguments and its words apart; a task that      *)
(* yields goes on with every register as it was; a system call that is not *)
(* registered changes nothing, and write puts out one character whatever   *)
(* its size.  (elf.c, proc.c, task_asm.S, syscall.c)                       *)
ProgramsRun ==
  done => /\ input.what = "elf" => Loaded(input.f, Image0, output)
          /\ input.what = "stack" => StackLaidOut(Top, input.lens, output)
          /\ input.what = "task" =>
               /\ Resumed(output[1], Before, 500)
               /\ input.eax \notin Registered =>
                    output[2] = [ret |-> input.eax, tty |-> <<>>, serial |-> <<>>]
               /\ Len(output[2].tty) + Len(output[2].serial) <= 1

=============================================================================
