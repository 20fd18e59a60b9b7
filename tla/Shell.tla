------------------------------- MODULE Shell -------------------------------
(***************************************************************************)
(* Running a command line: launch_command_framebuffer of                   *)
(* kernel/arch/i386/tty_framebuffer.c, with the heap it works on.  The     *)
(* blocks keep what was written to them, so a block that is not filled     *)
(* gives what an earlier command left there.                               *)
(*                                                                         *)
(* A text is the sequence of its words, with one space between two; a line *)
(* does not begin with a space.  Junk stands for bytes that are no text:   *)
(* pointers, and memory never written.  The current directory is empty.    *)
(* Commands are told apart by what they do on the heap (Kind); most do     *)
(* nothing there.                                                          *)
(***************************************************************************)
EXTENDS HeapBlocks, Sequences, SequencesExt, TLC

CONSTANTS LINE_CLI_SIZE,  \* 300, the size of the copy of the line
          DATE_SIZE,      \* 150, the size of read_rtc_date's string
          Lines,          \* the lines typed
          WordLength,     \* characters of each word
          Kind,           \* what each command does on the heap
          AsDirectory,    \* AsDirectory[w]: the word w with '/' at its end
          MaxLeaks,       \* bound on the strings dropped
          Junk

(* Lines are made of words, and rubbish is no text, though it may read as  *)
(* a word.                                                                 *)
ASSUME ShellAssumption ==
  /\ LINE_CLI_SIZE \in Nat /\ DATE_SIZE \in Nat
  /\ WordLength \in [DOMAIN WordLength -> Nat]
  /\ Lines \subseteq Seq(DOMAIN WordLength)
  /\ \A w \in DOMAIN AsDirectory : AsDirectory[w] \in DOMAIN WordLength
  /\ Junk \in DOMAIN WordLength /\ Junk \notin Seq(DOMAIN WordLength)

VARIABLES heap,     \* the blocks
          data,     \* data[p]: what the block at p holds, a text or Junk
          leaked,   \* blocks whose pointer a command dropped
          last,     \* the last line and the arguments its command got
          phase     \* "up", "aborted", "corrupt", "overflow", "chip8"
shellVars == <<heap, data, leaked, last, phase>>

shellInit ==
  /\ heap = {} /\ data = <<>> /\ leaked = {}
  /\ last = [line |-> <<>>, argv |-> <<>>]
  /\ phase = "up"

strlen(text) == FoldLeft(LAMBDA n, w : n + WordLength[w] + 1, -1, text)
                + (IF text = <<>> THEN 1 ELSE 0)

(* What the commands take for granted: a line fits into line_cli, and no   *)
(* request is so large that the heap's check of its end wraps (see         *)
(* RequestsBounded of Kmalloc).                                            *)
Bounded(req) == HEAP_END + SIZEOF + MIN_ALIGN + req + 7 <= UINT32

LinesFit ==
  /\ \A line \in Lines : strlen(line) < LINE_CLI_SIZE
  /\ Bounded(4 * LINE_CLI_SIZE) /\ Bounded(DATE_SIZE)
  /\ \A w \in DOMAIN WordLength : Bounded(4 * WordLength[w] + 4)

-----------------------------------------------------------------------------
(* What a command works on: the heap, the data, the block obtained last,   *)
(* how it is going, the blocks it releases at its end, the text in args,   *)
(* the arguments, and what it drops.  After abort() nothing more happens.  *)
Work == [heap |-> heap, data |-> data, at |-> 0, phase |-> "up",
         blocks |-> <<>>, text |-> <<>>, argv |-> <<>>, dropped |-> {}]

(* The data with a block at p: a new one holds rubbish, one that is reused *)
(* what it held.                                                           *)
including(d, p) == [q \in DOMAIN d \cup {p} |-> IF q \in DOMAIN d THEN d[q] ELSE Junk]

obtained(s, r) ==
  IF r.block = 0 THEN [s EXCEPT !.phase = "aborted"]
  ELSE [s EXCEPT !.heap = r.heap, !.data = including(@, r.block), !.at = r.block]

kmalloc(s, req) ==
  IF s.phase # "up" THEN s ELSE obtained(s, aligned_alloc(s.heap, MIN_ALIGN, req))

(* The bytes a block has room for: sizeof(mem_block_t) counts four bytes   *)
(* of data already.                                                        *)
room(s) == mem_get_block(s.heap, s.at).size + SIZEOF - header_size

(* Mutant: what the block held is not overwritten.                         *)
write_kept(s, text, bytes) ==
  IF s.phase # "up" THEN s
  ELSE IF bytes > room(s) THEN [s EXCEPT !.phase = "overflow"]
  ELSE [s EXCEPT !.data = [@ EXCEPT ![s.at] = IF @ = Junk THEN text ELSE @]]

(* A text of so many bytes is written to the block obtained last.          *)
write(s, text, bytes) ==
  IF s.phase # "up" THEN s
  ELSE IF bytes > room(s) THEN [s EXCEPT !.phase = "overflow"]
  ELSE [s EXCEPT !.data = [@ EXCEPT ![s.at] = text]]

store(s, text, req, bytes) == write(kmalloc(s, req), text, bytes)

(* The block is released at the end.                                       *)
hold(s) == [s EXCEPT !.blocks = Append(@, s.at)]

(* Mutant: nothing is given back.                                          *)
release_nothing(s, p) == s

release(s, p) ==
  IF s.phase # "up" THEN s ELSE [s EXCEPT !.heap = kfree(@, p)]

(* Mutant: the old block is not released.                                  *)
moved_keep(s, r) ==
  IF r.phase # "up" THEN r
  ELSE IF mem_get_block(s.heap, s.at).size > mem_get_block(r.heap, r.at).size
  THEN [r EXCEPT !.phase = "corrupt"]
  ELSE [r EXCEPT !.data = [@ EXCEPT ![r.at] = Junk]]

(* krealloc of the argument vector from the block of s to the one of r; as *)
(* many bytes are copied as the old block has.                             *)
moved(s, r) ==
  IF r.phase # "up" THEN r
  ELSE IF mem_get_block(s.heap, s.at).size > mem_get_block(r.heap, r.at).size
  THEN [r EXCEPT !.phase = "corrupt"]
  ELSE [release(r, s.at) EXCEPT !.data = [@ EXCEPT ![r.at] = Junk]]

krealloc(s, req) == moved(s, kmalloc(s, req))

-----------------------------------------------------------------------------
(* The parts of launch_command_framebuffer, in order.                      *)
spaced(line) == Len(line) > 1
first(text) == IF text = <<>> THEN <<>> ELSE <<Head(text)>>

(* line_cli_copy, in which strtok ends the first word.                     *)
copyLine(s, line) ==
  hold(store(s, first(line), LINE_CLI_SIZE, strlen(line) + 1))

(* strtok gives NULL for a line without a space, and the first word inside *)
(* the copy otherwise; then the copy is released twice.                    *)
takeCommand(s, line) ==
  IF spaced(line) THEN hold(s)
  ELSE hold(store(s, first(line), strlen(line), strlen(line) + 1))

(* args: without an argument a block of 0 bytes that nothing is written    *)
(* to.                                                                     *)
takeArgs(s, line) ==
  LET rest == strlen(line) - strlen(first(line))
  IN  hold(IF spaced(line) THEN store(s, Tail(line), rest, rest) ELSE kmalloc(s, rest))

(* What is in args then: `junk` is what Junk reads as, `low` whether its   *)
(* first byte is less than 7, which makes argc 0.                          *)
readArgs(s, junk, low) ==
  IF s.phase # "up" THEN s
  ELSE IF s.data[s.at] = Junk
  THEN [s EXCEPT !.text = junk, !.argv = IF low THEN <<>> ELSE junk]
  ELSE [s EXCEPT !.text = s.data[s.at], !.argv = s.data[s.at]]

(* buf, a copy of args that is cut up into words.                          *)
copyArgs(s) == hold(store(s, first(s.text), strlen(s.text) + 1, strlen(s.text) + 1))

(* argv, which is cleared and holds pointers, no text, and grows by one    *)
(* entry for each further word.                                            *)
calloc(s) == store(s, Junk, 4, 4)
buildVector(s) ==
  hold(FoldLeft(krealloc, calloc(s), [i \in 1 .. Len(s.text) - 1 |-> 4 * (i + 1)]))

drop(s) == IF s.phase = "up" THEN [s EXCEPT !.dropped = {s.at}] ELSE s
releaseLast(s) == release(s, s.at)

(* The command itself.  `found` is whether finddir_fs finds what ls names. *)
(* Without an argument, or when it is found, ls frees the literal "",      *)
(* which is no block of the heap.  date drops the string it prints, as     *)
(* base64 does.  chip8 loops and reboot resets: neither comes back.        *)
run(s, command, found) ==
  CASE Kind[command] = "ls" /\ s.argv # <<>> /\ ~found ->
         LET name == Head(s.argv)
             dir  == IF name \in DOMAIN AsDirectory THEN <<AsDirectory[name]>> ELSE Junk
         IN  releaseLast(store(s, dir, WordLength[name] + 1, WordLength[name] + 2))
    [] Kind[command] = "cat" ->
         LET length == strlen(first(s.text))
         IN  releaseLast(store(s, first(s.text), length + 2, length + 1))
    [] Kind[command] = "date" -> drop(kmalloc(s, DATE_SIZE))
    [] Kind[command] = "chip8" /\ s.phase = "up" -> [s EXCEPT !.phase = "chip8"]
    [] OTHER -> s

runFirst(s, line, found) == IF line = <<>> THEN s ELSE run(s, Head(line), found)

finish(s) == FoldLeft(release, s, s.blocks)

launch_command(line, junk, low, found) ==
  finish(runFirst(buildVector(copyArgs(readArgs(takeArgs(takeCommand(
    copyLine(Work, line), line), line), junk, low))), line, found))

(* What may come out differently: how Junk reads, for a command without    *)
(* arguments, and whether ls finds its directory.                          *)
Outcomes(line) ==
  [junk  : IF Len(line) > 1 THEN {<<>>} ELSE {<<>>, <<Junk>>},
   low   : IF Len(line) > 1 THEN {FALSE} ELSE BOOLEAN,
   found : IF line # <<>> /\ Kind[Head(line)] = "ls" THEN BOOLEAN ELSE {FALSE}]

(* The key handler runs the line when Enter is pressed.  At most MaxLeaks  *)
(* dates are printed.                                                      *)
Enter(line) ==
  \E o \in Outcomes(line) : \E r \in {launch_command(line, o.junk, o.low, o.found)} :
    /\ phase = "up"
    /\ heap' = r.heap /\ data' = r.data
    /\ leaked' = leaked \cup r.dropped
    /\ Cardinality(leaked') <= MaxLeaks
    /\ last' = [line |-> line, argv |-> r.argv]
    /\ phase' = r.phase

-----------------------------------------------------------------------------
(* A command that is typed with arguments gets exactly these.  One that is *)
(* typed without gets nothing, rubbish, or what a block that nobody used   *)
(* held before the line: words of an earlier line, or its command, but     *)
(* never what this line itself has just stored, nor a dropped string.      *)
ArgumentsPassed ==
  [][phase' = "up" =>
       \/ spaced(last'.line) /\ last'.argv = Tail(last'.line)
       \/ /\ ~spaced(last'.line)
          /\ \/ last'.argv \in {<<>>, <<Junk>>}
             \/ \E p \in DOMAIN data \ leaked : last'.argv = data[p]]_shellVars

(* The blocks and the texts they hold.                                     *)
shellTypes ==
  /\ heap \subseteq Block /\ DOMAIN data = {b.addr : b \in heap} \ {HEAP_BEGIN}
  /\ leaked \subseteq DOMAIN data
  /\ phase \in {"up", "aborted", "corrupt", "overflow", "chip8"}

(* Although the copy of the line may be released twice, between two        *)
(* commands exactly the strings nobody released are in use.                *)
BlocksReturned ==
  /\ shellTypes
  /\ phase = "up" => {b.addr : b \in {d \in heap : d.used}} \ {HEAP_BEGIN} = leaked

(* No text is written past the room of its block, although two of them     *)
(* ask for one byte less than they write.                                  *)
TextsFit == phase # "overflow"

(* Commands that release what they take never exhaust the heap, however    *)
(* many are run and however their blocks are reused.                       *)
ExhaustedOnlyByLeaks == phase = "aborted" => leaked # {}

=============================================================================
