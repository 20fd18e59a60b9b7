------------------------------ MODULE Programs ------------------------------
(***************************************************************************)
(* Cooperative tasks (arch/i386/task.c, task_asm.S), the user stack of a   *)
(* new process (arch/i386/proc.c) and the system call dispatch             *)
(* (kernel/proc/syscall.c).                                                *)
(***************************************************************************)
EXTENDS Integers, Sequences, SequencesExt

-----------------------------------------------------------------------------
(* Tasks.  A register file is a record; a stack slot is four bytes.        *)

(* The words on the stack of the caller once switchTask has pushed its     *)
(* registers, from %esp up: CR3, flags, the eight of pusha (the %esp among *)
(* them points at the return address), the return address.                 *)
Frame(cpu, ret) ==
  <<cpu.cr3, cpu.eflags, cpu.edi, cpu.esi, cpu.ebp, cpu.esp, cpu.ebx, cpu.edx,
    cpu.ecx, cpu.eax, ret>>

Word(frame, offset) == frame[(offset \div 4) + 1]

(* The first half of switchTask: what goes to *old.                        *)
Saved(cpu, ret) ==
  [eax |-> Word(Frame(cpu, ret), 36), ebx |-> cpu.ebx, ecx |-> cpu.ecx, edx |-> cpu.edx,
   esi |-> cpu.esi, edi |-> cpu.edi, esp |-> Word(Frame(cpu, ret), 20) + 4,
   ebp |-> Word(Frame(cpu, ret), 16), eip |-> Word(Frame(cpu, ret), 40),
   eflags |-> Word(Frame(cpu, ret), 4), cr3 |-> Word(Frame(cpu, ret), 0)]

(* yield: runningTask = runningTask->next, then switchTask; the second     *)
(* half loads every register from *new.                                    *)
yield(t, ret) ==
  LET new == t.next[t.running]
      regs == [t.regs EXCEPT ![t.running] = Saved(t.cpu, ret)]
  IN  [t EXCEPT !.running = new, !.regs = regs, !.cpu = regs[new]]

(* A new task; `block` is what kmalloc(4000) returned.  Its static ebp     *)
(* is 0.                                                                   *)
createTask(main, flags, pagedir, block) ==
  [eax |-> 0, ebx |-> 0, ecx |-> 0, edx |-> 0, esi |-> 0, edi |-> 0, ebp |-> 0,
   esp |-> block + 4096, eip |-> main, eflags |-> flags, cr3 |-> pagedir]

initTasking(cpu, main, block) ==
  [cpu |-> cpu, running |-> "main", next |-> [main |-> "other", other |-> "main"],
   regs |-> [main |-> cpu, other |-> createTask(main, cpu.eflags, cpu.cr3, block)]]

(* otherMain yields back with whatever registers it computed.              *)
otherMain(t, ret, work) == yield([t EXCEPT !.cpu = work], ret)

test_switch_task(t, ret, work) == otherMain(yield(t, ret), ret + 1, work)

(* kernel_main goes on where it yielded, with every register as at the     *)
(* call and the return address off its stack.                              *)
Resumed(t, before, ret) ==
  /\ t.running = "main"
  /\ t.cpu = [before EXCEPT !.esp = @ + 4, !.eip = ret]

-----------------------------------------------------------------------------
(* The stack proc_run_code builds, below address `top` (0xC0000000), for   *)
(* arguments of the given lengths: where each string begins, and the words *)
(* below them.                                                             *)

ArgumentPlace(p, len) ==
  LET c == p.ustack_char - ((p.ustack_char - len) % 4)
  IN  [dests |-> Append(p.dests, c - len), ustack_char |-> c - len - 1]

(* The words from the highest down: the arguments in order, the pointer to *)
(* the last of them (NULL without arguments), their number.                *)
UserStack(top, lens) ==
  LET p == FoldLeft(ArgumentPlace, [dests |-> <<>>, ustack_char |-> top - 1], lens)
      base == p.ustack_char - (p.ustack_char % 4)
      args == base - 4 * (Len(lens) - 1)
  IN  [dests |-> p.dests, base |-> base,
       words |-> p.dests \o <<IF lens = <<>> THEN 0 ELSE args, Len(lens)>>]

WordAddress(s, i) == s.base - 4 * (i - 1)

Bytes(a, n) == a .. a + n - 1

(* The strings with their terminators, and the words, are all below the    *)
(* top and apart from one another, and the program that follows the last   *)
(* pointer finds every argument, the last one first.                       *)
StackLaidOut(top, lens, s) ==
  LET string(i) == Bytes(s.dests[i], lens[i] + 1)
      word(i) == Bytes(WordAddress(s, i), 4)
      argc == Len(lens)
      args == s.words[argc + 1]
  IN  /\ \A i \in 1 .. argc : \A b \in string(i) : b < top
      /\ \A i, j \in 1 .. argc : i # j => string(i) \cap string(j) = {}
      /\ \A i \in 1 .. argc, w \in 1 .. argc + 2 : string(i) \cap word(w) = {}
      /\ s.words[argc + 2] = argc
      /\ \A k \in 0 .. argc - 1 :
           \E w \in 1 .. argc : WordAddress(s, w) = args + 4 * k /\ s.words[w] = s.dests[argc - k]

-----------------------------------------------------------------------------
(* System calls: the frame's registers and what is written.                *)

SYS_MAX == 6
Registered == {0, 1, 5}      \* SYS_READ, SYS_WRITE, SYS_SBRK

(* vfs_write_fd: one character, whatever the size, to the terminal or the  *)
(* serial line; the size is returned (putchar's character for stdout).     *)
vfs_write_fd(file, data, size) ==
  [ret |-> IF file = 1 THEN Head(data) ELSE size,
   tty |-> IF file \in {1, 2} THEN <<Head(data)>> ELSE <<>>,
   serial |-> IF file = 3 THEN <<Head(data)>> ELSE <<>>]

syscall_handler(eax, ebx, data, edx) ==
  IF eax >= SYS_MAX \/ eax \notin Registered
  THEN [ret |-> eax, tty |-> <<>>, serial |-> <<>>]
  ELSE IF eax = 1 THEN vfs_write_fd(ebx, data, edx)
  ELSE [ret |-> 0, tty |-> <<>>, serial |-> <<>>]
=============================================================================
