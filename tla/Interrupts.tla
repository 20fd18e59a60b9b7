----------------------------- MODULE Interrupts -----------------------------
(***************************************************************************)
(* Hardware interrupts from the device to the end of their handler:        *)
(* pic.c, irq_handlers.c, pit.c, descriptor_tables.c and the part of       *)
(* kernel_main that sets them up.                                          *)
(*                                                                         *)
(* The two 8259 controllers and the processor are external.  A controller  *)
(* has requests (irr) and lines in service (isr); it passes on the request *)
(* of highest priority if nothing of that or a higher priority is in       *)
(* service, and a non-specific end-of-interrupt takes the line of highest  *)
(* priority out of service.  The slave, lines 8 .. 15, hangs on the        *)
(* master's line 2.  All gates are interrupt gates: a handler runs with    *)
(* interrupts off.                                                         *)
(***************************************************************************)
EXTENDS Integers, Sequences, FiniteSetsExt

CONSTANTS Lines,       \* the lines that have a device
          KeyEffects,  \* what the key handler may do, see Keyboard
          Builds,      \* values of GUI_MODE, config.h
          TICKS,       \* bound: the tick counter is shown modulo TICKS
          DATE_TICKS,  \* ticks between two dates in the top bar (1000)
          ROOM         \* bound: dates the heap has room for at boot

ASSUME InterruptsAssumption ==
  /\ Lines \subseteq 0 .. 15
  /\ KeyEffects \subseteq {"returns", "reboots"} /\ KeyEffects # {}
  /\ Builds \subseteq BOOLEAN
  /\ TICKS \in Nat \ {0, 1} /\ DATE_TICKS \in Nat \ {0} /\ TICKS % DATE_TICKS = 0
  /\ ROOM \in Nat

IRQ_PIT == 0
CASCADE == 2
slave(l) == l >= 8

VARIABLES boot,          \* the steps of kernel_main still to be done
          base,          \* the vector of line 0 (the slave's is base + 8)
          idt,           \* whether the descriptor tables are loaded
          irq_routines,  \* the handler of every line, or "NULL"
          IF_flag,       \* the interrupt flag of the processor
          irr, isr,      \* per line: requested, in service
          stage,         \* where the processor is
          irq,           \* the line whose handler runs
          ticks,
          gui_mode,      \* the build
          room           \* dates the heap still has room for

vars == <<boot, base, idt, irq_routines, IF_flag, irr, isr, stage, irq, ticks,
          gui_mode, room>>
pics == <<irr, isr>>
timer == <<ticks, gui_mode, room>>

(* Mutant: interrupts are enabled before the controllers are set up.       *)
bootSequence_early_sti ==
  <<"descriptor_tables_initialize", "x86_enable_int", "pic_init",
    "sys_tick_handler", "keyboard_install", "init_syscalls">>

(* What kernel_main does from descriptor_tables_initialize on, in order.   *)
(* init_paging registered a handler for line 14 before.                    *)
bootSequence ==
  IF gui_mode
  THEN <<"descriptor_tables_initialize", "pic_init", "sys_tick_handler",
         "keyboard_install", "mouse_install", "x86_enable_int", "init_syscalls">>
  ELSE <<"descriptor_tables_initialize", "pic_init", "sys_tick_handler",
         "keyboard_install", "x86_enable_int", "init_syscalls">>

Init ==
  /\ gui_mode \in Builds
  /\ boot = bootSequence
  /\ base = 8                  \* as the BIOS leaves it
  /\ idt = FALSE
  /\ irq_routines = [l \in 0 .. 15 |-> IF l = 14 THEN "paging_fault_handler" ELSE "NULL"]
  /\ IF_flag = FALSE
  /\ irr = {} /\ isr = {}
  /\ stage = "main" /\ irq = 0
  /\ ticks = 0 /\ room \in 0 .. ROOM

-----------------------------------------------------------------------------
(* The controllers.                                                        *)
better(k, l) == k < l           \* priority within one controller

(* The line a controller puts forward, when it does.                       *)
forwards(pending, service, l) ==
  /\ l \in pending
  /\ \A k \in pending : ~better(k, l)
  /\ \A k \in service : better(l, k)

slaveLines == 8 .. 15
masterPending ==
  {l \in irr : ~slave(l)} \cup
  {l \in {CASCADE} : \E k \in irr : forwards(irr \cap slaveLines, isr \cap slaveLines, k)}

(* The line the processor gets when it acknowledges.                       *)
delivers(l) ==
  LET m == IF slave(l) THEN CASCADE ELSE l
  IN  /\ forwards(masterPending, isr \ slaveLines, m)
      /\ slave(l) => forwards(irr \cap slaveLines, isr \cap slaveLines, l)

(* An end-of-interrupt to the controller with the lines ls.                *)
eoi(service, ls) ==
  IF service \cap ls = {} THEN service ELSE service \ {Min(service \cap ls)}

Raise(l) ==
  /\ l \notin irr
  /\ irr' = irr \cup {l}
  /\ UNCHANGED <<boot, base, idt, irq_routines, IF_flag, isr, stage, irq, timer>>

(* The processor takes an interrupt: x86_exception_handler halts for a     *)
(* vector below 32.                                                        *)
Accept(l) ==
  /\ stage = "main" /\ IF_flag /\ delivers(l)
  /\ irr' = irr \ {l}
  /\ isr' = isr \cup {l} \cup (IF slave(l) THEN {CASCADE} ELSE {})
  /\ IF_flag' = FALSE
  /\ irq' = l
  /\ stage' = IF idt /\ base + l > 31 THEN "handler" ELSE "halted"
  /\ UNCHANGED <<boot, base, idt, irq_routines, timer>>

-----------------------------------------------------------------------------
(* pic.c: the slave is told from vector 40 on.                             *)
tellSlave(l) == 40 <= l

pic_send_EOI(l) ==
  isr' = LET s == IF tellSlave(l) THEN eoi(isr, slaveLines) ELSE isr
         IN  eoi(s, 0 .. 7)

(* render_date_to_top_bar takes 150 bytes from the heap for the date and   *)
(* nobody gives them back; when there is no room kmalloc calls abort,      *)
(* which never returns.                                                    *)
render_date_to_top_bar ==
  IF room > 0 THEN room' = room - 1 /\ stage' = "iret"
              ELSE room' = room /\ stage' = "aborted"

dateOrReturn ==
  IF gui_mode /\ ticks' % DATE_TICKS = 0 THEN render_date_to_top_bar
                                        ELSE stage' = "iret" /\ UNCHANGED room


(* The tick animation changes one cell of the screen.                      *)
sys_tick_handler ==
  /\ ticks' = (ticks + 1) % TICKS
  /\ pic_send_EOI(IRQ_PIT)
  /\ dateOrReturn

(* handle_platform_irq up to the end of handler(frame).  The dispatcher    *)
(* returns without an end-of-interrupt for the timer.                      *)
Handler ==
  /\ stage = "handler"
  /\ LET handler == irq_routines[irq]
     IN  \/ /\ handler = "sys_tick_handler"
            /\ sys_tick_handler
         \/ /\ handler = "sys_key_handler" /\ "reboots" \in KeyEffects
            /\ stage' = "rebooting"
            /\ UNCHANGED <<isr, ticks, room>>
         \/ /\ handler # "sys_tick_handler"
            /\ handler = "sys_key_handler" => "returns" \in KeyEffects
            /\ stage' = IF irq = IRQ_PIT THEN "iret" ELSE "eoi"
            /\ UNCHANGED <<isr, ticks, room>>
  /\ UNCHANGED <<boot, base, idt, irq_routines, IF_flag, irr, irq, gui_mode>>

(* Mutant: only lines with a handler are acknowledged.                     *)
EndOfInterrupt_handled ==
  /\ stage = "eoi"
  /\ IF irq_routines[irq] # "NULL" THEN pic_send_EOI(irq) ELSE UNCHANGED isr
  /\ stage' = "iret"
  /\ UNCHANGED <<boot, base, idt, irq_routines, IF_flag, irr, irq, timer>>

(* ... and its last statement.                                             *)
EndOfInterrupt ==
  /\ stage = "eoi"
  /\ pic_send_EOI(irq)
  /\ stage' = "iret"
  /\ UNCHANGED <<boot, base, idt, irq_routines, IF_flag, irr, irq, timer>>

Iret ==
  /\ stage = "iret"
  /\ stage' = "main" /\ IF_flag' = TRUE
  /\ UNCHANGED <<boot, base, idt, irq_routines, pics, irq, timer>>

-----------------------------------------------------------------------------
(* irq_register_handler ignores what is not a line.                        *)
irq_register_handler(l, handler) ==
  irq_routines' = IF handler = "NULL" \/ l < 0 \/ l > 15 THEN irq_routines
                  ELSE [irq_routines EXCEPT ![l] = handler]

(* A step of kernel_main; interrupts come between two of them.             *)
Boot(s) ==
  /\ stage = "main" /\ boot # << >> /\ Head(boot) = s
  /\ boot' = Tail(boot)
  /\ CASE s = "descriptor_tables_initialize" ->
            idt' = TRUE /\ UNCHANGED <<base, irq_routines, IF_flag, pics>>
       [] s = "pic_init" ->     \* ICW 1 also empties the controllers
            /\ base' = 32 /\ irr' = {} /\ isr' = {}
            /\ UNCHANGED <<idt, irq_routines, IF_flag>>
       [] s = "sys_tick_handler" ->
            irq_register_handler(0, s) /\ UNCHANGED <<base, idt, IF_flag, pics>>
       [] s = "keyboard_install" ->
            /\ irq_register_handler(1, "sys_key_handler")
            /\ UNCHANGED <<base, idt, IF_flag, pics>>
       [] s = "mouse_install" ->
            /\ irq_register_handler(12, "sys_mouse_handler")
            /\ UNCHANGED <<base, idt, IF_flag, pics>>
       [] s = "x86_enable_int" ->
            IF_flag' = TRUE /\ UNCHANGED <<base, idt, irq_routines, pics>>
       [] s = "init_syscalls" ->
            /\ irq_register_handler(128, "syscall_handler")
            /\ UNCHANGED <<base, idt, IF_flag, pics>>
  /\ UNCHANGED <<stage, irq, timer>>

bootSteps == {"descriptor_tables_initialize", "pic_init", "sys_tick_handler",
              "keyboard_install", "mouse_install", "x86_enable_int", "init_syscalls"}

Next ==
  \/ \E l \in Lines : Raise(l) \/ Accept(l)
  \/ Handler \/ EndOfInterrupt \/ Iret
  \/ \E s \in bootSteps : Boot(s)

(* The processor runs and takes interrupts, the timer, where it is one of  *)
(* the lines, ticks (only the shell's sleep and beep stop it, by           *)
(* pit_mdelay).  A line that is put forward again and again is taken.      *)
Fairness ==
  /\ WF_vars(\E s \in bootSteps : Boot(s))
  /\ WF_vars(Handler \/ EndOfInterrupt \/ Iret)
  /\ IRQ_PIT \in Lines => WF_vars(Raise(IRQ_PIT))
  /\ \A l \in Lines : SF_vars(Accept(l))

Spec == Init /\ [][Next]_vars /\ Fairness

-----------------------------------------------------------------------------
TypeOK ==
  /\ base \in {8, 32} /\ idt \in BOOLEAN /\ IF_flag \in BOOLEAN
  /\ irq_routines \in [0 .. 15 -> {"NULL", "paging_fault_handler", "sys_tick_handler",
                                   "sys_key_handler", "sys_mouse_handler"}]
  /\ irr \subseteq 0 .. 15 /\ isr \subseteq 0 .. 15
  /\ stage \in {"main", "handler", "eoi", "iret", "rebooting", "halted", "aborted"}
  /\ irq \in 0 .. 15 /\ ticks \in 0 .. TICKS - 1
  /\ gui_mode \in BOOLEAN /\ room \in 0 .. ROOM

(* The order of kernel_main: the timer's and the keyboard's interrupts     *)
(* find their handler, and no interrupt is taken for an exception.         *)
HandlersInPlace ==
  /\ TypeOK
  /\ stage = "handler" /\ irq \in {0, 1} => irq_routines[irq] # "NULL"
  /\ stage # "halted"

(* The system timer goes on for ever, whatever the other devices do,       *)
(* unless the machine reboots.  The graphical build stops in abort, inside *)
(* the timer's handler, when the dates it never gives back have used up    *)
(* the heap; not before, and the other build never does.                   *)
heapUsedUp == stage = "aborted" /\ gui_mode /\ room = 0

(* Again and again the devices of higher priority leave the processor      *)
(* alone: without that, priorities let them starve l.                      *)
turnComes(l) == []<>(stage = "main" /\ \A k \in irr : k >= l)

(* Every request of a device on the master is served once interrupts are   *)
(* on and its turn comes.                                                  *)
RequestsServed ==
  \A l \in Lines \ slaveLines : turnComes(l) => [](l \in irr => <>(l \notin irr))

(* The lines of the slave too: "enable interrupts on irq 12".              *)
SlaveRequestsServed ==
  \A l \in Lines \cap slaveLines : turnComes(l) => [](l \in irr => <>(l \notin irr))

=============================================================================
