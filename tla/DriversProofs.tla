--------------------------- MODULE DriversProofs ---------------------------
(***************************************************************************)
(* Proofs about interrupts (Interrupts), for every set of devices, both    *)
(* builds and whatever the key handler does, and about the drivers of the  *)
(* keyboard and the PS/2 controller (Keyboard), for every machine.         *)
(***************************************************************************)
EXTENDS Interrupts, Keyboard, CommonLemmas, TLAPS

(* What is left of kernel_main, by what was done last.  The graphical      *)
(* build has one step more.                                                *)
Started == {<<"descriptor_tables_initialize", "pic_init", "sys_tick_handler",
            "keyboard_install", "mouse_install", "x86_enable_int", "init_syscalls">>,
          <<"descriptor_tables_initialize", "pic_init", "sys_tick_handler",
            "keyboard_install", "x86_enable_int", "init_syscalls">>}
TablesLoaded == {<<"pic_init", "sys_tick_handler", "keyboard_install",
                   "mouse_install",
                   "x86_enable_int", "init_syscalls">>,
                 <<"pic_init", "sys_tick_handler", "keyboard_install",
                   "x86_enable_int", "init_syscalls">>}
Remapped == {<<"sys_tick_handler", "keyboard_install", "mouse_install",
               "x86_enable_int", "init_syscalls">>,
             <<"sys_tick_handler", "keyboard_install", "x86_enable_int",
               "init_syscalls">>}
TimerSet == {<<"keyboard_install", "mouse_install", "x86_enable_int",
               "init_syscalls">>,
             <<"keyboard_install", "x86_enable_int", "init_syscalls">>}
KeyboardSet == {<<"mouse_install", "x86_enable_int", "init_syscalls">>,
                <<"x86_enable_int", "init_syscalls">>}
Running == {<<"init_syscalls">>, << >>}

(* The inductive invariant: what holds from each step of kernel_main on,   *)
(* and that interrupts are on only after x86_enable_int.                   *)
BootOrder ==
  /\ boot \in Started \cup TablesLoaded \cup Remapped \cup TimerSet \cup KeyboardSet \cup Running
  /\ boot \notin Started => idt
  /\ boot \in Remapped \cup TimerSet \cup KeyboardSet \cup Running => base = 32
  /\ boot \in TimerSet \cup KeyboardSet \cup Running => irq_routines[0] # "NULL"
  /\ boot \in KeyboardSet \cup Running => irq_routines[1] # "NULL"
  /\ IF_flag \/ stage # "main" => boot \in Running

IInv == TypeOK /\ BootOrder /\ stage # "halted"

(* The boot sequence is one of the two.                                    *)
LEMMA BootSequence == bootSequence \in Started
<1>1. CASE gui_mode
  BY <1>1 DEF bootSequence, Started
<1>2. CASE ~gui_mode
  BY <1>2 DEF bootSequence, Started
<1> QED BY <1>1, <1>2

(* The steps that are left tell how far kernel_main has come.              *)
LEMMA StepsApart ==
  /\ Started \cap (TablesLoaded \cup Remapped \cup TimerSet \cup KeyboardSet \cup Running) = {}
  /\ TablesLoaded \cap (Remapped \cup TimerSet \cup KeyboardSet \cup Running) = {}
  /\ Remapped \cap (TimerSet \cup KeyboardSet \cup Running) = {}
  /\ TimerSet \cap (KeyboardSet \cup Running) = {}
  /\ KeyboardSet \cap Running = {}
  BY DEF Started, TablesLoaded, Remapped, TimerSet, KeyboardSet, Running

(* The state before kernel_main sets interrupts up.                        *)
LEMMA InitInv == Init => IInv
<1> SUFFICES ASSUME Init PROVE IInv
  OBVIOUS
<1>1. TypeOK
  <2>1. ticks \in 0 .. TICKS - 1
    BY InterruptsAssumption DEF Init
  <2>2. idt \in BOOLEAN /\ IF_flag \in BOOLEAN /\ gui_mode \in BOOLEAN
    BY InterruptsAssumption, Zenon DEF Init
  <2> QED BY <2>1, <2>2 DEF Init, TypeOK
<1>2. boot \in Started
  BY BootSequence DEF Init
<1>3. BootOrder
  BY <1>2, StepsApart DEF Init, BootOrder
<1> QED BY <1>1, <1>3 DEF Init, IInv

(* A step of kernel_main leaves the next of these sets.                    *)
LEMMA StepsInOrder ==
  ASSUME NEW b
  PROVE  /\ b \in Started => Head(b) = "descriptor_tables_initialize" /\ Tail(b) \in TablesLoaded
         /\ b \in TablesLoaded => Head(b) = "pic_init" /\ Tail(b) \in Remapped
         /\ b \in Remapped => Head(b) = "sys_tick_handler" /\ Tail(b) \in TimerSet
         /\ b \in TimerSet => Head(b) = "keyboard_install" /\ Tail(b) \in KeyboardSet
         /\ b \in KeyboardSet => \/ Head(b) = "mouse_install" /\ Tail(b) \in KeyboardSet
                                 \/ Head(b) = "x86_enable_int" /\ Tail(b) \in Running
         /\ b \in Running /\ b # << >> => Head(b) = "init_syscalls" /\ Tail(b) \in Running
<1>1. b \in Started => Head(b) = "descriptor_tables_initialize" /\ Tail(b) \in TablesLoaded
  <2>1. ASSUME b = <<"descriptor_tables_initialize", "pic_init",
                     "sys_tick_handler", "keyboard_install", "mouse_install",
                     "x86_enable_int", "init_syscalls">>
        PROVE  /\ Head(b) = "descriptor_tables_initialize"
               /\ Tail(b) = <<"pic_init", "sys_tick_handler",
                              "keyboard_install", "mouse_install",
                              "x86_enable_int", "init_syscalls">>
    BY <2>1
  <2>2. ASSUME b = <<"descriptor_tables_initialize", "pic_init",
                     "sys_tick_handler", "keyboard_install",
                     "x86_enable_int", "init_syscalls">>
        PROVE  /\ Head(b) = "descriptor_tables_initialize"
               /\ Tail(b) = <<"pic_init", "sys_tick_handler",
                              "keyboard_install", "x86_enable_int",
                              "init_syscalls">>
    BY <2>2
  <2> QED BY <2>1, <2>2, Zenon DEF Started, TablesLoaded
<1>2. b \in TablesLoaded => Head(b) = "pic_init" /\ Tail(b) \in Remapped
  <2>1. ASSUME b = <<"pic_init", "sys_tick_handler", "keyboard_install",
                     "mouse_install", "x86_enable_int", "init_syscalls">>
        PROVE  /\ Head(b) = "pic_init"
               /\ Tail(b) = <<"sys_tick_handler", "keyboard_install",
                              "mouse_install", "x86_enable_int",
                              "init_syscalls">>
    BY <2>1
  <2>2. ASSUME b = <<"pic_init", "sys_tick_handler", "keyboard_install",
                     "x86_enable_int", "init_syscalls">>
        PROVE  /\ Head(b) = "pic_init"
               /\ Tail(b) = <<"sys_tick_handler", "keyboard_install",
                              "x86_enable_int", "init_syscalls">>
    BY <2>2
  <2> QED BY <2>1, <2>2, Zenon DEF TablesLoaded, Remapped
<1>3. b \in Remapped => Head(b) = "sys_tick_handler" /\ Tail(b) \in TimerSet
  <2>1. ASSUME b = <<"sys_tick_handler", "keyboard_install", "mouse_install",
                     "x86_enable_int", "init_syscalls">>
        PROVE  /\ Head(b) = "sys_tick_handler"
               /\ Tail(b) = <<"keyboard_install", "mouse_install",
                              "x86_enable_int", "init_syscalls">>
    BY <2>1
  <2>2. ASSUME b = <<"sys_tick_handler", "keyboard_install",
                     "x86_enable_int", "init_syscalls">>
        PROVE  /\ Head(b) = "sys_tick_handler"
               /\ Tail(b) = <<"keyboard_install", "x86_enable_int",
                              "init_syscalls">>
    BY <2>2
  <2> QED BY <2>1, <2>2, Zenon DEF Remapped, TimerSet
<1>4. b \in TimerSet => Head(b) = "keyboard_install" /\ Tail(b) \in KeyboardSet
  <2>1. ASSUME b = <<"keyboard_install", "mouse_install", "x86_enable_int",
                     "init_syscalls">>
        PROVE  /\ Head(b) = "keyboard_install"
               /\ Tail(b) = <<"mouse_install", "x86_enable_int",
                              "init_syscalls">>
    BY <2>1
  <2>2. ASSUME b = <<"keyboard_install", "x86_enable_int", "init_syscalls">>
        PROVE  /\ Head(b) = "keyboard_install"
               /\ Tail(b) = <<"x86_enable_int", "init_syscalls">>
    BY <2>2
  <2> QED BY <2>1, <2>2, Zenon DEF TimerSet, KeyboardSet
<1>5. b \in KeyboardSet => \/ Head(b) = "mouse_install" /\ Tail(b) \in KeyboardSet
                           \/ Head(b) = "x86_enable_int" /\ Tail(b) \in Running
  <2>1. ASSUME b = <<"mouse_install", "x86_enable_int", "init_syscalls">>
        PROVE  /\ Head(b) = "mouse_install"
               /\ Tail(b) = <<"x86_enable_int", "init_syscalls">>
    BY <2>1
  <2>2. ASSUME b = <<"x86_enable_int", "init_syscalls">>
        PROVE  /\ Head(b) = "x86_enable_int"
               /\ Tail(b) = <<"init_syscalls">>
    BY <2>2
  <2> QED BY <2>1, <2>2, Zenon DEF KeyboardSet, Running
<1>6. b \in Running /\ b # << >> => Head(b) = "init_syscalls" /\ Tail(b) \in Running
  <2>1. ASSUME b = <<"init_syscalls">>
        PROVE  /\ Head(b) = "init_syscalls"
               /\ Tail(b) = << >>
    BY <2>1
  <2> QED BY <2>1, Zenon DEF Running
<1> QED BY <1>1, <1>2, <1>3, <1>4, <1>5, <1>6, Zenon

(* Registering a handler leaves the other lines' alone.                    *)
LEMMA Registering ==
  ASSUME TypeOK, NEW l \in Nat, NEW handler, irq_register_handler(l, handler),
         handler \in {"sys_tick_handler", "sys_key_handler", "sys_mouse_handler"} \/ l > 15
  PROVE  /\ irq_routines' \in [0 .. 15 -> {"NULL", "paging_fault_handler", "sys_tick_handler",
                                           "sys_key_handler", "sys_mouse_handler"}]
         /\ l \in 0 .. 15 => irq_routines'[l] = handler
         /\ \A k \in 0 .. 15 : k # l => irq_routines'[k] = irq_routines[k]
  BY DEF TypeOK, irq_register_handler

(* A step of kernel_main keeps the invariant.                              *)
LEMMA BootInv ==
  ASSUME IInv, NEW step, Boot(step)
  PROVE  IInv'
<1>1. TypeOK /\ BootOrder /\ stage = "main" /\ boot # << >> /\ Head(boot) = step
      /\ boot' = Tail(boot) /\ stage' = stage /\ irq' = irq /\ ticks' = ticks
      /\ gui_mode' = gui_mode /\ room' = room
  BY DEF IInv, Boot, timer
<1>2. CASE boot \in Started
  <2>1. boot' \in TablesLoaded /\ step = "descriptor_tables_initialize"
    BY <1>1, <1>2, StepsInOrder
  <2>2. /\ idt' = TRUE /\ base' = base /\ irq_routines' = irq_routines
        /\ IF_flag' = IF_flag /\ irr' = irr /\ isr' = isr
    BY <2>1 DEF Boot, pics
  <2> QED BY <1>1, <1>2, <2>1, <2>2, StepsApart DEF IInv, TypeOK, BootOrder
<1>3. CASE boot \in TablesLoaded
  <2>1. boot' \in Remapped /\ step = "pic_init"
    BY <1>1, <1>3, StepsInOrder
  <2>2. /\ idt' = idt /\ base' = 32 /\ irq_routines' = irq_routines
        /\ IF_flag' = IF_flag /\ irr' = {} /\ isr' = {}
    BY <2>1 DEF Boot, pics
  <2> QED BY <1>1, <1>3, <2>1, <2>2, StepsApart DEF IInv, TypeOK, BootOrder
<1>4. CASE boot \in Remapped
  <2>1. boot' \in TimerSet /\ step = "sys_tick_handler"
    BY <1>1, <1>4, StepsInOrder
  <2>2. /\ irq_register_handler(0, "sys_tick_handler") /\ base' = base /\ idt' = idt
        /\ IF_flag' = IF_flag /\ irr' = irr /\ isr' = isr
    BY <2>1 DEF Boot, pics
  <2>3. /\ irq_routines' \in [0 .. 15 -> {"NULL", "paging_fault_handler", "sys_tick_handler",
                                          "sys_key_handler", "sys_mouse_handler"}]
        /\ irq_routines'[0] = "sys_tick_handler"
    BY <1>1, <2>2, Registering
  <2> QED BY <1>1, <1>4, <2>1, <2>2, <2>3, StepsApart DEF IInv, TypeOK, BootOrder
<1>5. CASE boot \in TimerSet
  <2>1. boot' \in KeyboardSet /\ step = "keyboard_install"
    BY <1>1, <1>5, StepsInOrder
  <2>2. /\ irq_register_handler(1, "sys_key_handler") /\ base' = base /\ idt' = idt
        /\ IF_flag' = IF_flag /\ irr' = irr /\ isr' = isr
    BY <2>1 DEF Boot, pics
  <2>3. /\ irq_routines' \in [0 .. 15 -> {"NULL", "paging_fault_handler", "sys_tick_handler",
                                          "sys_key_handler", "sys_mouse_handler"}]
        /\ irq_routines'[1] = "sys_key_handler" /\ irq_routines'[0] = irq_routines[0]
    BY <1>1, <2>2, Registering
  <2> QED BY <1>1, <1>5, <2>1, <2>2, <2>3, StepsApart DEF IInv, TypeOK, BootOrder
<1>6. CASE boot \in KeyboardSet /\ step = "mouse_install"
  <2>1. boot' \in KeyboardSet
    BY <1>1, <1>6, StepsInOrder
  <2>2. /\ irq_register_handler(12, "sys_mouse_handler") /\ base' = base /\ idt' = idt
        /\ IF_flag' = IF_flag /\ irr' = irr /\ isr' = isr
    BY <1>6 DEF Boot, pics
  <2>3. /\ irq_routines' \in [0 .. 15 -> {"NULL", "paging_fault_handler", "sys_tick_handler",
                                          "sys_key_handler", "sys_mouse_handler"}]
        /\ irq_routines'[1] = irq_routines[1] /\ irq_routines'[0] = irq_routines[0]
    BY <1>1, <2>2, Registering
  <2> QED BY <1>1, <1>6, <2>1, <2>2, <2>3, StepsApart DEF IInv, TypeOK, BootOrder
<1>7. CASE boot \in KeyboardSet /\ step # "mouse_install"
  <2>1. boot' \in Running /\ step = "x86_enable_int"
    BY <1>1, <1>7, StepsInOrder
  <2>2. /\ IF_flag' = TRUE /\ base' = base /\ irq_routines' = irq_routines
        /\ idt' = idt /\ irr' = irr /\ isr' = isr
    BY <2>1 DEF Boot, pics
  <2> QED BY <1>1, <1>7, <2>1, <2>2, StepsApart DEF IInv, TypeOK, BootOrder
<1>8. CASE boot \in Running
  <2>1. boot' \in Running /\ step = "init_syscalls"
    BY <1>1, <1>8, StepsInOrder
  <2>2. /\ irq_register_handler(128, "syscall_handler") /\ base' = base /\ idt' = idt
        /\ IF_flag' = IF_flag /\ irr' = irr /\ isr' = isr
    BY <2>1 DEF Boot, pics
  <2>3. /\ irq_routines' \in [0 .. 15 -> {"NULL", "paging_fault_handler", "sys_tick_handler",
                                          "sys_key_handler", "sys_mouse_handler"}]
        /\ irq_routines'[1] = irq_routines[1] /\ irq_routines'[0] = irq_routines[0]
    BY <1>1, <2>2, Registering
  <2> QED BY <1>1, <1>8, <2>1, <2>2, <2>3, StepsApart DEF IInv, TypeOK, BootOrder
<1> QED BY <1>1, <1>2, <1>3, <1>4, <1>5, <1>6, <1>7, <1>8 DEF BootOrder

(* An end-of-interrupt only takes lines out of service.                    *)
LEMMA EoiShrinks ==
  ASSUME NEW l, pic_send_EOI(l)
  PROVE  isr' \subseteq isr
<1>1. \A service, ls : eoi(service, ls) \subseteq service
  BY DEF eoi
<1> QED BY <1>1 DEF pic_send_EOI

(* Every step keeps the invariant.                                         *)
LEMMA NextInv ==
  ASSUME IInv, [Next]_vars
  PROVE  IInv'
<1>1. TypeOK /\ BootOrder
  BY DEF IInv
<1>2. ASSUME NEW l \in Lines, Raise(l) PROVE IInv'
  <2>1. l \in 0 .. 15
    BY InterruptsAssumption
  <2> QED BY <1>1, <1>2, <2>1 DEF IInv, Raise, TypeOK, BootOrder, timer
<1>3. ASSUME NEW l \in Lines, Accept(l) PROVE IInv'
  <2>1. l \in 0 .. 15
    BY InterruptsAssumption
  <2>2. IF_flag /\ boot \in Running
    BY <1>1, <1>3 DEF Accept, BootOrder
  <2>3. idt /\ base = 32
    BY <1>1, <2>2, StepsApart DEF BootOrder
  <2>4. stage' = "handler"
    BY <1>3, <2>1, <2>3 DEF Accept
  <2>5. /\ irr' \subseteq 0 .. 15 /\ isr' \subseteq 0 .. 15 /\ IF_flag' = FALSE /\ irq' = l
        /\ UNCHANGED <<boot, base, idt, irq_routines, ticks, gui_mode, room>>
    BY <1>1, <1>3, <2>1 DEF Accept, TypeOK, CASCADE, timer
  <2> QED BY <1>1, <2>1, <2>2, <2>4, <2>5 DEF IInv, TypeOK, BootOrder
<1>4. CASE Handler
  <2>1. /\ stage # "main" /\ stage' \in {"iret", "rebooting", "eoi", "aborted"}
        /\ UNCHANGED <<boot, base, idt, irq_routines, IF_flag, irr, irq, gui_mode>>
        /\ room' = room \/ (room > 0 /\ room' = room - 1)
    BY <1>4 DEF Handler, sys_tick_handler, dateOrReturn, render_date_to_top_bar
  <2>2. isr' \subseteq isr /\ (ticks' = ticks \/ ticks' = (ticks + 1) % TICKS)
    BY <1>4, EoiShrinks DEF Handler, sys_tick_handler
  <2>3. ticks' \in 0 .. TICKS - 1
    <3>1. TICKS \in Nat \ {0} /\ ticks + 1 \in Int
      BY <1>1, InterruptsAssumption DEF TypeOK
    <3> QED BY <1>1, <2>2, <3>1, ModRange DEF TypeOK
  <2>4. room' \in 0 .. ROOM
    BY <1>1, <2>1, InterruptsAssumption DEF TypeOK
  <2> QED BY <1>1, <2>1, <2>2, <2>3, <2>4 DEF IInv, TypeOK, BootOrder
<1>5. CASE EndOfInterrupt
  <2>1. isr' \subseteq isr
    BY <1>5, EoiShrinks DEF EndOfInterrupt
  <2> QED BY <1>1, <1>5, <2>1 DEF EndOfInterrupt, IInv, TypeOK, BootOrder, timer
<1>6. CASE Iret
  BY <1>1, <1>6 DEF Iret, IInv, TypeOK, BootOrder, pics, timer
<1>7. ASSUME NEW step, Boot(step) PROVE IInv'
  BY <1>7, BootInv
<1>8. CASE UNCHANGED vars
  BY <1>1, <1>8 DEF IInv, TypeOK, BootOrder, vars
<1> QED BY <1>2, <1>3, <1>4, <1>5, <1>6, <1>7, <1>8 DEF Next

(* Whatever the devices do and whenever they do it: kernel_main turns      *)
(* interrupts on only after the tables are loaded, the controllers are     *)
(* remapped and the timer's and the keyboard's handlers registered, so no  *)
(* interrupt is taken for an exception or finds its handler missing.       *)
THEOREM BootOrderSafe == Spec => []HandlersInPlace
<1>1. Init => IInv
  BY InitInv
<1>2. IInv /\ [Next]_vars => IInv'
  BY NextInv
<1>3. IInv => HandlersInPlace
  BY StepsApart DEF IInv, BootOrder, HandlersInPlace
<1> QED BY <1>1, <1>2, <1>3, PTL DEF Spec

-----------------------------------------------------------------------------
(***************************************************************************)
(* The keyboard and the PS/2 drivers, for every machine.                   *)
(***************************************************************************)
(* The states of the controller and its driver.                            *)
Sent == [from : {0, 1, 2}, byte : Int]
Entry(d, b) == [from |-> d, byte |-> b]
Queues == Seq(Sent)
Flags == [{0, 1} -> BOOLEAN]
Expected == [{0, 1} -> {"command", "lights", "set"}]
Controller ==
  [machine : Machines, late : LateWaits, waits : Nat, out : Queues, latch : Int,
   config : Int, target : {"first", "second", "config"}, scanning : Flags,
   expects : Expected, lights : Int, read : Int, cfg : Int,
   interrupts : BOOLEAN, handler : BOOLEAN, mouse_handler : BOOLEAN, controllers : Flags]

(* The devices wait for the same bytes as before.                          *)
Steady(t, r) ==
  /\ r \in Controller /\ r.machine = t.machine /\ r.target = t.target
  /\ r.expects = t.expects /\ r.lights = t.lights /\ r.config = t.config
  /\ r.late = t.late /\ r.waits = t.waits

(* inb takes the first byte out of the port.                               *)
LEMMA InbGives ==
  ASSUME NEW t \in Controller, NEW r, r = inb(t)
  PROVE  /\ Steady(t, r)
         /\ t.out = <<>> => r.out = <<>>
         /\ t.out # <<>> => r.out = Tail(t.out) /\ r.read = t.out[1].byte
<1>1. t.out \in Seq(Sent) /\ t.latch \in Int
  BY DEF Controller, Queues
<1>2. CASE t.out = <<>>
  <2>1. r = [t EXCEPT !.read = t.latch]
    BY <1>2 DEF inb
  <2> QED BY <1>1, <1>2, <2>1 DEF Controller, Steady
<1>3. CASE t.out # <<>>
  <2> DEFINE b == t.out[1].byte
             q == Tail(t.out)
  <2>1. r = [t EXCEPT !.read = b, !.latch = b, !.out = q]
    BY <1>3 DEF inb
  <2>2. t.out[1] \in Sent /\ q \in Queues
    BY <1>1, <1>3 DEF Queues
  <2>3. b \in Int
    BY <2>2 DEF Sent
  <2> HIDE DEF b, q
  <2>4. r \in Controller
    <3>1. t \in Controller
      OBVIOUS
    <3> QED BY <2>1, <2>2, <2>3, <3>1 DEF Controller
  <2>5. /\ r.machine = t.machine /\ r.target = t.target /\ r.expects = t.expects
        /\ r.late = t.late /\ r.waits = t.waits /\ r.lights = t.lights /\ r.config = t.config
        /\ r.out = q /\ r.read = b
    BY <2>1 DEF Controller
  <2> QED BY <1>3, <2>4, <2>5 DEF Steady, b, q
<1> QED BY <1>2, <1>3

(* An answer of one byte goes to the end of the queue.                     *)
LEMMA AnswersGives ==
  ASSUME NEW t \in Controller, NEW d \in {0, 1, 2}, NEW b \in Int,
         NEW bytes, bytes = <<b>>, NEW r, r = Answers(t, d, bytes)
  PROVE  Steady(t, r) /\ r.out = Append(t.out, Entry(d, b))
<1> DEFINE e == Entry(d, b)
           f == [k \in DOMAIN bytes |-> [from |-> d, byte |-> bytes[k]]]
<1>1. t.out \in Seq(Sent) /\ e \in Sent
  BY DEF Controller, Queues, Sent, Entry
<1>2. f = <<e>>
  BY DEF Entry
<1>3. r = [t EXCEPT !.out = t.out \o f]
  BY DEF Answers
<1> HIDE DEF e, f
<1>4. t.out \o f = Append(t.out, e) /\ Append(t.out, e) \in Queues
  BY <1>1, <1>2 DEF Queues
<1>5. r = [t EXCEPT !.out = Append(t.out, e)]
  BY <1>3, <1>4
<1>6. r \in Controller
  BY <1>4, <1>5 DEF Controller
<1>7. /\ r.machine = t.machine /\ r.target = t.target /\ r.expects = t.expects
      /\ r.late = t.late /\ r.waits = t.waits /\ r.lights = t.lights /\ r.config = t.config
      /\ r.out = Append(t.out, e)
  BY <1>5 DEF Controller
<1> QED BY <1>6, <1>7 DEF Steady, e

(* What the keyboard does with the byte it is sent: 0xED, which announces  *)
(* the lights, the lights, and a byte that is no command.                  *)
LEMMA DataGives ==
  ASSUME NEW t \in Controller, t.target = "first", t.machine.present[0],
         NEW b \in Int, NEW r, r = Data(t, b)
  PROVE  /\ t.expects[0] = "command" /\ b = 237 =>
              /\ r \in Controller /\ r.machine = t.machine /\ r.target = "first"
              /\ r.expects[0] = "lights"
              /\ r.out = Append(t.out, Entry(0, 250))
         /\ t.expects[0] = "lights" =>
              /\ r \in Controller /\ r.machine = t.machine /\ r.target = "first"
              /\ r.expects[0] = "command" /\ r.lights = b
              /\ r.out = Append(t.out, Entry(0, 250))
         /\ t.expects[0] = "command" /\ b \in {30, 67} =>
              Steady(t, r) /\ r.out = Append(t.out, Entry(0, 254))
<1>1. r = Answer(t, 0, b)
  BY DEF Data, Device
<1>2. ASSUME t.expects[0] = "command", b = 237
      PROVE  /\ r \in Controller /\ r.machine = t.machine /\ r.target = "first"
             /\ r.expects[0] = "lights"
             /\ r.out = Append(t.out, Entry(0, 250))
  <2> DEFINE u == [t EXCEPT !.expects[0] = "lights"]
  <2>1. u \in Controller /\ u.machine = t.machine /\ u.target = "first"
        /\ u.expects[0] = "lights" /\ u.out = t.out
    BY DEF Controller, Expected
  <2> DEFINE a == <<250>>
  <2>2. r = Answers(u, 0, a)
    <3>1. b # 255 /\ b # 242 /\ b # 244 /\ b \notin {245, 246} /\ b # 240
          /\ t.expects[0] # "lights" /\ t.expects[0] # "set"
      BY <1>2
    <3> QED BY <1>1, <1>2, <3>1 DEF Answer, ACK
  <2> HIDE DEF u, a
  <2>3. Steady(u, r) /\ r.out = Append(u.out, Entry(0, 250))
    <3>1. 250 \in Int /\ a = <<250>>
      BY DEF a
    <3> QED BY <2>1, <2>2, <3>1, AnswersGives
  <2> QED BY <2>1, <2>3 DEF Steady
<1>3. ASSUME t.expects[0] = "lights"
      PROVE  /\ r \in Controller /\ r.machine = t.machine /\ r.target = "first"
             /\ r.expects[0] = "command" /\ r.lights = b
             /\ r.out = Append(t.out, Entry(0, 250))
  <2> DEFINE u == [t EXCEPT !.expects[0] = "command", !.lights = b]
  <2>1. u \in Controller /\ u.machine = t.machine /\ u.target = "first"
        /\ u.expects[0] = "command" /\ u.lights = b /\ u.out = t.out
    BY DEF Controller, Expected
  <2> DEFINE a == <<250>>
  <2>2. r = Answers(u, 0, a)
    BY <1>1, <1>3 DEF Answer, ACK
  <2> HIDE DEF u, a
  <2>3. Steady(u, r) /\ r.out = Append(u.out, Entry(0, 250))
    <3>1. 250 \in Int /\ a = <<250>>
      BY DEF a
    <3> QED BY <2>1, <2>2, <3>1, AnswersGives
  <2> QED BY <2>1, <2>3 DEF Steady
<1>4. ASSUME t.expects[0] = "command", b \in {30, 67}
      PROVE  Steady(t, r) /\ r.out = Append(t.out, Entry(0, 254))
  <2> DEFINE a == <<254>>
  <2>1. r = Answers(t, 0, a)
    <3>1. b # 255 /\ b # 242 /\ b # 244 /\ b \notin {245, 246} /\ b # 240 /\ b # 237
          /\ t.expects[0] # "lights" /\ t.expects[0] # "set"
      BY <1>4
    <3> QED BY <1>1, <3>1 DEF Answer, RESEND
  <2>2. 254 \in Int /\ a = <<254>>
    OBVIOUS
  <2> HIDE DEF a
  <2> QED BY <2>1, <2>2, AnswersGives
<1> QED BY <1>2, <1>3, <1>4

(* Without a keyboard nobody answers.                                      *)
LEMMA DataIgnored ==
  ASSUME NEW t \in Controller, t.target = "first", ~t.machine.present[0],
         NEW b, NEW r, r = Data(t, b)
  PROVE  r = t
  BY DEF Data, Device

(* Queues of the port.  Mouseless: no byte of the mouse waits in it.       *)
(* Guarded: no acknowledgement waits in front of one of the mouse.  Quiet: *)
(* neither is there.                                                       *)
Mouseless(q) == \A i \in 1 .. Len(q) : q[i].from # 1
Guarded(q) == \A i \in 1 .. Len(q) : q[i].from = 1 => \A j \in 1 .. i - 1 : q[j].byte # 250
Quiet(q) == \A i \in 1 .. Len(q) : q[i].from # 1 /\ q[i].byte # 250

(* What a byte at the end of the queue keeps.                              *)
LEMMA QueueGrows ==
  ASSUME NEW q \in Queues, NEW e, NEW r, r = Append(q, e)
  PROVE  /\ e.from # 1 /\ Mouseless(q) => Mouseless(r)
         /\ e.from # 1 /\ Guarded(q) => Guarded(r)
         /\ e.from # 1 /\ e.byte # 250 /\ Quiet(q) => Quiet(r)
         /\ Quiet(q) => Guarded(r)
<1> DEFINE n == Len(q)
<1>1. /\ n \in Nat /\ Len(r) = n + 1 /\ \A i \in 1 .. n : r[i] = q[i]
      /\ r[n + 1] = e
  BY DEF Queues
<1> HIDE DEF n
<1>2. \A i \in 1 .. n + 1 : i \in 1 .. n \/ i = n + 1
  BY <1>1
<1>3. \A i \in 1 .. n : \A j \in 1 .. i - 1 : j \in 1 .. n
  BY <1>1
<1>4. \A j \in 1 .. (n + 1) - 1 : j \in 1 .. n
  BY <1>1
<1>5. e.from # 1 /\ Mouseless(q) => Mouseless(r)
  BY <1>1, <1>2 DEF Mouseless, n
<1>6. e.from # 1 /\ Guarded(q) => Guarded(r)
  BY <1>1, <1>2, <1>3 DEF Guarded, n
<1>7. e.from # 1 /\ e.byte # 250 /\ Quiet(q) => Quiet(r)
  BY <1>1, <1>2 DEF Quiet, n
<1>8. Quiet(q) => Guarded(r)
  BY <1>1, <1>2, <1>3, <1>4 DEF Guarded, Quiet, n
<1> QED BY <1>5, <1>6, <1>7, <1>8

(* A queue without bytes of the mouse, or a quiet one, is guarded.         *)
LEMMA QueueGuarded ==
  ASSUME NEW q \in Queues, Quiet(q) \/ Mouseless(q)
  PROVE  Guarded(q)
  BY DEF Guarded, Quiet, Mouseless

(* What taking the first byte keeps.                                       *)
LEMMA QueueShrinks ==
  ASSUME NEW q \in Queues, q # <<>>, NEW r, r = Tail(q)
  PROVE  /\ Mouseless(q) => Mouseless(r) /\ q[1].from # 1
         /\ Guarded(q) => Guarded(r) /\ (q[1].byte = 250 => Mouseless(r))
         /\ Quiet(q) => Quiet(r)
<1> DEFINE n == Len(q)
<1>1. /\ n \in Nat \ {0} /\ Len(r) = n - 1 /\ \A i \in 1 .. n - 1 : r[i] = q[i + 1]
  BY DEF Queues
<1> HIDE DEF n
<1>2. \A i \in 1 .. n - 1 : /\ i + 1 \in 1 .. n /\ 1 \in 1 .. (i + 1) - 1
                            /\ \A j \in 1 .. i - 1 : j + 1 \in 1 .. (i + 1) - 1 /\ j \in 1 .. n - 1
  BY <1>1
<1>3. 1 \in 1 .. n
  BY <1>1
<1>4. Mouseless(q) => Mouseless(r) /\ q[1].from # 1
  BY <1>1, <1>2, <1>3 DEF Mouseless, n
<1>5. Quiet(q) => Quiet(r)
  BY <1>1, <1>2 DEF Quiet, n
<1>6. Guarded(q) => Guarded(r)
  BY <1>1, <1>2 DEF Guarded, n
<1>7. Guarded(q) /\ q[1].byte = 250 => Mouseless(r)
  BY <1>1, <1>2 DEF Guarded, Mouseless, n
<1> QED BY <1>4, <1>5, <1>6, <1>7

(* Nothing waits in an empty port.                                         *)
LEMMA EmptyQueue ==
  <<>> \in Queues /\ Mouseless(<<>>) /\ Guarded(<<>>) /\ Quiet(<<>>)
  BY DEF Queues, Mouseless, Guarded, Quiet

-----------------------------------------------------------------------------
(* As the firmware leaves the controller.                                  *)
Fresh(t) ==
  /\ t \in Controller /\ t.target = "first" /\ t.expects = [d \in {0, 1} |-> "command"]
  /\ t.lights = 0 /\ t.config = 65 /\ t.out \in {<<>>, <<Entry(0, 28)>>}

(* The first half of mouse_install: the configuration is asked for, a byte *)
(* is read, and sent to the keyboard, which cannot make sense of it.       *)
LEMMA StatusSent ==
  ASSUME NEW t, Fresh(t), NEW c, c = inb(Command(Command(t, 168), 32)),
         NEW r, r = SendStatus(c)
  PROVE  Steady(t, r) /\ (t.machine.present[0] => Quiet(r.out))
<1> DEFINE a == Command(t, 168)
           b == Command(a, 32)
<1>1. t \in Controller /\ t.config = 65 /\ t.out \in Queues /\ t.target = "first"
      /\ t.expects[0] = "command"
  BY DEF Fresh, Controller
<1>2. Steady(t, a) /\ a.out = t.out
  <2>1. a = (IF t.machine.dual THEN Start(t, 2) ELSE t)
    BY DEF Command
  <2>2. Start(t, 2) = [t EXCEPT !.config = 65]
    BY <1>1 DEF Start, ClearBit, HasBit, ClockBit
  <2>3. Steady(t, [t EXCEPT !.config = 65]) /\ [t EXCEPT !.config = 65].out = t.out
    BY <1>1 DEF Steady, Controller
  <2>4. CASE t.machine.dual
    BY <2>1, <2>2, <2>3, <2>4
  <2>5. CASE ~t.machine.dual
    BY <1>1, <2>1, <2>5 DEF Steady
  <2> QED BY <2>4, <2>5
<1> DEFINE w == <<65>>
<1>3. b = Answers(a, 2, w)
  <2>1. a.config = 65
    BY <1>1, <1>2 DEF Steady
  <2> HIDE DEF a
  <2> QED BY <2>1 DEF Command
<1>4. c = inb(b)
  OBVIOUS
<1> HIDE DEF a, b
<1>5. Steady(a, b) /\ b.out = Append(t.out, Entry(2, 65))
  <2>1. 65 \in Int /\ w = <<65>> /\ 2 \in {0, 1, 2} /\ a \in Controller
    BY <1>2 DEF Steady
  <2> HIDE DEF w
  <2> QED BY <1>2, <1>3, <2>1, AnswersGives
<1>6. b \in Controller /\ b.out \in Queues /\ b.out # <<>> /\ Quiet(b.out)
      /\ b.out[1].byte \in {28, 65}
  <2>1. b \in Controller /\ b.out \in Queues
    BY <1>5 DEF Steady, Controller
  <2> DEFINE e == Entry(2, 65)
             l == Entry(0, 28)
  <2>4. /\ e.from # 1 /\ e.byte = 65 /\ e.byte # 250
        /\ l.from # 1 /\ l.byte = 28 /\ l.byte # 250
    BY DEF Entry
  <2> DEFINE q == t.out
  <2>5. b.out = Append(q, e) /\ q \in Queues /\ (q = <<>> \/ q = <<l>>)
    BY <1>1, <1>5 DEF Fresh
  <2> HIDE DEF e, l, q
  <2>6. b.out # <<>> /\ b.out[1].byte \in {28, 65} /\ Quiet(q)
    <3>1. CASE q = <<>>
      <4>1. b.out = <<e>>
        BY <2>5, <3>1
      <4>2. b.out # <<>> /\ b.out[1] = e
        BY <4>1
      <4> QED BY <2>4, <3>1, <4>2, EmptyQueue
    <3>2. CASE q = <<l>>
      <4>1. Len(q) = 1 /\ q[1] = l
        BY <3>2
      <4>2. b.out # <<>> /\ b.out[1] = l
        BY <2>5, <4>1 DEF Queues
      <4>3. Quiet(q)
        BY <2>4, <3>2 DEF Quiet
      <4> QED BY <2>4, <4>2, <4>3
    <3> QED BY <2>5, <3>1, <3>2
  <2>7. b.out = Append(q, e) /\ q \in Queues
    BY <2>5
  <2>8. Quiet(b.out)
    <3>1. e.from # 1 /\ e.byte # 250
      BY <2>4
    <3>2. Quiet(q)
      BY <2>6
    <3> QED BY <2>7, <3>1, <3>2, QueueGrows
  <2> QED BY <2>1, <2>6, <2>8
<1>7. Steady(b, c) /\ c.out = Tail(b.out) /\ c.read \in {28, 65}
  BY <1>4, <1>6, InbGives
<1>8. Quiet(c.out)
  BY <1>6, <1>7, QueueShrinks
<1>9. Steady(t, c) /\ c.out \in Queues
  BY <1>2, <1>5, <1>7 DEF Steady, Controller
<1> DEFINE x == SetBit(c.read, 2)
<1>10. x \in {30, 67} /\ x \in Int
  BY <1>7 DEF SetBit, HasBit
<1>11. r = Data(c, x)
  BY DEF SendStatus
<1>12. c \in Controller /\ c.target = "first" /\ c.expects[0] = "command" /\ c.machine = t.machine
  BY <1>1, <1>9 DEF Steady
<1> HIDE DEF x
<1>13. CASE t.machine.present[0]
  <2>1. Steady(c, r) /\ r.out = Append(c.out, Entry(0, 254))
    BY <1>10, <1>11, <1>12, <1>13, DataGives
  <2>2. Quiet(r.out)
    <3> DEFINE e == Entry(0, 254)
    <3>1. e.from # 1 /\ e.byte # 250 /\ r.out = Append(c.out, e)
      BY <2>1 DEF Entry
    <3> HIDE DEF e
    <3> QED BY <1>8, <1>9, <3>1, QueueGrows
  <2> QED BY <1>9, <2>1, <2>2 DEF Steady
<1>14. CASE ~t.machine.present[0]
  BY <1>9, <1>11, <1>12, <1>14, DataIgnored
<1> QED BY <1>13, <1>14

(* The second half: the mouse is told to use its defaults.                 *)
LEMMA MouseWritten ==
  ASSUME NEW t \in Controller, t.target = "first", t.expects[1] = "command",
         NEW r, r = mouse_write(t, 246)
  PROVE  Steady(t, r) /\ (r.out = t.out \/ r.out = Append(t.out, Entry(1, 250)))
<1> DEFINE a == [t EXCEPT !.target = "second"]
           b == [a EXCEPT !.target = "first"]
           u == [b EXCEPT !.scanning[1] = FALSE]
           w == <<250>>
<1>1. Command(t, 212) = a
  BY DEF Command
<1>2. a.target = "second"
  BY DEF Controller
<1>3. r = Device(b, 1, 246)
  BY <1>1, <1>2 DEF mouse_write, Data
<1>4. b = t
  BY DEF Controller
<1>5. u \in Controller /\ Steady(t, u) /\ u.out = t.out
  <2>1. [t.scanning EXCEPT ![1] = FALSE] \in Flags
    BY DEF Controller, Flags
  <2>2. u = [t EXCEPT !.scanning = [t.scanning EXCEPT ![1] = FALSE]]
    BY <1>4
  <2> HIDE DEF u
  <2> QED BY <2>1, <2>2 DEF Controller, Steady
<1>6. CASE ~t.machine.present[1]
  <2>1. r = t
    BY <1>3, <1>4, <1>6 DEF Device
  <2> QED BY <2>1 DEF Steady
<1>7. CASE t.machine.present[1]
  <2>1. r = Answer(t, 1, 246)
    BY <1>3, <1>4, <1>7 DEF Device
  <2>2. r = Answers(u, 1, w)
    <3>1. t.expects[1] # "lights" /\ t.expects[1] # "set"
      OBVIOUS
    <3>2. u = [t EXCEPT !.scanning[1] = FALSE]
      BY <1>4
    <3> HIDE DEF u
    <3> QED BY <2>1, <3>1, <3>2 DEF Answer, ACK
  <2> HIDE DEF u
  <2>3. 250 \in Int /\ w = <<250>> /\ 1 \in {0, 1, 2}
    OBVIOUS
  <2> HIDE DEF w
  <2>4. Steady(u, r) /\ r.out = Append(u.out, Entry(1, 250))
    BY <1>5, <2>2, <2>3, AnswersGives
  <2> QED BY <1>5, <2>4 DEF Steady
<1> QED BY <1>6, <1>7

(* mouse_install leaves at most one acknowledgement of the mouse.          *)
LEMMA MouseInstalled ==
  ASSUME NEW t, Fresh(t), NEW r, r = mouse_install(t)
  PROVE  Steady(t, r) /\ (t.machine.present[0] => Guarded(r.out))
<1> DEFINE c == inb(Command(Command(t, 168), 32))
           d == SendStatus(c)
           e == mouse_write(d, 246)
           f == inb(e)
<1>1. r = [f EXCEPT !.mouse_handler = TRUE]
  BY DEF mouse_install, mouse_read
<1>2. Steady(t, d) /\ (t.machine.present[0] => Quiet(d.out))
  BY StatusSent
<1> HIDE DEF c, d
<1>3. d \in Controller /\ d.target = "first" /\ d.expects[1] = "command" /\ d.out \in Queues
  BY <1>2 DEF Steady, Fresh, Controller
<1>4. Steady(d, e) /\ (e.out = d.out \/ e.out = Append(d.out, Entry(1, 250)))
  BY <1>3, MouseWritten
<1> HIDE DEF e
<1>5. e \in Controller /\ e.out \in Queues
  BY <1>4 DEF Steady, Controller
<1>6. Quiet(d.out) => Guarded(e.out)
  <2>1. CASE e.out = d.out
    BY <1>3, <2>1, QueueGuarded
  <2>2. CASE e.out = Append(d.out, Entry(1, 250))
    <3> DEFINE g == Entry(1, 250)
    <3>1. e.out = Append(d.out, g)
      BY <2>2
    <3> HIDE DEF g
    <3> QED BY <1>3, <3>1, QueueGrows
  <2> QED BY <1>4, <2>1, <2>2
<1>7. Steady(e, f) /\ (e.out = <<>> => f.out = <<>>) /\ (e.out # <<>> => f.out = Tail(e.out))
  BY <1>5, InbGives
<1> HIDE DEF f
<1>8. Guarded(e.out) => Guarded(f.out)
  <2>1. CASE e.out = <<>>
    BY <1>7, <2>1, EmptyQueue
  <2>2. CASE e.out # <<>>
    BY <1>5, <1>7, <2>2, QueueShrinks
  <2> QED BY <2>1, <2>2
<1>9. f \in Controller
  BY <1>7 DEF Steady
<1>10. Steady(f, r) /\ r.out = f.out
  BY <1>1, <1>9 DEF Controller, Steady
<1> QED BY <1>2, <1>4, <1>6, <1>7, <1>8, <1>10 DEF Steady

-----------------------------------------------------------------------------
(* The keyboard, as long as no key was pressed: it waits for what          *)
(* switch_led is about to send, and shows what leds_status says between    *)
(* two calls.  An acknowledgement of the mouse, which mouse_install left,  *)
(* is the first one in the port, so that kbd_ack takes it away.            *)
Answering ==
  /\ Guarded(s.out)
  /\ at = "call" => /\ s.expects[0] = "command" /\ s.lights = leds_status
                    /\ Len(todo) < Len(Lights) => Mouseless(s.out)
  /\ at # "call" => s.expects[0] = "lights" /\ Len(todo) < Len(Lights)
  /\ at = "data" => Mouseless(s.out)

KeyboardTypes ==
  /\ keys \in Nat /\ todo \in Seq(Int) /\ leds_status \in Int
  /\ at \in {"call", "ack", "data"} /\ Len(todo) <= Len(Lights)

Driven == s \in Controller /\ s.target = "first" /\ (s.machine.present[0] => Answering)

KeyboardInv ==
  /\ KeyboardTypes
  /\ phase = "mouse_install" => Fresh(s)
  /\ phase \notin {"mouse", "text"} => at = "call" /\ todo = Lights /\ leds_status = 0
  /\ phase \in {"mouse", "text"} /\ keys = 0 => Driven

(* A fresh controller is ready for the lights, and so it is after          *)
(* mouse_install.                                                          *)
LEMMA FreshDriven ==
  ASSUME LightsGiven, at = "call", todo = Lights, leds_status = 0, Fresh(s)
  PROVE  Driven
<1>1. s \in Controller /\ s.target = "first" /\ s.expects[0] = "command" /\ s.lights = 0
  BY DEF Fresh
<1>2. Guarded(s.out)
  <2> DEFINE l == Entry(0, 28)
  <2>1. l.from # 1
    BY DEF Entry
  <2>2. s.out = <<>> \/ s.out = <<l>>
    BY DEF Fresh
  <2> HIDE DEF l
  <2>3. Guarded(<<l>>)
    BY <2>1 DEF Guarded
  <2> QED BY <2>2, <2>3, EmptyQueue
<1>3. ~ (Len(Lights) < Len(Lights))
  BY DEF LightsGiven
<1> QED BY <1>1, <1>2, <1>3 DEF Driven, Answering

(* The same after mouse_install.                                           *)
LEMMA InstalledDriven ==
  ASSUME LightsGiven, at' = "call", todo' = Lights, leds_status' = 0, Fresh(s),
         s' = mouse_install(s)
  PROVE  Driven'
<1>1. Steady(s, s') /\ (s.machine.present[0] => Guarded(s'.out))
  BY MouseInstalled
<1>2. /\ s' \in Controller /\ s'.machine = s.machine /\ s'.target = "first"
      /\ s'.expects[0] = "command" /\ s'.lights = 0
  BY <1>1 DEF Fresh, Steady
<1>3. ~ (Len(Lights) < Len(Lights))
  BY DEF LightsGiven
<1> QED BY <1>1, <1>2, <1>3 DEF Driven, Answering

(* What the firmware leaves.                                               *)
LEMMA FreshStart ==
  ASSUME PInit
  PROVE  Fresh(s) /\ s.waits = 1
<1>1. PICK m \in Machines, late \in LateWaits, left \in {<<>>, <<Entry(0, 28)>>} :
     s = [machine |-> m, late |-> late, waits |-> 1, out |-> left, latch |-> 0,
            config |-> 65, target |-> "first", scanning |-> [d \in {0, 1} |-> d = 0],
            expects |-> [d \in {0, 1} |-> "command"], lights |-> 0, read |-> 0, cfg |-> 0,
            interrupts |-> TRUE, handler |-> FALSE, mouse_handler |-> FALSE,
            controllers |-> [d \in {0, 1} |-> TRUE]]
  BY DEF PInit, Entry
<1>2. left \in Queues
  <2>1. Entry(0, 28) \in Sent
    BY DEF Entry, Sent
  <2>2. CASE left = <<>>
    BY <2>2, EmptyQueue
  <2>3. CASE left = <<Entry(0, 28)>>
    <3> DEFINE l == Entry(0, 28)
    <3>1. l \in Sent /\ left = <<l>>
      BY <2>1, <2>3
    <3> HIDE DEF l
    <3> QED BY <3>1 DEF Queues
  <2> QED BY <2>2, <2>3
<1> DEFINE scan == [d \in {0, 1} |-> d = 0]
           exp == [d \in {0, 1} |-> "command"]
           con == [d \in {0, 1} |-> TRUE]
<1>3. scan \in Flags /\ con \in Flags /\ exp \in Expected
  BY DEF Flags, Expected
<1>4. 0 \in Int
  OBVIOUS
<1>5. s.expects = exp /\ s.target = "first" /\ s.lights = 0 /\ s.config = 65
      /\ s.out = left /\ s.waits = 1
  BY <1>1
<1>6. s = [machine |-> m, late |-> late, waits |-> 1, out |-> left, latch |-> 0,
            config |-> 65, target |-> "first", scanning |-> scan,
            expects |-> exp, lights |-> 0, read |-> 0, cfg |-> 0,
            interrupts |-> TRUE, handler |-> FALSE, mouse_handler |-> FALSE,
            controllers |-> con]
  BY <1>1
<1>7. left \in {<<>>, <<Entry(0, 28)>>}
  OBVIOUS
<1> HIDE DEF scan, con, exp
<1>8. s \in Controller
  BY <1>2, <1>3, <1>4, <1>6 DEF Controller
<1> QED BY <1>5, <1>7, <1>8 DEF Fresh, exp

(* The invariant holds at the start.                                       *)
LEMMA KeyboardStart ==
  ASSUME LightsGiven, KInit
  PROVE  KeyboardInv
<1>1. PInit /\ leds_status = 0 /\ todo = Lights /\ at = "call" /\ keys = 0
  BY DEF KInit
<1>2. KeyboardTypes
  BY <1>1 DEF KeyboardTypes, LightsGiven
<1>3. Fresh(s)
  BY <1>1, FreshStart
<1>4. Driven
  BY <1>1, <1>3, FreshDriven
<1> QED BY <1>1, <1>2, <1>3, <1>4 DEF KeyboardInv

(* The drivers run before the lights: only mouse_install leads there.      *)
LEMMA DriverSteps ==
  ASSUME LightsGiven, KeyboardInv, PNext, UNCHANGED kvars
  PROVE  KeyboardInv'
<1>1. UNCHANGED <<leds_status, todo, at, keys>>
  BY DEF kvars
<1>2. KeyboardTypes'
  BY <1>1 DEF KeyboardInv, KeyboardTypes
<1>3. ASSUME phase \notin {"mouse", "text"}, phase' \notin {"mouse_install", "mouse", "text"}
      PROVE  KeyboardInv'
  BY <1>1, <1>2, <1>3 DEF KeyboardInv
<1>4. CASE MouseInstall
  <2>1. phase = "mouse_install" /\ phase' = "mouse" /\ s' = mouse_install(s)
    BY <1>4 DEF MouseInstall, Step
  <2>2. Fresh(s) /\ at' = "call" /\ todo' = Lights /\ leds_status' = 0
    BY <1>1, <2>1 DEF KeyboardInv
  <2>3. Driven'
    BY <2>1, <2>2, InstalledDriven
  <2> QED BY <1>2, <2>1, <2>3 DEF KeyboardInv
<1>5. CASE SelfTest
  <2>1. phase = "begin" /\ phase' \in {"channels", "failed"}
    BY <1>5 DEF SelfTest
  <2> QED BY <1>3, <2>1
<1>6. CASE \/ Channels \/ Tests \/ Reset0 \/ Reset1 \/ EnableFirst
           \/ Identify0 \/ Identify1 \/ End \/ Initialize
  <2>1. phase \notin {"mouse", "text"} /\ phase' \notin {"mouse_install", "mouse", "text"}
    BY <1>6 DEF Channels, Tests, Reset0, Reset1, EnableFirst, Identify0,
                Identify1, End, Initialize, Step
  <2> QED BY <1>3, <2>1
<1> QED BY <1>4, <1>5, <1>6 DEF PNext

(* The lights stay numbers.                                                *)
LEMMA LightsNumber ==
  ASSUME NEW a \in Int, NEW b \in Int
  PROVE  Switched(a, b) \in Int
<1>1. Or(a, b) \in Int
  <2> DEFINE x == SetBit(SetBit(SetBit(0, 1), 2), 4)
             p == IF HasBit(a, 1) \/ HasBit(b, 1) THEN 0 ELSE 1
             q == IF HasBit(a, 2) \/ HasBit(b, 2) THEN 0 ELSE 2
             r == IF HasBit(a, 4) \/ HasBit(b, 4) THEN 0 ELSE 4
  <2>1. x \in Int
    BY DEF SetBit
  <2>2. p \in Int /\ q \in Int /\ r \in Int
    OBVIOUS
  <2>3. Or(a, b) = x - p - q - r
    BY DEF Or
  <2> HIDE DEF x, p, q, r
  <2> QED BY <2>1, <2>2, <2>3
<1> QED BY <1>1 DEF Switched

(* Reading the port: kbd_ack or the handler of the keyboard.               *)
LEMMA PortRead ==
  ASSUME s \in Controller, NEW r, r = inb(s), Guarded(s.out)
  PROVE  /\ Steady(s, r) /\ Guarded(r.out)
         /\ Mouseless(s.out) \/ r.read = 250 => Mouseless(r.out)
<1>1. /\ Steady(s, r) /\ s.out \in Queues
      /\ s.out = <<>> => r.out = <<>>
      /\ s.out # <<>> => r.out = Tail(s.out) /\ r.read = s.out[1].byte
  BY InbGives DEF Controller
<1>2. CASE s.out = <<>>
  BY <1>1, <1>2, EmptyQueue
<1>3. CASE s.out # <<>>
  <2> DEFINE q == s.out
             n == r.out
  <2>1. q \in Queues /\ q # <<>> /\ n = Tail(q) /\ r.read = q[1].byte /\ Guarded(q)
    BY <1>1, <1>3
  <2> HIDE DEF q, n
  <2>2. /\ Mouseless(q) => Mouseless(n)
        /\ Guarded(n) /\ (q[1].byte = 250 => Mouseless(n))
    BY <2>1, QueueShrinks
  <2> QED BY <1>1, <2>1, <2>2 DEF q, n
<1> QED BY <1>1, <1>2, <1>3

(* Every step keeps it.                                                    *)
LEMMA KeyboardStep ==
  ASSUME LightsGiven, KeyboardInv, [KNext]_(allvars)
  PROVE  KeyboardInv'
<1>1. KeyboardTypes
  BY DEF KeyboardInv
<1>2. CASE UNCHANGED allvars
  BY <1>2 DEF allvars, KeyboardInv, KeyboardTypes, Driven, Answering
<1>3. CASE PNext /\ UNCHANGED kvars
  BY <1>3, DriverSteps
<1>4. ASSUME Booted, KeyboardTypes', phase' = phase, keys' = keys, keys = 0 => Driven'
      PROVE  KeyboardInv'
  BY <1>4 DEF KeyboardInv, Booted
<1>5. ASSUME Booted, keys = 0
      PROVE  s \in Controller /\ s.target = "first" /\ (s.machine.present[0] => Answering)
  BY <1>5 DEF KeyboardInv, Booted, Driven
<1>6. ASSUME NEW b, s' = Data(s, b), Booted, keys = 0, ~s.machine.present[0]
      PROVE  Driven'
  <2>1. s' = s
    BY <1>5, <1>6, DataIgnored
  <2> QED BY <1>5, <1>6, <2>1 DEF Driven
<1>7. CASE switch_led
  <2>1. /\ Booted /\ at = "call" /\ todo # <<>> /\ at' = "ack" /\ phase' = phase
        /\ keys' = keys /\ leds_status' = Switched(leds_status, Head(todo))
        /\ todo' = Tail(todo) /\ s' = Data(s, 237)
    BY <1>7 DEF switch_led
  <2>2. /\ todo' \in Seq(Int) /\ Len(todo') = Len(todo) - 1 /\ Head(todo) \in Int
        /\ Len(todo) \in Nat
    BY <1>1, <2>1 DEF KeyboardTypes
  <2>3. leds_status' \in Int
    <3> DEFINE h == Head(todo)
    <3>1. h \in Int /\ leds_status \in Int /\ leds_status' = Switched(leds_status, h)
      BY <1>1, <2>1, <2>2 DEF KeyboardTypes
    <3> HIDE DEF h
    <3> QED BY <3>1, LightsNumber
  <2>4. Len(todo') < Len(Lights)
    BY <1>1, <2>2 DEF KeyboardTypes, LightsGiven
  <2>5. KeyboardTypes'
    BY <1>1, <2>1, <2>2, <2>3, <2>4 DEF KeyboardTypes, LightsGiven
  <2>6. ASSUME keys = 0, s.machine.present[0] PROVE Driven'
    <3>1. s \in Controller /\ s.target = "first" /\ Answering
      BY <1>5, <2>1, <2>6
    <3>2. s.expects[0] = "command" /\ Guarded(s.out) /\ s.out \in Queues
      BY <2>1, <3>1 DEF Answering, Controller
    <3>3. /\ s' \in Controller /\ s'.machine = s.machine /\ s'.target = "first"
          /\ s'.expects[0] = "lights" /\ s'.out = Append(s.out, Entry(0, 250))
      <4> DEFINE b == 237
      <4>1. b \in Int /\ b = 237 /\ s' = Data(s, b)
        BY <2>1
      <4> HIDE DEF b
      <4> QED BY <2>6, <3>1, <3>2, <4>1, DataGives
    <3>4. Guarded(s'.out)
      <4> DEFINE e == Entry(0, 250)
      <4>1. e.from # 1 /\ s'.out = Append(s.out, e)
        BY <3>3 DEF Entry
      <4> HIDE DEF e
      <4> QED BY <3>2, <4>1, QueueGrows
    <3> QED BY <2>1, <2>4, <3>3, <3>4 DEF Driven, Answering
  <2> QED BY <1>4, <1>6, <2>1, <2>5, <2>6
<1>8. CASE kbd_ack
  <2>1. /\ Booted /\ at = "ack" /\ s' = inb(s) /\ phase' = phase
        /\ at' \in {"ack", "data"} /\ (at' = "data" => inb(s).read = 250)
        /\ leds_status' = leds_status /\ todo' = todo /\ keys' = keys
    BY <1>8 DEF kbd_ack, ACK
  <2>2. KeyboardTypes'
    BY <1>1, <2>1 DEF KeyboardTypes
  <2>3. ASSUME keys = 0 PROVE Driven'
    <3>1. s \in Controller /\ s.target = "first" /\ (s.machine.present[0] => Answering)
      BY <1>5, <2>1, <2>3
    <3>2. Steady(s, s')
      BY <2>1, <3>1, InbGives
    <3>3. ASSUME s.machine.present[0] PROVE Answering'
      <4>1. Answering
        BY <3>1, <3>3
      <4>2. Guarded(s.out) /\ s.expects[0] = "lights" /\ Len(todo) < Len(Lights)
        BY <2>1, <4>1 DEF Answering
      <4>3. Guarded(s'.out) /\ (s'.read = 250 => Mouseless(s'.out))
        BY <2>1, <3>1, <4>2, PortRead
      <4> QED BY <2>1, <3>2, <4>2, <4>3 DEF Answering, Steady
    <3> QED BY <3>1, <3>2, <3>3 DEF Driven, Steady
  <2> QED BY <1>4, <2>1, <2>2, <2>3
<1>9. CASE SendLights
  <2>1. /\ Booted /\ at = "data" /\ s' = Data(s, leds_status) /\ phase' = phase
        /\ at' = "call" /\ leds_status' = leds_status /\ todo' = todo /\ keys' = keys
    BY <1>9 DEF SendLights
  <2>2. KeyboardTypes'
    BY <1>1, <2>1 DEF KeyboardTypes
  <2>3. ASSUME keys = 0, s.machine.present[0] PROVE Driven'
    <3>1. s \in Controller /\ s.target = "first" /\ Answering
      BY <1>5, <2>1, <2>3
    <3>2. /\ s.expects[0] = "lights" /\ Guarded(s.out) /\ Mouseless(s.out)
          /\ s.out \in Queues /\ leds_status \in Int
      BY <1>1, <2>1, <3>1 DEF Answering, Controller, KeyboardTypes
    <3>3. /\ s' \in Controller /\ s'.machine = s.machine /\ s'.target = "first"
          /\ s'.expects[0] = "command" /\ s'.lights = leds_status
          /\ s'.out = Append(s.out, Entry(0, 250))
      BY <2>1, <2>3, <3>1, <3>2, DataGives
    <3>4. Guarded(s'.out) /\ Mouseless(s'.out)
      <4> DEFINE e == Entry(0, 250)
      <4>1. e.from # 1 /\ s'.out = Append(s.out, e)
        BY <3>3 DEF Entry
      <4> HIDE DEF e
      <4> QED BY <3>2, <4>1, QueueGrows
    <3> QED BY <2>1, <3>3, <3>4 DEF Driven, Answering
  <2> QED BY <1>4, <1>6, <2>1, <2>2, <2>3
<1>10. CASE sys_key_handler
  <2>1. /\ Booted /\ s' = inb(s) /\ phase' = phase /\ at' = at
        /\ leds_status' = leds_status /\ todo' = todo /\ keys' = keys
    BY <1>10 DEF sys_key_handler
  <2>2. KeyboardTypes'
    BY <1>1, <2>1 DEF KeyboardTypes
  <2>3. ASSUME keys = 0 PROVE Driven'
    <3>1. s \in Controller /\ s.target = "first" /\ (s.machine.present[0] => Answering)
      BY <1>5, <2>1, <2>3
    <3>2. Steady(s, s')
      BY <2>1, <3>1, InbGives
    <3>3. ASSUME s.machine.present[0] PROVE Answering'
      <4>1. Answering
        BY <3>1, <3>3
      <4>2. Guarded(s'.out) /\ (Mouseless(s.out) => Mouseless(s'.out))
        BY <2>1, <3>1, <4>1, PortRead DEF Answering
      <4> QED BY <2>1, <3>2, <4>1, <4>2 DEF Answering, Steady
    <3> QED BY <3>1, <3>2, <3>3 DEF Driven, Steady
  <2> QED BY <1>4, <2>1, <2>2, <2>3
<1>11. CASE KeyPress
  <2>1. /\ Booted /\ phase' = phase /\ at' = at /\ keys' = keys + 1
        /\ leds_status' = leds_status /\ todo' = todo
    BY <1>11 DEF KeyPress
  <2>2. KeyboardTypes' /\ keys' # 0
    BY <1>1, <2>1 DEF KeyboardTypes
  <2> QED BY <2>1, <2>2 DEF KeyboardInv, Booted
<1> QED BY <1>2, <1>3, <1>7, <1>8, <1>9, <1>10, <1>11 DEF KNext

(* When the lights are set and no key was pressed meanwhile, the keyboard  *)
(* shows what leds_status says and the port is not blocked by the mouse    *)
(* (KeyboardFree of Keyboard), on every machine, for every list of calls   *)
(* of switch_led and wherever the handler of the keyboard comes between    *)
(* kbd_ack's polls.                                                        *)
THEOREM KeyboardStaysFree ==
  ASSUME LightsGiven
  PROVE  KSpec => []KeyboardFree
<1>1. KInit => KeyboardInv
  BY KeyboardStart
<1>2. LightsGiven /\ KeyboardInv /\ [KNext]_(allvars) => KeyboardInv'
  BY KeyboardStep
<1>3. KeyboardInv => KeyboardFree
  <2> SUFFICES ASSUME KeyboardInv, Booted, Done, keys = 0, s.machine.present[0]
               PROVE  s.lights = leds_status /\ (s.out = <<>> \/ s.out[1].from # 1)
    BY DEF KeyboardFree
  <2>1. s \in Controller /\ Answering
    BY DEF KeyboardInv, Booted, Driven
  <2>2. todo = <<>> /\ at = "call" /\ Len(todo) < Len(Lights)
    BY DEF Done, LightsGiven
  <2>3. s.lights = leds_status /\ Mouseless(s.out) /\ s.out \in Queues
    BY <2>1, <2>2 DEF Answering, Controller
  <2> QED BY <2>3, QueueShrinks
<1>4. LightsGiven
  OBVIOUS
<1> QED BY <1>1, <1>2, <1>3, <1>4, PTL DEF KSpec

-----------------------------------------------------------------------------
(* Only what device d waits for and what waits in the port may differ, and *)
(* there at most n bytes were added.                                       *)
Answered(t, r, d, n) ==
  /\ r \in Controller /\ r.machine = t.machine /\ r.late = t.late /\ r.waits = t.waits /\ r.target = t.target
  /\ \A i \in {0, 1} : i # d => r.expects[i] = t.expects[i]
  /\ Len(r.out) <= Len(t.out) + n

(* A device that changed in what it waits for or does, and answers.        *)
Turned(t, u, d) ==
  /\ u \in Controller /\ u.machine = t.machine /\ u.late = t.late /\ u.waits = t.waits /\ u.target = t.target
  /\ \A i \in {0, 1} : i # d => u.expects[i] = t.expects[i]
  /\ u.out = t.out

(* How the port grows with an answer.                                      *)
LEMMA AnswersAdd ==
  ASSUME NEW t \in Controller, NEW d \in {0, 1, 2}, NEW u, Turned(t, u, d),
         NEW bytes \in Seq(Int), NEW n \in Nat, Len(bytes) <= n,
         NEW r, r = Answers(u, d, bytes)
  PROVE  Answered(t, r, d, n) /\ r.expects = u.expects
<1> DEFINE f == [k \in DOMAIN bytes |-> [from |-> d, byte |-> bytes[k]]]
           q == u.out \o f
<1>1. r = [u EXCEPT !.out = q]
  BY DEF Answers
<1>2. u.out \in Seq(Sent) /\ u \in Controller
  BY DEF Controller, Queues, Turned
<1>3. f \in Seq(Sent) /\ Len(f) = Len(bytes)
  <2>1. DOMAIN bytes = 1 .. Len(bytes) /\ Len(bytes) \in Nat
    OBVIOUS
  <2>2. \A k \in 1 .. Len(bytes) : [from |-> d, byte |-> bytes[k]] \in Sent
    BY DEF Sent
  <2>3. f \in [1 .. Len(bytes) -> Sent]
    BY <2>1, <2>2
  <2> HIDE DEF f
  <2> QED BY <2>1, <2>3
<1> HIDE DEF f
<1>4. q \in Queues /\ Len(q) = Len(u.out) + Len(bytes)
  <2> DEFINE o == u.out
  <2>1. o \in Seq(Sent) /\ q = o \o f
    BY <1>2
  <2> HIDE DEF o, q
  <2>2. q \in Seq(Sent) /\ Len(q) = Len(o) + Len(f)
    BY <1>3, <2>1
  <2> QED BY <1>3, <2>2 DEF Queues, o
<1>5. Len(u.out) \in Nat /\ Len(bytes) \in Nat
  BY <1>2
<1> HIDE DEF q
<1>6. r \in Controller
  BY <1>1, <1>2, <1>4 DEF Controller
<1>7. /\ r.machine = u.machine /\ r.late = u.late /\ r.waits = u.waits /\ r.target = u.target
      /\ r.expects = u.expects /\ r.out = q
  BY <1>1, <1>2 DEF Controller
<1>8. Len(r.out) <= Len(t.out) + n
  BY <1>4, <1>5, <1>7 DEF Turned
<1> QED BY <1>6, <1>7, <1>8 DEF Answered, Turned

(* What a device is waiting for.                                           *)
Expecting(t, d, e) == [t EXCEPT !.expects[d] = e]

(* A device that waits for something else now.                             *)
LEMMA ExpectingGives ==
  ASSUME NEW t \in Controller, NEW d \in {0, 1}, NEW e \in {"command", "lights", "set"},
         NEW r, r = Expecting(t, d, e)
  PROVE  Turned(t, r, d) /\ r.expects[d] = e
<1> DEFINE f == [t.expects EXCEPT ![d] = e]
<1>1. f \in Expected /\ f[d] = e /\ \A i \in {0, 1} : i # d => f[i] = t.expects[i]
  BY DEF Controller, Expected
<1>2. r = [t EXCEPT !.expects = f]
  BY DEF Expecting
<1> HIDE DEF f
<1>3. r \in Controller
  BY <1>1, <1>2 DEF Controller
<1>4. /\ r.machine = t.machine /\ r.late = t.late /\ r.waits = t.waits /\ r.target = t.target
      /\ r.out = t.out /\ r.expects = f
  BY <1>2 DEF Controller
<1> QED BY <1>1, <1>3, <1>4 DEF Turned

(* A device that shows other lights.                                       *)
LEMMA LightsSet ==
  ASSUME NEW t \in Controller, NEW d \in {0, 1}, NEW b \in Int,
         NEW u, Turned(t, u, d), NEW r, r = [u EXCEPT !.lights = b]
  PROVE  Turned(t, r, d) /\ r.expects = u.expects
<1>1. u \in Controller
  BY DEF Turned
<1>2. r \in Controller
  BY <1>1 DEF Controller
<1>3. /\ r.machine = u.machine /\ r.late = u.late /\ r.waits = u.waits /\ r.target = u.target
      /\ r.out = u.out /\ r.expects = u.expects
  BY <1>1 DEF Controller
<1> QED BY <1>2, <1>3 DEF Turned

(* A device that scans or stops.                                           *)
LEMMA ScanningGives ==
  ASSUME NEW t \in Controller, NEW d \in {0, 1}, NEW v \in BOOLEAN,
         NEW r, r = [t EXCEPT !.scanning[d] = v]
  PROVE  Turned(t, r, d) /\ r.expects = t.expects
<1> DEFINE f == [t.scanning EXCEPT ![d] = v]
<1>1. f \in Flags
  BY DEF Controller, Flags
<1>2. r = [t EXCEPT !.scanning = f]
  OBVIOUS
<1> HIDE DEF f
<1>3. r \in Controller
  BY <1>1, <1>2 DEF Controller
<1>4. /\ r.machine = t.machine /\ r.late = t.late /\ r.waits = t.waits /\ r.target = t.target
      /\ r.out = t.out /\ r.expects = t.expects
  BY <1>2 DEF Controller
<1> QED BY <1>3, <1>4 DEF Turned

(* How many bytes the answer to a byte the driver sends has.               *)
Fits(d, b, n) ==
  \/ b = 255 /\ n = 2 + d
  \/ b = 242 /\ n = 3
  \/ b \in {240, 244, 245} /\ n = 1
  \/ b = 0 /\ n = 2

(* What device d answers byte b with.                                      *)
Replied(t, r, d, b) ==
  /\ \E n \in Nat : Answered(t, r, d, n)
  /\ \A n \in Nat :
       Fits(d, b, n) /\ (t.expects[d] = "command" \/ (t.expects[d] = "set" /\ b = 0)) =>
         Answered(t, r, d, n) /\ r.expects[d] = (IF b = 240 THEN "set" ELSE "command")

(* Every answer is one of these.                                           *)
LEMMA AnswerGives ==
  ASSUME MachinesGiven, NEW t \in Controller, NEW d \in {0, 1}, NEW b \in Int,
         NEW r, r = Answer(t, d, b)
  PROVE  Replied(t, r, d, b)
<1> DEFINE x == t.expects[d]
<1>1. /\ t.machine \in Machines /\ x \in {"command", "lights", "set"}
      /\ Len(t.out) \in Nat /\ d \in {0, 1, 2}
  BY DEF Controller, Expected, Queues
<1>2. Turned(t, t, d)
  BY DEF Turned
<1> DEFINE w == t.machine.reset[d]
           j == t.machine.id[d]
           a == <<250>>
           aa == <<250, 2>>
           ai == <<250>> \o j
           no == <<254>>
<1>3. /\ w \in Seq(Int) /\ Len(w) <= 2 + d
      /\ j \in Seq(Int) /\ Len(j) <= 2
  <2>1. CASE d = 0
    BY <1>1, <2>1 DEF MachinesGiven
  <2>2. CASE d = 1
    BY <1>1, <2>2 DEF MachinesGiven
  <2> QED BY <2>1, <2>2
<1>4. /\ a \in Seq(Int) /\ Len(a) <= 1 /\ aa \in Seq(Int) /\ Len(aa) <= 2
      /\ no \in Seq(Int) /\ Len(no) <= 1
  OBVIOUS
<1>5. ai \in Seq(Int) /\ Len(ai) <= 3
  <2> HIDE DEF j
  <2> QED BY <1>3
<1> DEFINE com == Expecting(t, d, "command")
           set == Expecting(t, d, "set")
           lig == Expecting(t, d, "lights")
           off == [com EXCEPT !.lights = b]
           yes == [t EXCEPT !.scanning[d] = TRUE]
           nay == [t EXCEPT !.scanning[d] = FALSE]
<1>6. /\ x = "lights" => r = Answers(off, d, a)
      /\ x = "set" => r = Answers(com, d, aa)
  BY DEF Answer, ACK, Expecting
<1>7. ASSUME x = "command"
      PROVE  /\ b = 255 => r = Answers(t, d, w)
             /\ b = 242 => r = Answers(t, d, ai)
             /\ b = 244 => r = Answers(yes, d, a)
             /\ b \in {245, 246} => r = Answers(nay, d, a)
             /\ b = 240 => r = Answers(set, d, a)
             /\ b = 237 => r = Answers(lig, d, a)
             /\ b \notin {255, 242, 244, 245, 246, 240, 237} => r = Answers(t, d, no)
  <2>1. x # "lights" /\ x # "set"
    BY <1>7
  <2>2. CASE b = 255
    BY <1>7, <2>1, <2>2 DEF Answer
  <2>3. CASE b = 242
    BY <1>7, <2>1, <2>3 DEF Answer, ACK
  <2>4. CASE b = 244
    BY <1>7, <2>1, <2>4 DEF Answer, ACK
  <2>5. CASE b \in {245, 246}
    BY <1>7, <2>1, <2>5 DEF Answer, ACK
  <2>6. CASE b = 240
    BY <1>7, <2>1, <2>6 DEF Answer, ACK, Expecting
  <2>7. CASE b = 237
    BY <1>7, <2>1, <2>7 DEF Answer, ACK, Expecting
  <2>8. CASE b \notin {255, 242, 244, 245, 246, 240, 237}
    BY <1>7, <2>1, <2>8 DEF Answer, RESEND
  <2> QED BY <2>2, <2>3, <2>4, <2>5, <2>6, <2>7, <2>8
<1>8. /\ Turned(t, com, d) /\ com.expects[d] = "command"
      /\ Turned(t, set, d) /\ set.expects[d] = "set"
      /\ Turned(t, lig, d)
  BY ExpectingGives
<1>9. Turned(t, off, d)
  <2> HIDE DEF com
  <2> QED BY <1>8, LightsSet
<1>10. /\ Turned(t, yes, d) /\ yes.expects = t.expects
       /\ Turned(t, nay, d) /\ nay.expects = t.expects
  <2>1. TRUE \in BOOLEAN /\ FALSE \in BOOLEAN
    OBVIOUS
  <2> QED BY <2>1, ScanningGives
<1> HIDE DEF w, j, a, aa, ai, no, com, set, lig, off, yes, nay
<1>11. ASSUME NEW u, Turned(t, u, d), NEW bytes \in Seq(Int), NEW m \in Nat, Len(bytes) <= m,
              r = Answers(u, d, bytes)
       PROVE  Answered(t, r, d, m) /\ r.expects = u.expects
  BY <1>1, <1>11, AnswersAdd
<1>12. ASSUME NEW m \in Nat, Answered(t, r, d, m),
              \A n \in Nat : Fits(d, b, n) /\ (x = "command" \/ (x = "set" /\ b = 0)) =>
                 m <= n /\ r.expects[d] = (IF b = 240 THEN "set" ELSE "command")
       PROVE  Replied(t, r, d, b)
  <2>1. ASSUME NEW n \in Nat, m <= n PROVE Answered(t, r, d, n)
    <3>1. Len(r.out) \in Nat
      BY <1>12 DEF Answered, Controller, Queues
    <3> QED BY <1>1, <1>12, <2>1, <3>1 DEF Answered
  <2> QED BY <1>12, <2>1 DEF Replied
<1>13. CASE x = "lights"
  <2>1. Answered(t, r, d, 1)
    BY <1>4, <1>6, <1>9, <1>11, <1>13
  <2> QED BY <1>12, <1>13, <2>1
<1>14. CASE x = "set"
  <2>1. Answered(t, r, d, 2) /\ r.expects[d] = "command"
    BY <1>4, <1>6, <1>8, <1>11, <1>14
  <2> QED BY <1>12, <1>14, <2>1 DEF Fits
<1>15. CASE x = "command"
  <2>1. CASE b = 255
    <3>1. Answered(t, r, d, 2 + d) /\ r.expects[d] = "command"
      BY <1>2, <1>3, <1>7, <1>11, <1>15, <2>1
    <3> QED BY <1>12, <2>1, <3>1 DEF Fits
  <2>2. CASE b = 242
    <3>1. Answered(t, r, d, 3) /\ r.expects[d] = "command"
      BY <1>2, <1>5, <1>7, <1>11, <1>15, <2>2
    <3> QED BY <1>12, <2>2, <3>1 DEF Fits
  <2>3. CASE b = 244
    <3>1. Answered(t, r, d, 1) /\ r.expects[d] = "command"
      BY <1>4, <1>7, <1>10, <1>11, <1>15, <2>3
    <3> QED BY <1>12, <2>3, <3>1 DEF Fits
  <2>4. CASE b \in {245, 246}
    <3>1. Answered(t, r, d, 1) /\ r.expects[d] = "command"
      BY <1>4, <1>7, <1>10, <1>11, <1>15, <2>4
    <3> QED BY <1>12, <2>4, <3>1 DEF Fits
  <2>5. CASE b = 240
    <3>1. Answered(t, r, d, 1) /\ r.expects[d] = "set"
      BY <1>4, <1>7, <1>8, <1>11, <1>15, <2>5
    <3> QED BY <1>12, <2>5, <3>1 DEF Fits
  <2>6. CASE b = 237
    <3>1. Answered(t, r, d, 1)
      BY <1>4, <1>7, <1>8, <1>11, <1>15, <2>6
    <3> QED BY <1>12, <2>6, <3>1 DEF Fits
  <2>7. CASE b \notin {255, 242, 244, 245, 246, 240, 237}
    <3>1. Answered(t, r, d, 1) /\ r.expects[d] = "command"
      BY <1>2, <1>4, <1>7, <1>11, <1>15, <2>7
    <3> QED BY <1>12, <2>7, <3>1 DEF Fits
  <2> QED BY <2>1, <2>2, <2>3, <2>4, <2>5, <2>6, <2>7
<1> QED BY <1>1, <1>13, <1>14, <1>15

(* Nothing that InSync looks at differs, except that at most n bytes more  *)
(* wait in the port.                                                       *)
Matches(t, r, n) ==
  /\ r \in Controller /\ r.machine = t.machine /\ r.late = t.late /\ r.waits = t.waits
  /\ r.expects = t.expects /\ Len(r.out) <= Len(t.out) + n

(* A bit set or cleared in a number.                                       *)
LEMMA BitsNumber ==
  ASSUME NEW a \in Int, NEW b \in Int
  PROVE  SetBit(a, b) \in Int /\ ClearBit(a, b) \in Int
  BY DEF SetBit, ClearBit

(* Another configuration.                                                  *)
LEMMA ConfigGives ==
  ASSUME NEW t \in Controller, NEW v \in Int, NEW r, r = [t EXCEPT !.config = v]
  PROVE  Matches(t, r, 0) /\ r.target = t.target
<1>1. r \in Controller
  BY DEF Controller
<1>2. /\ r.machine = t.machine /\ r.late = t.late /\ r.waits = t.waits /\ r.target = t.target
      /\ r.out = t.out /\ r.expects = t.expects
  BY DEF Controller
<1>3. Len(t.out) \in Nat
  BY DEF Controller, Queues
<1> QED BY <1>1, <1>2, <1>3 DEF Matches

(* Another addressee of the next byte.                                     *)
LEMMA TargetGives ==
  ASSUME NEW t \in Controller, NEW v \in {"first", "second", "config"},
         NEW r, r = [t EXCEPT !.target = v]
  PROVE  Matches(t, r, 0) /\ r.target = v /\ r.out = t.out
<1>1. r \in Controller
  BY DEF Controller
<1>2. /\ r.machine = t.machine /\ r.late = t.late /\ r.waits = t.waits /\ r.target = v
      /\ r.out = t.out /\ r.expects = t.expects
  BY DEF Controller
<1>3. Len(t.out) \in Nat
  BY DEF Controller, Queues
<1> QED BY <1>1, <1>2, <1>3 DEF Matches

(* What a byte to the command port does.                                   *)
LEMMA CommandGives ==
  ASSUME MachinesGiven, NEW t \in Controller, NEW c, NEW r, r = Command(t, c)
  PROVE  /\ c \in {173, 167, 174, 168} => Matches(t, r, 0) /\ r.target = t.target
         /\ c \in {32, 170, 171, 169} => Matches(t, r, 1) /\ r.target = t.target
         /\ c = 96 => Matches(t, r, 0) /\ r.target = "config"
         /\ c = 212 => Matches(t, r, 0) /\ r.target = "second"
<1>1. t.machine \in Machines /\ t.config \in Int /\ Len(t.out) \in Nat
  BY DEF Controller, Queues
<1>2. CASE c \in {173, 167, 174, 168}
  <2>1. \/ r = t
        \/ r = [t EXCEPT !.config = SetBit(t.config, 16)]
        \/ r = [t EXCEPT !.config = SetBit(t.config, 32)]
        \/ r = [t EXCEPT !.config = ClearBit(t.config, 16)]
        \/ r = [t EXCEPT !.config = ClearBit(t.config, 32)]
    <3>1. CASE c = 173
      BY <3>1 DEF Command, Stop, ClockBit
    <3>2. CASE c = 167
      BY <3>2 DEF Command, Stop, ClockBit
    <3>3. CASE c = 174
      BY <3>3 DEF Command, Start, ClockBit
    <3>4. CASE c = 168
      BY <3>4 DEF Command, Start, ClockBit
    <3> QED BY <1>2, <3>1, <3>2, <3>3, <3>4
  <2> DEFINE e == SetBit(t.config, 16)
             f == SetBit(t.config, 32)
             g == ClearBit(t.config, 16)
             h == ClearBit(t.config, 32)
  <2>2. e \in Int /\ f \in Int /\ g \in Int /\ h \in Int
    <3> DEFINE x == 16
               y == 32
    <3>1. x \in Int /\ y \in Int
      OBVIOUS
    <3>2. e = SetBit(t.config, x) /\ f = SetBit(t.config, y)
          /\ g = ClearBit(t.config, x) /\ h = ClearBit(t.config, y)
      OBVIOUS
    <3> HIDE DEF x, y, e, f, g, h
    <3> QED BY <1>1, <3>1, <3>2, BitsNumber
  <2>3. Matches(t, t, 0)
    BY <1>1 DEF Matches
  <2> HIDE DEF e, f, g, h
  <2>4. Matches(t, r, 0) /\ r.target = t.target
    <3>1. \/ r = t \/ r = [t EXCEPT !.config = e] \/ r = [t EXCEPT !.config = f]
          \/ r = [t EXCEPT !.config = g] \/ r = [t EXCEPT !.config = h]
      BY <2>1 DEF e, f, g, h
    <3> QED BY <2>2, <2>3, <3>1, ConfigGives
  <2>5. c \notin {32, 170, 171, 169} /\ c # 96 /\ c # 212
    BY <1>2
  <2> QED BY <2>4, <2>5
<1>3. CASE c \in {32, 170, 171, 169}
  <2> DEFINE m == t.machine
             a == <<t.config>>
             b == <<m.selftest>>
             e == <<m.test[0]>>
             f == <<m.test[1]>>
  <2>1. r = Answers(t, 2, a) \/ r = Answers(t, 2, b) \/ r = Answers(t, 2, e)
        \/ r = Answers(t, 2, f)
    <3>1. CASE c = 32
      BY <3>1 DEF Command
    <3>2. CASE c = 170
      BY <3>2 DEF Command
    <3>3. CASE c = 171
      BY <3>3 DEF Command
    <3>4. CASE c = 169
      BY <3>4 DEF Command
    <3> QED BY <1>3, <3>1, <3>2, <3>3, <3>4
  <2>2. m.selftest \in Int /\ m.test[0] \in Int /\ m.test[1] \in Int
    BY <1>1 DEF MachinesGiven
  <2>3. /\ a \in Seq(Int) /\ b \in Seq(Int) /\ e \in Seq(Int) /\ f \in Seq(Int)
        /\ Len(a) <= 1 /\ Len(b) <= 1 /\ Len(e) <= 1 /\ Len(f) <= 1
    <3> HIDE DEF m
    <3> QED BY <1>1, <2>2
  <2>4. Turned(t, t, 2) /\ 2 \in {0, 1, 2} /\ 1 \in Nat
    BY DEF Turned
  <2> HIDE DEF m, a, b, e, f
  <2>5. Answered(t, r, 2, 1) /\ r.expects = t.expects
    BY <2>1, <2>3, <2>4, AnswersAdd
  <2>6. c \notin {173, 167, 174, 168} /\ c # 96 /\ c # 212
    BY <1>3
  <2> QED BY <2>5, <2>6 DEF Matches, Answered
<1>4. CASE c = 96
  <2>1. r = [t EXCEPT !.target = "config"]
    BY <1>4 DEF Command
  <2>2. Matches(t, r, 0) /\ r.target = "config"
    BY <2>1, TargetGives
  <2> QED BY <1>4, <2>2
<1>5. CASE c = 212
  <2>1. r = [t EXCEPT !.target = "second"]
    BY <1>5 DEF Command
  <2>2. Matches(t, r, 0) /\ r.target = "second"
    BY <2>1, TargetGives
  <2> QED BY <1>5, <2>2
<1> QED BY <1>2, <1>3, <1>4, <1>5

(* What a byte to the data port does: for the configuration, or for the    *)
(* device the last command chose.                                          *)
Chosen == [d \in {0, 1} |-> IF d = 0 THEN "first" ELSE "second"]

Heard(t, r, d, b) ==
  \A n \in Nat :
    Fits(d, b, n) /\ (t.expects[d] = "command" \/ (t.expects[d] = "set" /\ b = 0 /\ t.machine.present[d])) =>
      /\ \A i \in {0, 1} : i # d => r.expects[i] = t.expects[i]
      /\ r.expects[d] = "command" \/ (b = 240 /\ r.expects[d] = "set" /\ t.machine.present[d])
      /\ Len(r.out) <= Len(t.out) + n

Received(t, r, d, b) ==
  /\ r \in Controller /\ r.machine = t.machine /\ r.late = t.late /\ r.waits = t.waits
  /\ r.target = t.target /\ Heard(t, r, d, b)

(* A device that is there hears the byte, another one does not.            *)
LEMMA DeviceGives ==
  ASSUME MachinesGiven, NEW t \in Controller, NEW d \in {0, 1}, NEW b \in Int,
         NEW r, r = Device(t, d, b)
  PROVE  Received(t, r, d, b)
<1>1. CASE t.machine.present[d]
  <2>1. r = Answer(t, d, b)
    BY <1>1 DEF Device
  <2>2. Replied(t, r, d, b)
    BY <2>1, AnswerGives
  <2>3. /\ r \in Controller /\ r.machine = t.machine /\ r.late = t.late /\ r.waits = t.waits
        /\ r.target = t.target
    BY <2>2 DEF Replied, Answered
  <2>4. Heard(t, r, d, b)
    <3> SUFFICES ASSUME NEW n \in Nat, Fits(d, b, n),
                        t.expects[d] = "command" \/ (t.expects[d] = "set" /\ b = 0)
                 PROVE  /\ \A i \in {0, 1} : i # d => r.expects[i] = t.expects[i]
                        /\ r.expects[d] = "command" \/ (b = 240 /\ r.expects[d] = "set")
                        /\ Len(r.out) <= Len(t.out) + n
      BY <1>1 DEF Heard
    <3>1. Answered(t, r, d, n) /\ r.expects[d] = (IF b = 240 THEN "set" ELSE "command")
      BY <2>2 DEF Replied
    <3> QED BY <3>1 DEF Answered
  <2> QED BY <2>3, <2>4 DEF Received
<1>2. CASE ~t.machine.present[d]
  <2>1. r = t
    BY <1>2 DEF Device
  <2>2. Len(t.out) \in Nat
    BY DEF Controller, Queues
  <2>3. \A n \in Nat : Len(t.out) <= Len(t.out) + n
    BY <2>2
  <2>4. Heard(t, t, d, b)
    <3> SUFFICES ASSUME NEW n \in Nat, t.expects[d] = "command"
                 PROVE  Len(t.out) <= Len(t.out) + n
      BY <1>2 DEF Heard
    <3> QED BY <2>3
  <2> QED BY <2>1, <2>4 DEF Received
<1> QED BY <1>1, <1>2

(* The byte goes to the device chosen.                                     *)
LEMMA SentToDevice ==
  ASSUME MachinesGiven, NEW t \in Controller, NEW d \in {0, 1}, t.target = Chosen[d],
         NEW b \in Int, NEW r, r = Data(t, b)
  PROVE  /\ r \in Controller /\ r.machine = t.machine /\ r.late = t.late /\ r.waits = t.waits
         /\ r.target = "first" /\ Heard(t, r, d, b)
<1>1. CASE d = 0
  <2>1. t.target = "first"
    BY <1>1 DEF Chosen
  <2>2. r = Device(t, d, b)
    BY <1>1, <2>1 DEF Data
  <2>3. Received(t, r, d, b)
    BY <2>2, DeviceGives
  <2> QED BY <2>1, <2>3 DEF Received
<1>2. CASE d = 1
  <2>1. t.target = "second"
    BY <1>2 DEF Chosen
  <2> DEFINE u == [t EXCEPT !.target = "first"]
  <2>2. r = Device(u, d, b)
    BY <1>2, <2>1 DEF Data
  <2>3. Matches(t, u, 0) /\ u.target = "first" /\ u.out = t.out
    BY TargetGives
  <2> HIDE DEF u
  <2>4. u \in Controller /\ u.machine = t.machine /\ u.late = t.late /\ u.waits = t.waits
        /\ u.expects = t.expects
    BY <2>3 DEF Matches
  <2>5. Received(u, r, d, b)
    BY <2>2, <2>4, DeviceGives
  <2>6. Heard(t, r, d, b)
    BY <2>3, <2>4, <2>5 DEF Heard, Received
  <2> QED BY <2>3, <2>4, <2>5, <2>6 DEF Received
<1> QED BY <1>1, <1>2

(* The port holds finitely many bytes.                                     *)
LEMMA QueueCounted ==
  ASSUME NEW t \in Controller
  PROVE  t.out \in Queues /\ Len(t.out) \in Nat
  BY DEF Controller, Queues

(* The byte becomes the configuration.                                     *)
LEMMA SentToConfig ==
  ASSUME NEW t \in Controller, t.target = "config", NEW b \in Int, NEW r, r = Data(t, b)
  PROVE  Matches(t, r, 0) /\ r.target = "first"
<1> DEFINE u == [t EXCEPT !.config = b]
<1>1. r = [u EXCEPT !.target = "first"]
  BY DEF Data
<1>2. Matches(t, u, 0)
  BY ConfigGives
<1> HIDE DEF u
<1>3. u \in Controller
  BY <1>2 DEF Matches
<1>4. Matches(u, r, 0) /\ r.target = "first"
  BY <1>1, <1>3, TargetGives
<1>5. Len(t.out) \in Nat /\ Len(u.out) \in Nat /\ Len(r.out) \in Nat
  BY <1>3, <1>4, QueueCounted DEF Matches
<1> QED BY <1>2, <1>4, <1>5 DEF Matches

(* Wherever it goes, the state stays one of Controller.                    *)
LEMMA DataKeeps ==
  ASSUME MachinesGiven, NEW t \in Controller, NEW b \in Int, NEW r, r = Data(t, b)
  PROVE  r \in Controller /\ r.late = t.late
<1>1. t.target = "config" \/ t.target = Chosen[0] \/ t.target = Chosen[1]
  BY DEF Controller, Chosen
<1>2. 0 \in {0, 1} /\ 1 \in {0, 1}
  OBVIOUS
<1> QED BY <1>1, <1>2, SentToConfig, SentToDevice DEF Matches

-----------------------------------------------------------------------------
(* The driver and the controller are in step: unless a wait will be late,  *)
(* the next byte goes to the first device or is a command, the devices     *)
(* wait for a command, or device x for the argument of one, and at most k  *)
(* bytes wait in the port.                                                 *)
Waiting(t, k, x) ==
  /\ t \in Controller
  /\ t.late = 0 =>
       /\ t.waits # 0 /\ t.target = "first" /\ Len(t.out) <= k
       /\ \A i \in {0, 1} : \/ t.expects[i] = "command"
                            \/ t.expects[i] = "set" /\ i = x /\ t.machine.present[i]

InStep(t, k) == Waiting(t, k, 2)

(* A wait is counted.                                                      *)
LEMMA WaitedGives ==
  ASSUME NEW t \in Controller, NEW r, r = Waited(t)
  PROVE  /\ r \in Controller /\ r.machine = t.machine /\ r.late = t.late /\ r.waits # 0
         /\ r.target = t.target /\ r.expects = t.expects /\ r.out = t.out /\ r.read = t.read
<1> DEFINE n == t.waits + 1
<1>1. r = [t EXCEPT !.waits = n]
  BY DEF Waited
<1>2. n \in Nat /\ n # 0
  BY DEF Controller
<1> HIDE DEF n
<1> QED BY <1>1, <1>2 DEF Controller

(* If no wait is late, this one is not.                                    *)
LEMMA NotLate ==
  ASSUME NEW t, NEW k, NEW x, Waiting(t, k, x), t.late = 0
  PROVE  ~Late(t)
  BY DEF Waiting, Late

(* A byte that is read without a wait.                                     *)
LEMMA InbWaiting ==
  ASSUME NEW t, NEW k \in Nat, NEW n \in Nat, k <= n + 1, NEW x, Waiting(t, k, x),
         NEW r, r = inb(t)
  PROVE  Waiting(r, n, x)
<1>1. t \in Controller /\ t.out \in Queues
  BY DEF Waiting, Controller
<1>2. /\ Steady(t, r) /\ (t.out = <<>> => r.out = <<>>) /\ (t.out # <<>> => r.out = Tail(t.out))
  BY <1>1, InbGives
<1>3. t.late = 0 => Len(r.out) <= n
  <2> SUFFICES ASSUME t.late = 0 PROVE Len(r.out) <= n
    OBVIOUS
  <2>1. Len(t.out) <= k
    BY DEF Waiting
  <2>2. CASE t.out = <<>>
    <3>1. r.out = <<>>
      BY <1>2, <2>2
    <3> QED BY <3>1
  <2>3. CASE t.out # <<>>
    <3> DEFINE q == t.out
               w == r.out
    <3>1. q \in Seq(Sent) /\ q # <<>> /\ w = Tail(q) /\ Len(q) <= k
      BY <1>1, <1>2, <2>1, <2>3 DEF Queues
    <3> HIDE DEF q, w
    <3>2. Len(w) = Len(q) - 1 /\ Len(q) \in Nat
      BY <3>1
    <3>3. Len(w) <= n
      BY <3>1, <3>2
    <3> QED BY <3>3 DEF w
  <2> QED BY <2>2, <2>3
<1> QED BY <1>2, <1>3 DEF Waiting, Steady

(* A byte is read, if there is one.                                        *)
LEMMA ReadWaiting ==
  ASSUME NEW t, NEW k \in Nat, NEW n \in Nat, k <= n + 1, NEW x, Waiting(t, k, x),
         NEW r, r = ps2_read(t)
  PROVE  Waiting(r, n, x)
<1> DEFINE u == Waited(t)
<1>1. /\ u \in Controller /\ u.machine = t.machine /\ u.late = t.late /\ u.waits # 0
      /\ u.target = t.target /\ u.expects = t.expects /\ u.out = t.out
  BY WaitedGives DEF Waiting
<1>2. CASE t.out # <<>> /\ Late(t)
  <2>1. t.late # 0
    BY <1>2, NotLate
  <2>2. r = [u EXCEPT !.read = 255]
    BY <1>2 DEF ps2_read
  <2> HIDE DEF u
  <2>3. r \in Controller /\ r.late = u.late
    BY <1>1, <2>2 DEF Controller
  <2> QED BY <1>1, <2>1, <2>3 DEF Waiting
<1>3. CASE ~(t.out # <<>> /\ Late(t))
  <2>1. r = inb(u)
    BY <1>3 DEF ps2_read
  <2> HIDE DEF u
  <2>2. Waiting(u, k, x)
    BY <1>1 DEF Waiting
  <2> QED BY <2>1, <2>2, InbWaiting
<1> QED BY <1>2, <1>3

(* A command that no byte answers, and one that the controller answers.    *)
SilentCommands == {173, 167, 174, 168}
AnsweredCommands == {32, 170, 171, 169}

Grows(c, k, m) ==
  /\ k \in Nat /\ m \in Nat
  /\ \/ c \in {173, 167, 174, 168} /\ m = k
     \/ c \in {32, 170, 171, 169} /\ m = k + 1

(* What the commands do to the number of bytes in the port.                *)
LEMMA CommandWaiting ==
  ASSUME MachinesGiven, NEW t, NEW k, NEW x, Waiting(t, k, x), NEW c, NEW m, Grows(c, k, m),
         NEW r, r = ps2_command_write(t, c)
  PROVE  Waiting(r, m, x)
<1> DEFINE u == Waited(t)
<1>1. t \in Controller
  BY DEF Waiting
<1>2. /\ u \in Controller /\ u.machine = t.machine /\ u.late = t.late /\ u.waits # 0
      /\ u.target = t.target /\ u.expects = t.expects /\ u.out = t.out
  BY <1>1, WaitedGives
<1>3. k \in Nat
  BY DEF Grows
<1>4. CASE Late(t)
  <2>1. t.late # 0 /\ r = u
    BY <1>4, NotLate DEF ps2_command_write
  <2> HIDE DEF u
  <2> QED BY <1>2, <2>1 DEF Waiting
<1>5. CASE ~Late(t)
  <2>1. r = Command(u, c)
    BY <1>5 DEF ps2_command_write
  <2> HIDE DEF u
  <2>2. Len(t.out) \in Nat
    BY <1>1, QueueCounted
  <2>3. ASSUME NEW n \in {0, 1}, Matches(u, r, n), r.target = u.target
        PROVE  Waiting(r, k + n, x)
    <3>1. /\ r \in Controller /\ r.machine = t.machine /\ r.late = t.late /\ r.waits # 0
          /\ r.target = t.target /\ r.expects = t.expects /\ Len(r.out) <= Len(t.out) + n
      BY <1>2, <2>3 DEF Matches
    <3>2. Len(r.out) \in Nat
      BY <3>1, QueueCounted
    <3>3. t.late = 0 => Len(r.out) <= k + n
      BY <1>3, <2>2, <3>1, <3>2 DEF Waiting
    <3> QED BY <3>1, <3>3 DEF Waiting
  <2>4. CASE c \in {173, 167, 174, 168} /\ m = k
    <3>1. Matches(u, r, 0) /\ r.target = u.target
      BY <1>2, <2>1, <2>4, CommandGives
    <3>2. Waiting(r, k + 0, x) /\ k + 0 = k
      BY <1>3, <2>3, <3>1
    <3> QED BY <2>4, <3>2
  <2>5. CASE c \in {32, 170, 171, 169} /\ m = k + 1
    <3>1. Matches(u, r, 1) /\ r.target = u.target
      BY <1>2, <2>1, <2>5, CommandGives
    <3> QED BY <2>3, <2>5, <3>1
  <2> QED BY <2>4, <2>5 DEF Grows
<1> QED BY <1>4, <1>5

(* Nothing comes after a silent command.                                   *)
LEMMA CommandSilent ==
  ASSUME MachinesGiven, NEW t, NEW k \in Nat, NEW x, Waiting(t, k, x),
         NEW c \in SilentCommands, NEW r, r = ps2_command_write(t, c)
  PROVE  Waiting(r, k, x)
<1>1. Grows(c, k, k)
  BY DEF Grows, SilentCommands
<1> QED BY <1>1, CommandWaiting

(* ... and its answer is read.                                             *)
LEMMA CommandAnswered ==
  ASSUME MachinesGiven, NEW t, NEW k \in Nat, NEW x, Waiting(t, k, x),
         NEW c \in AnsweredCommands,
         NEW r, r = ps2_read(ps2_command_write(t, c))
  PROVE  Waiting(r, k, x)
<1> DEFINE m == k + 1
           u == ps2_command_write(t, c)
<1>1. m \in Nat /\ Grows(c, k, m) /\ m <= k + 1
  BY DEF Grows, AnsweredCommands
<1>2. u = ps2_command_write(t, c) /\ r = ps2_read(u)
  OBVIOUS
<1> HIDE DEF m, u
<1>3. Waiting(u, m, x)
  BY <1>1, <1>2, CommandWaiting
<1> QED BY <1>1, <1>2, <1>3, ReadWaiting

(* A command that says where the next byte goes.                           *)
Aimed(t, r, to) ==
  /\ r \in Controller /\ r.late = t.late
  /\ t.late = 0 =>
       /\ r.waits # 0 /\ r.machine = t.machine /\ r.expects = t.expects
       /\ Len(r.out) <= Len(t.out) /\ r.target = to

(* The two commands of this kind.                                          *)
LEMMA AimGives ==
  ASSUME MachinesGiven, NEW t, NEW k, NEW x, Waiting(t, k, x), NEW c,
         NEW r, r = ps2_command_write(t, c)
  PROVE  /\ c = 96 => Aimed(t, r, "config")
         /\ c = 212 => Aimed(t, r, "second")
<1> DEFINE u == Waited(t)
<1>1. t \in Controller
  BY DEF Waiting
<1>2. /\ u \in Controller /\ u.machine = t.machine /\ u.late = t.late /\ u.waits # 0
      /\ u.target = t.target /\ u.expects = t.expects /\ u.out = t.out
  BY <1>1, WaitedGives
<1>3. CASE Late(t)
  <2>1. t.late # 0 /\ r = u
    BY <1>3, NotLate DEF ps2_command_write
  <2> HIDE DEF u
  <2> QED BY <1>2, <2>1 DEF Aimed
<1>4. CASE ~Late(t)
  <2>1. r = Command(u, c)
    BY <1>4 DEF ps2_command_write
  <2> HIDE DEF u
  <2>2. Len(t.out) \in Nat
    BY <1>1, QueueCounted
  <2>3. ASSUME NEW to, Matches(u, r, 0), r.target = to
        PROVE  Aimed(t, r, to)
    <3>1. /\ r \in Controller /\ r.machine = t.machine /\ r.late = t.late /\ r.waits # 0
          /\ r.target = to /\ r.expects = t.expects /\ Len(r.out) <= Len(t.out) + 0
      BY <1>2, <2>3 DEF Matches
    <3>2. Len(r.out) <= Len(t.out)
      BY <2>2, <3>1
    <3> QED BY <3>1, <3>2 DEF Aimed
  <2>4. CASE c = 96
    <3>1. Matches(u, r, 0) /\ r.target = "config"
      BY <1>2, <2>1, <2>4, CommandGives
    <3> QED BY <2>3, <2>4, <3>1
  <2>5. CASE c = 212
    <3>1. Matches(u, r, 0) /\ r.target = "second"
      BY <1>2, <2>1, <2>5, CommandGives
    <3> QED BY <2>3, <2>5, <3>1
  <2> QED BY <2>4, <2>5
<1> QED BY <1>3, <1>4

(* A byte that is written whether or not it arrives.                       *)
LEMMA DataWritten ==
  ASSUME MachinesGiven, NEW t \in Controller, NEW b \in Int,
         NEW r, r = ps2_data_write(t, b)
  PROVE  r \in Controller /\ r.late = t.late
<1> DEFINE u == Waited(t)
<1>1. u \in Controller /\ u.late = t.late
  BY WaitedGives
<1>2. CASE Late(t)
  BY <1>1, <1>2 DEF ps2_data_write
<1>3. CASE ~Late(t)
  <2>1. r = Data(u, b)
    BY <1>3 DEF ps2_data_write
  <2> HIDE DEF u
  <2> QED BY <1>1, <2>1, DataKeeps
<1> QED BY <1>2, <1>3

(* The configuration is written.                                           *)
LEMMA ConfigWritten ==
  ASSUME MachinesGiven, NEW t, NEW k \in Nat, NEW x, Waiting(t, k, x),
         NEW r, r = WriteConfig(t)
  PROVE  Waiting(r, k, x)
<1> DEFINE c == 96
           u == ps2_command_write(t, c)
           b == t.cfg
           v == Waited(u)
<1>1. r = ps2_data_write(u, b)
  BY DEF WriteConfig
<1>2. t \in Controller /\ b \in Int /\ c = 96
  BY DEF Waiting, Controller
<1> HIDE DEF c, b
<1>3. Aimed(t, u, "config")
  BY <1>2, AimGives
<1> HIDE DEF u
<1>4. u \in Controller /\ u.late = t.late
  BY <1>3 DEF Aimed
<1>5. r \in Controller /\ r.late = t.late
  BY <1>1, <1>2, <1>4, DataWritten
<1>6. CASE t.late # 0
  BY <1>5, <1>6 DEF Waiting
<1>7. CASE t.late = 0
  <2>1. /\ u.waits # 0 /\ u.machine = t.machine /\ u.expects = t.expects
        /\ Len(u.out) <= Len(t.out) /\ u.target = "config"
    BY <1>3, <1>7 DEF Aimed
  <2>2. r = Data(v, b)
    BY <1>1, <1>4, <1>7, <2>1 DEF ps2_data_write, Late
  <2>3. /\ v \in Controller /\ v.machine = u.machine /\ v.late = u.late /\ v.waits # 0
        /\ v.target = u.target /\ v.expects = u.expects /\ v.out = u.out
    BY <1>4, WaitedGives
  <2> HIDE DEF v
  <2>4. Matches(v, r, 0) /\ r.target = "first"
    BY <1>2, <2>1, <2>2, <2>3, SentToConfig
  <2>5. Len(t.out) \in Nat /\ Len(u.out) \in Nat /\ Len(r.out) \in Nat
    BY <1>2, <1>4, <1>5, QueueCounted
  <2>6. /\ r.waits # 0 /\ r.machine = t.machine /\ r.expects = t.expects
        /\ Len(r.out) <= Len(u.out) + 0
    BY <2>1, <2>3, <2>4 DEF Matches
  <2>7. Len(r.out) <= k
    BY <1>7, <2>1, <2>5, <2>6 DEF Waiting
  <2> QED BY <1>5, <1>7, <2>4, <2>6, <2>7 DEF Waiting
<1> QED BY <1>6, <1>7

(* A byte that a device hears.                                             *)
LEMMA HeardWaiting ==
  ASSUME NEW t, t.late = 0, NEW k \in Nat, NEW x, Waiting(t, k, x), NEW d \in {0, 1},
         NEW b \in Int, NEW n \in Nat, Fits(d, b, n), x = 2 \/ (x = d /\ b = 0),
         NEW y, y = (IF b = 240 THEN d ELSE 2),
         NEW v, v \in Controller, v.machine = t.machine, v.expects = t.expects,
         Len(v.out) <= Len(t.out),
         NEW r, r \in Controller, r.machine = t.machine, r.late = 0, r.waits # 0, r.target = "first",
         Heard(v, r, d, b), NEW m \in Nat, m = k + n
  PROVE  Waiting(r, m, y)
<1>1. /\ \A i \in {0, 1} : \/ t.expects[i] = "command"
                           \/ t.expects[i] = "set" /\ i = x /\ t.machine.present[i]
      /\ Len(t.out) <= k
  BY DEF Waiting
<1>2. v.expects[d] = "command" \/ (v.expects[d] = "set" /\ b = 0 /\ v.machine.present[d])
  <2>1. \/ t.expects[d] = "command"
        \/ t.expects[d] = "set" /\ d = x /\ t.machine.present[d]
    BY <1>1
  <2> QED BY <2>1
<1>3. /\ \A i \in {0, 1} : i # d => r.expects[i] = v.expects[i]
      /\ r.expects[d] = "command" \/ (b = 240 /\ r.expects[d] = "set" /\ v.machine.present[d])
      /\ Len(r.out) <= Len(v.out) + n
  BY <1>2 DEF Heard
<1>4. Len(t.out) \in Nat /\ Len(v.out) \in Nat /\ Len(r.out) \in Nat
  BY QueueCounted DEF Waiting
<1>5. Len(r.out) <= k + n
  BY <1>1, <1>3, <1>4
<1>6. ASSUME NEW i \in {0, 1}
      PROVE  \/ r.expects[i] = "command"
             \/ r.expects[i] = "set" /\ i = y /\ r.machine.present[i]
  <2>1. CASE i = d
    BY <1>3, <2>1
  <2>2. CASE i # d
    <3>1. r.expects[i] = t.expects[i] /\ i # x
      BY <1>3, <1>6, <2>2
    <3> QED BY <1>1, <3>1
  <2> QED BY <2>1, <2>2
<1> QED BY <1>5, <1>6 DEF Waiting

(* Byte b, sent to device d when at most k bytes wait, and at most m then. *)
Asks(d, b, k, x, m, y) ==
  /\ d \in {0, 1} /\ b \in Int /\ k \in Nat /\ m \in Nat
  /\ x = 2 \/ (x = d /\ b = 0)
  /\ y = (IF b = 240 THEN d ELSE 2)
  /\ \E n \in Nat : Fits(d, b, n) /\ m = k + n

(* ps2_write_device with such a byte.                                      *)
LEMMA DeviceWritten ==
  ASSUME MachinesGiven, NEW t, NEW k, NEW x, Waiting(t, k, x), NEW d, NEW b, NEW m, NEW y,
         Asks(d, b, k, x, m, y), NEW r, r = ps2_write_device(t, d, b)
  PROVE  Waiting(r, m, y)
<1>1. PICK n \in Nat : Fits(d, b, n) /\ m = k + n
  BY DEF Asks
<1>2. /\ d \in {0, 1} /\ b \in Int /\ k \in Nat /\ m \in Nat /\ y = (IF b = 240 THEN d ELSE 2)
      /\ x = 2 \/ (x = d /\ b = 0)
  BY DEF Asks
<1> DEFINE c == 212
           p == ps2_command_write(t, c)
           w == Waited(t)
           u == IF d = 1 THEN p ELSE t
           v == Waited(u)
<1>3. t \in Controller /\ c = 212
  BY DEF Waiting
<1>4. CASE d = 1 /\ Late(t)
  <2>1. r = w /\ t.late # 0
    BY <1>4, NotLate DEF ps2_write_device
  <2>2. w \in Controller /\ w.late = t.late
    BY <1>3, WaitedGives
  <2> HIDE DEF w
  <2> QED BY <2>1, <2>2 DEF Waiting
<1>5. CASE ~(d = 1 /\ Late(t))
  <2>1. r = ps2_data_write(u, b)
    BY <1>5 DEF ps2_write_device
  <2> HIDE DEF c
  <2>2. Aimed(t, p, "second")
    BY <1>3, <1>2, AimGives
  <2> HIDE DEF p
  <2>3. u \in Controller /\ u.late = t.late
    BY <1>3, <2>2 DEF Aimed
  <2>4. t.late = 0 => /\ u.waits # 0 /\ u.machine = t.machine /\ u.expects = t.expects
                      /\ Len(u.out) <= Len(t.out) /\ u.target = Chosen[d]
    <3> SUFFICES ASSUME t.late = 0
                 PROVE  /\ u.waits # 0 /\ u.machine = t.machine /\ u.expects = t.expects
                        /\ Len(u.out) <= Len(t.out) /\ u.target = Chosen[d]
      OBVIOUS
    <3>1. CASE d = 1
      <4>1. u = p /\ Chosen[d] = "second"
        BY <1>2, <3>1 DEF Chosen
      <4> QED BY <2>2, <4>1 DEF Aimed
    <3>2. CASE d = 0
      <4>1. u = t /\ Chosen[d] = "first" /\ Len(t.out) \in Nat
        BY <1>3, <3>2, QueueCounted DEF Chosen
      <4> QED BY <4>1 DEF Waiting
    <3> QED BY <1>2, <3>1, <3>2
  <2> HIDE DEF u
  <2>5. r \in Controller /\ r.late = t.late
    <3>1. b \in Int
      BY <1>2
    <3> QED BY <2>1, <2>3, <3>1, DataWritten
  <2>6. CASE t.late # 0
    BY <2>5, <2>6 DEF Waiting
  <2>7. CASE t.late = 0
    <3>1. r = Data(v, b)
      BY <2>1, <2>3, <2>4, <2>7 DEF ps2_data_write, Late
    <3>2. /\ v \in Controller /\ v.machine = u.machine /\ v.late = u.late /\ v.waits # 0
          /\ v.target = u.target /\ v.expects = u.expects /\ v.out = u.out
      BY <2>3, WaitedGives
    <3> HIDE DEF v
    <3>3. v.target = Chosen[d]
      BY <2>4, <2>7, <3>2
    <3>4. /\ r.machine = v.machine /\ r.waits = v.waits
          /\ r.target = "first" /\ Heard(v, r, d, b)
      BY <1>2, <3>1, <3>2, <3>3, SentToDevice
    <3>5. /\ v.machine = t.machine /\ v.expects = t.expects /\ Len(v.out) <= Len(t.out)
          /\ r.machine = t.machine /\ r.late = 0 /\ r.waits # 0
      BY <2>4, <2>5, <2>7, <3>2, <3>4
    <3> QED BY <1>1, <1>2, <2>5, <2>7, <3>2, <3>4, <3>5, HeardWaiting
  <2> QED BY <2>6, <2>7
<1> QED BY <1>4, <1>5

(* A byte is sent to a device and one byte of its answer read.             *)
LEMMA Ordered ==
  ASSUME MachinesGiven, NEW t, NEW k, NEW x, Waiting(t, k, x), NEW d, NEW b, NEW m, NEW y,
         Asks(d, b, k, x, m, y), NEW n \in Nat, m <= n + 1, NEW r, r = Order(t, d, b)
  PROVE  Waiting(r, n, y)
<1> DEFINE u == ps2_write_device(t, d, b)
<1>1. r = ps2_read(u) /\ u = ps2_write_device(t, d, b)
  BY DEF Order
<1> HIDE DEF u
<1>2. Waiting(u, m, y)
  BY <1>1, DeviceWritten
<1>3. m \in Nat
  BY DEF Asks
<1> QED BY <1>1, <1>2, <1>3, ReadWaiting

(* A port is enabled or disabled.                                          *)
LEMMA PortEnabled ==
  ASSUME MachinesGiven, NEW t, NEW k \in Nat, NEW x, Waiting(t, k, x), NEW d \in {0, 1},
         NEW on \in BOOLEAN, NEW r, r = ps2_enable_port(t, d, on)
  PROVE  Waiting(r, k, x)
<1>1. CASE ~t.controllers[d]
  BY <1>1 DEF ps2_enable_port
<1>2. CASE t.controllers[d]
  <2> DEFINE c == IF on THEN <<174, 168>>[d + 1] ELSE <<173, 167>>[d + 1]
             u == ps2_command_write(t, c)
  <2>1. r = ps2_read(u)
    BY <1>2 DEF ps2_enable_port
  <2>2. c \in SilentCommands
    <3>1. CASE d = 0
      BY <3>1 DEF SilentCommands
    <3>2. CASE d = 1
      BY <3>2 DEF SilentCommands
    <3> QED BY <3>1, <3>2
  <2>3. u = ps2_command_write(t, c)
    OBVIOUS
  <2> HIDE DEF c, u
  <2>4. Waiting(u, k, x)
    BY <2>2, <2>3, CommandSilent
  <2>5. k <= k + 1
    OBVIOUS
  <2> QED BY <2>1, <2>4, <2>5, ReadWaiting
<1> QED BY <1>1, <1>2

(* The fields of the driver itself.                                        *)
LEMMA FieldsSet ==
  ASSUME NEW t, NEW k, NEW x, Waiting(t, k, x), NEW v \in Int, NEW p \in BOOLEAN,
         NEW f \in Flags, NEW r,
         \/ r = [t EXCEPT !.cfg = v]
         \/ r = [t EXCEPT !.interrupts = p]
         \/ r = [t EXCEPT !.handler = p]
         \/ r = [t EXCEPT !.controllers = f]
  PROVE  Waiting(r, k, x)
<1>1. t \in Controller
  BY DEF Waiting
<1>2. /\ r \in Controller /\ r.late = t.late /\ r.waits = t.waits /\ r.target = t.target
      /\ r.machine = t.machine /\ r.expects = t.expects /\ r.out = t.out
  <2>1. CASE r = [t EXCEPT !.cfg = v]
    BY <1>1, <2>1 DEF Controller
  <2>2. CASE r = [t EXCEPT !.interrupts = p]
    BY <1>1, <2>2 DEF Controller
  <2>3. CASE r = [t EXCEPT !.handler = p]
    BY <1>1, <2>3 DEF Controller
  <2>4. CASE r = [t EXCEPT !.controllers = f]
    BY <1>1, <2>4 DEF Controller
  <2> QED BY <2>1, <2>2, <2>3, <2>4
<1> QED BY <1>2 DEF Waiting

(* The configuration is asked for and read.                                *)
LEMMA ConfigRead ==
  ASSUME MachinesGiven, NEW t, NEW k \in Nat, NEW x, Waiting(t, k, x),
         NEW r, r = ReadConfig(t)
  PROVE  Waiting(r, k, x)
<1> DEFINE c == 32
           u == ps2_read(ps2_command_write(t, c))
           v == u.read
<1>1. r = [u EXCEPT !.cfg = v] /\ u = ps2_read(ps2_command_write(t, c))
  BY DEF ReadConfig, TakeConfig
<1>2. c \in AnsweredCommands
  BY DEF AnsweredCommands
<1> HIDE DEF c, u
<1>3. Waiting(u, k, x)
  BY <1>1, <1>2, CommandAnswered
<1>4. v \in Int
  BY <1>3 DEF Waiting, Controller
<1> HIDE DEF v
<1>5. TRUE \in BOOLEAN /\ [d \in {0, 1} |-> TRUE] \in Flags
  BY DEF Flags
<1> QED BY <1>1, <1>3, <1>4, <1>5, FieldsSet

(* The driver's copy of the configuration changes.                         *)
LEMMA CfgSet ==
  ASSUME NEW t, NEW k, NEW x, Waiting(t, k, x), NEW v \in Int, NEW r, r = [t EXCEPT !.cfg = v]
  PROVE  Waiting(r, k, x)
<1>1. TRUE \in BOOLEAN /\ [d \in {0, 1} |-> TRUE] \in Flags
  BY DEF Flags
<1> QED BY <1>1, FieldsSet

(* Interrupts are switched, or the handler is installed.                   *)
LEMMA FlagSet ==
  ASSUME NEW t, NEW k, NEW x, Waiting(t, k, x), NEW p \in BOOLEAN, NEW r,
         r = [t EXCEPT !.interrupts = p] \/ r = [t EXCEPT !.handler = p]
  PROVE  Waiting(r, k, x)
<1>1. [d \in {0, 1} |-> TRUE] \in Flags /\ 0 \in Int
  BY DEF Flags
<1> QED BY <1>1, FieldsSet

(* The driver's list of the devices in use changes.                        *)
LEMMA ControllersSet ==
  ASSUME NEW t, NEW k, NEW x, Waiting(t, k, x), NEW f \in Flags,
         NEW r, r = [t EXCEPT !.controllers = f]
  PROVE  Waiting(r, k, x)
<1>1. TRUE \in BOOLEAN /\ 0 \in Int
  OBVIOUS
<1> QED BY <1>1, FieldsSet

(* A device is not used any more.                                          *)
LEMMA Dropped ==
  ASSUME NEW t, NEW k, NEW x, Waiting(t, k, x), NEW d \in {0, 1},
         NEW r, r = [t EXCEPT !.controllers[d] = FALSE]
  PROVE  Waiting(r, k, x)
<1> DEFINE f == [t.controllers EXCEPT ![d] = FALSE]
<1>1. f \in Flags
  BY DEF Waiting, Controller, Flags
<1>2. r = [t EXCEPT !.controllers = f]
  OBVIOUS
<1> HIDE DEF f
<1> QED BY <1>1, <1>2, ControllersSet

(* A device that failed its reset is dropped.                              *)
LEMMA GivenUp ==
  ASSUME MachinesGiven, NEW t, NEW k \in Nat, NEW x, Waiting(t, k, x), NEW d \in {0, 1},
         NEW r, r = GiveUp(t, d)
  PROVE  Waiting(r, k, x)
<1> DEFINE u == ps2_enable_port(t, d, FALSE)
           no == FALSE
<1>1. r = [u EXCEPT !.controllers[d] = FALSE] /\ u = ps2_enable_port(t, d, no) /\ no \in BOOLEAN
  BY DEF GiveUp
<1> HIDE DEF u, no
<1>2. Waiting(u, k, x)
  BY <1>1, PortEnabled
<1> QED BY <1>1, <1>2, Dropped

(* The configuration the driver wants.                                     *)
LEMMA ConfigCleaned ==
  ASSUME NEW t, NEW k, NEW x, Waiting(t, k, x), NEW r, r = CleanConfig(t)
  PROVE  Waiting(r, k, x)
<1> DEFINE c == t.cfg
           v == ClearBit(ClearBit(ClearBit(SetBit(c, 4), 1), 2), 64)
<1>1. c \in Int
  BY DEF Waiting, Controller
<1>2. r = [t EXCEPT !.cfg = v]
  BY DEF CleanConfig, SYSTEM_FLAG, TRANSLATION
<1>3. v \in Int
  <2> HIDE DEF c
  <2> QED BY <1>1 DEF ClearBit, SetBit
<1> HIDE DEF v
<1> QED BY <1>2, <1>3, CfgSet

(* The interrupt of a port is wanted.                                      *)
LEMMA PortSet ==
  ASSUME NEW t, NEW k, NEW x, Waiting(t, k, x), NEW d \in {0, 1}, NEW r, r = Enabled(t, d)
  PROVE  Waiting(r, k, x)
<1> DEFINE c == t.cfg
           v == ClearBit(SetBit(c, PortBit[d + 1]), ClockBit[d + 1])
<1>1. c \in Int
  BY DEF Waiting, Controller
<1>2. r = [t EXCEPT !.cfg = v]
  BY DEF Enabled
<1>3. v \in Int
  <2> HIDE DEF c
  <2>1. PortBit[d + 1] \in Int /\ ClockBit[d + 1] \in Int
    <3>1. CASE d = 0
      BY <3>1 DEF PortBit, ClockBit
    <3>2. CASE d = 1
      BY <3>2 DEF PortBit, ClockBit
    <3> QED BY <3>1, <3>2
  <2> QED BY <1>1, <2>1, BitsNumber
<1> HIDE DEF v
<1> QED BY <1>2, <1>3, CfgSet

-----------------------------------------------------------------------------
(* The stages of init_ps2 leave the port as they find it.                  *)

(* Both ports are stopped, what the firmware left is read, and the         *)
(* controller tests itself.                                                *)
LEMMA BeginInStep ==
  ASSUME MachinesGiven, NEW t, NEW k \in Nat, NEW n \in Nat, k <= n + 1, NEW x, Waiting(t, k, x),
         NEW r, r = Begin(t)
  PROVE  Waiting(r, n, x)
<1> DEFINE no == FALSE
           c1 == 173
           c2 == 167
           c3 == 170
           t1 == [t EXCEPT !.interrupts = no]
           t2 == ps2_command_write(t1, c1)
           t3 == ps2_command_write(t2, c2)
           t4 == inb(t3)
           t5 == ReadConfig(t4)
           t6 == CleanConfig(t5)
           t7 == WriteConfig(t6)
           t8 == ps2_command_write(t7, c3)
<1>1. /\ t1 = [t EXCEPT !.interrupts = no] /\ t2 = ps2_command_write(t1, c1)
      /\ t3 = ps2_command_write(t2, c2) /\ t4 = inb(t3) /\ t5 = ReadConfig(t4)
      /\ t6 = CleanConfig(t5) /\ t7 = WriteConfig(t6)
      /\ r = ps2_read(ps2_command_write(t7, c3))
  BY DEF Begin
<1>2. no \in BOOLEAN /\ c1 \in SilentCommands /\ c2 \in SilentCommands
      /\ c3 \in AnsweredCommands
  BY DEF SilentCommands, AnsweredCommands
<1> HIDE DEF no, c1, c2, c3, t1, t2, t3, t4, t5, t6, t7, t8
<1>3. Waiting(t1, k, x)
  BY <1>1, <1>2, FlagSet
<1>4. Waiting(t2, k, x)
  BY <1>1, <1>2, <1>3, CommandSilent
<1>5. Waiting(t3, k, x)
  BY <1>1, <1>2, <1>4, CommandSilent
<1>6. Waiting(t4, n, x)
  BY <1>1, <1>5, InbWaiting
<1>7. Waiting(t5, n, x)
  BY <1>1, <1>6, ConfigRead
<1>8. Waiting(t6, n, x)
  BY <1>1, <1>7, ConfigCleaned
<1>9. Waiting(t7, n, x)
  BY <1>1, <1>8, ConfigWritten
<1> QED BY <1>1, <1>2, <1>9, CommandAnswered

(* Is there a second channel?                                              *)
LEMMA ChannelsInStep ==
  ASSUME MachinesGiven, NEW t, NEW k \in Nat, NEW x, Waiting(t, k, x),
         NEW r, r = SecondFound(FindSecond(t))
  PROVE  Waiting(r, k, x)
<1> DEFINE c1 == 168
           c2 == 167
           t1 == WriteConfig(t)
           t2 == ps2_command_write(t1, c1)
           t3 == ReadConfig(t2)
           d == 1
<1>1. /\ t1 = WriteConfig(t) /\ t2 = ps2_command_write(t1, c1) /\ t3 = ReadConfig(t2)
      /\ r = SecondFound(t3)
  BY DEF FindSecond
<1>2. /\ c1 \in SilentCommands /\ c2 \in SilentCommands /\ d \in {0, 1}
  BY DEF SilentCommands
<1>3. r = [t3 EXCEPT !.controllers[d] = FALSE] \/ r = ps2_command_write(t3, c2)
  <2> HIDE DEF t3
  <2> QED BY <1>1 DEF SecondFound
<1> HIDE DEF c1, c2, t1, t2, t3, d
<1>4. Waiting(t1, k, x)
  BY <1>1, ConfigWritten
<1>5. Waiting(t2, k, x)
  BY <1>1, <1>2, <1>4, CommandSilent
<1>6. Waiting(t3, k, x)
  BY <1>1, <1>5, ConfigRead
<1> QED BY <1>2, <1>3, <1>6, CommandSilent, Dropped

(* The tests of the ports.                                                 *)
LEMMA TestInStep ==
  ASSUME MachinesGiven, NEW t, NEW k \in Nat, NEW x, Waiting(t, k, x), NEW c \in {171, 169},
         NEW d \in {0, 1}, NEW r, r = Passed(ps2_read(ps2_command_write(t, c)), d)
  PROVE  Waiting(r, k, x)
<1> DEFINE u == ps2_read(ps2_command_write(t, c))
<1>1. u = ps2_read(ps2_command_write(t, c)) /\ c \in AnsweredCommands /\ r = Passed(u, d)
  BY DEF AnsweredCommands
<1> HIDE DEF u
<1>2. Waiting(u, k, x)
  BY <1>1, CommandAnswered
<1>3. r = u \/ r = [u EXCEPT !.controllers[d] = FALSE]
  BY <1>1 DEF Passed
<1> QED BY <1>2, <1>3, Dropped

(* Both tests, the second one if there is a second channel.                *)
LEMMA TestsInStep ==
  ASSUME MachinesGiven, NEW t, NEW k \in Nat, NEW x, Waiting(t, k, x), NEW dual,
         NEW r, r = TestSecond(TestFirst(t), dual)
  PROVE  Waiting(r, k, x)
<1> DEFINE c1 == 171
           c2 == 169
           d1 == 0
           d2 == 1
           u == Passed(ps2_read(ps2_command_write(t, c1)), d1)
<1>1. /\ u = Passed(ps2_read(ps2_command_write(t, c1)), d1)
      /\ r = u \/ r = Passed(ps2_read(ps2_command_write(u, c2)), d2)
  BY DEF TestSecond, TestFirst
<1>2. c1 \in {171, 169} /\ c2 \in {171, 169} /\ d1 \in {0, 1} /\ d2 \in {0, 1}
  OBVIOUS
<1> HIDE DEF c1, c2, d1, d2, u
<1>3. Waiting(u, k, x)
  BY <1>1, <1>2, TestInStep
<1> QED BY <1>1, <1>2, <1>3, TestInStep

(* The reset of a device: its answer is read to the end.                   *)
LEMMA ResetInStep ==
  ASSUME MachinesGiven, NEW t, NEW k \in Nat, InStep(t, k), NEW d \in {0, 1},
         NEW r, r = Reset(t, d)
  PROVE  InStep(r, k)
<1> DEFINE on == TRUE
           no == FALSE
           b == 255
           x == 2
           m == k + 2 + d
           n == k + 1 + d
           j == k + d
           t1 == ps2_enable_port(t, d, on)
           t2 == Order(t1, d, b)
           t3 == ps2_read(t2)
           t4 == ps2_read(t3)
           t5 == ps2_enable_port(t4, d, no)
<1>1. /\ t1 = ps2_enable_port(t, d, on) /\ t2 = Order(t1, d, b) /\ t3 = ps2_read(t2)
      /\ t4 = ps2_read(t3) /\ t5 = ps2_enable_port(t4, d, no)
  OBVIOUS
<1>2. \/ r = t
      \/ d = 0 /\ r = GiveUp(t3, d)
      \/ d = 0 /\ r = t5
      \/ d = 1 /\ r = t4
      \/ d = 1 /\ r = GiveUp(t4, d)
  <2>1. FirstResult(t, d) = t3
    BY DEF FirstResult
  <2> HIDE DEF t3
  <2>2. CASE ~t.controllers[d]
    BY <2>2 DEF Reset
  <2>3. CASE t.controllers[d] /\ d = 0
    <3>1. r = ResetKeyboard(t3)
      BY <2>1, <2>3 DEF Reset
    <3> QED BY <2>3, <3>1 DEF ResetKeyboard
  <2>4. CASE t.controllers[d] /\ d = 1
    <3>1. r = ResetMouse(t4, t3.read)
      BY <2>1, <2>4 DEF Reset
    <3> QED BY <2>4, <3>1 DEF ResetMouse
  <2> QED BY <2>2, <2>3, <2>4
<1>3. Asks(d, b, k, x, m, x)
  <2>1. m = k + (2 + d) /\ 2 + d \in Nat
    OBVIOUS
  <2>2. Fits(d, b, 2 + d)
    BY DEF Fits
  <2> QED BY <2>1, <2>2 DEF Asks
<1>4. /\ m \in Nat /\ n \in Nat /\ j \in Nat /\ m <= n + 1 /\ n <= j + 1 /\ j <= k + 1
      /\ d = 0 => j = k
  OBVIOUS
<1>5. on \in BOOLEAN /\ no \in BOOLEAN
  OBVIOUS
<1>6. Waiting(t, k, x)
  BY DEF InStep
<1> HIDE DEF on, no, b, x, m, n, j, t1, t2, t3, t4, t5
<1>7. Waiting(t1, k, x)
  BY <1>1, <1>5, <1>6, PortEnabled
<1>8. Waiting(t2, n, x)
  BY <1>1, <1>3, <1>4, <1>7, Ordered
<1>9. Waiting(t3, j, x)
  BY <1>1, <1>4, <1>8, ReadWaiting
<1>10. Waiting(t4, k, x)
  BY <1>1, <1>4, <1>9, ReadWaiting
<1>11. Waiting(t5, k, x)
  BY <1>1, <1>5, <1>10, PortEnabled
<1>12. Waiting(r, k, x)
  <2>1. CASE r = t
    BY <1>6, <2>1
  <2>2. CASE d = 0 /\ r = GiveUp(t3, d)
    <3>1. Waiting(t3, k, x)
      BY <1>4, <1>9, <2>2
    <3> QED BY <2>2, <3>1, GivenUp
  <2>3. CASE r = t5 \/ r = t4
    BY <1>10, <1>11, <2>3
  <2>4. CASE r = GiveUp(t4, d)
    BY <1>10, <2>4, GivenUp
  <2> QED BY <1>2, <2>1, <2>2, <2>3, <2>4
<1> QED BY <1>12 DEF InStep, x

(* The set-up of a keyboard: 0xF0 has an argument, and two bytes answer    *)
(* it.                                                                     *)
LEMMA KeyboardInStep ==
  ASSUME MachinesGiven, NEW t, NEW k \in Nat, InStep(t, k), NEW d \in {0, 1},
         NEW r, r = init_keyboard(t, d)
  PROVE  InStep(r, k)
<1> DEFINE on == TRUE
           b1 == 240
           b2 == 0
           b3 == 244
           x == 2
           n == k + 1
           j == k + 2
           t1 == [t EXCEPT !.handler = on]
           t2 == Order(t1, d, b1)
           t3 == Order(t2, d, b2)
           t4 == ps2_read(t3)
<1>1. /\ t1 = [t EXCEPT !.handler = on] /\ t2 = Order(t1, d, b1) /\ t3 = Order(t2, d, b2)
      /\ t4 = ps2_read(t3) /\ r = Order(t4, d, b3)
  BY DEF init_keyboard
<1>2. Asks(d, b1, k, x, n, d) /\ Asks(d, b2, k, d, j, x) /\ Asks(d, b3, k, x, n, x)
  <2>1. Fits(d, b1, 1) /\ Fits(d, b2, 2) /\ Fits(d, b3, 1)
    BY DEF Fits
  <2>2. Asks(d, b1, k, x, n, d)
    BY <2>1 DEF Asks
  <2>3. Asks(d, b2, k, d, j, x)
    BY <2>1 DEF Asks
  <2>4. Asks(d, b3, k, x, n, x)
    BY <2>1 DEF Asks
  <2> QED BY <2>2, <2>3, <2>4
<1>3. n \in Nat /\ j \in Nat /\ n <= k + 1 /\ j <= n + 1 /\ on \in BOOLEAN
  OBVIOUS
<1>4. Waiting(t, k, x)
  BY DEF InStep
<1> HIDE DEF on, b1, b2, b3, x, n, j, t1, t2, t3, t4
<1>5. Waiting(t1, k, x)
  BY <1>1, <1>3, <1>4, FlagSet
<1>6. Waiting(t2, k, d)
  BY <1>1, <1>2, <1>3, <1>5, Ordered
<1>7. Waiting(t3, n, x)
  BY <1>1, <1>2, <1>3, <1>6, Ordered
<1>8. Waiting(t4, k, x)
  BY <1>1, <1>3, <1>7, ReadWaiting
<1>9. Waiting(r, k, x)
  BY <1>1, <1>2, <1>3, <1>8, Ordered
<1> QED BY <1>9 DEF InStep, x

(* A device says what it is, and its driver sets it up.                    *)
LEMMA IdentifyInStep ==
  ASSUME MachinesGiven, NEW t, NEW k \in Nat, InStep(t, k), NEW d \in {0, 1},
         NEW r, r = Identify(t, d)
  PROVE  InStep(r, k)
<1>1. CASE ~t.controllers[d]
  BY <1>1 DEF Identify
<1>2. CASE t.controllers[d]
  <2> DEFINE b1 == 245
             b2 == 242
             x == 2
             n == k + 1
             j == k + 2
             l == k + 3
             t1 == Order(t, d, b1)
             t2 == Order(t1, d, b2)
             t3 == ps2_read(t2)
             t4 == ps2_read(t3)
             t5 == init_keyboard(t4, d)
  <2>1. /\ t1 = Order(t, d, b1) /\ t2 = Order(t1, d, b2) /\ t3 = ps2_read(t2)
        /\ t4 = ps2_read(t3) /\ t5 = init_keyboard(t4, d)
    OBVIOUS
  <2>2. r = t4 \/ r = Enabled(t4, d) \/ r = Enabled(t5, d)
    <3>1. ps2_identify_device(t, d) = t3
      BY DEF ps2_identify_device
    <3> DEFINE type == ps2_identity_bytes_to_type(t3.read, t4.read)
    <3>2. r = Drive(t4, d, type)
      <4> HIDE DEF t3
      <4> QED BY <1>2, <3>1 DEF Identify, IdentifySecond
    <3>3. type \in {"keyboard", "mouse", "unknown"}
      <4> HIDE DEF t3, t4
      <4> QED BY DEF ps2_identity_bytes_to_type
    <3> HIDE DEF type, t4
    <3>4. CASE type = "keyboard"
      BY <2>1, <3>2, <3>4 DEF Drive
    <3>5. CASE type = "mouse"
      BY <2>1, <3>2, <3>5 DEF Drive
    <3>6. CASE type = "unknown"
      BY <2>1, <3>2, <3>6 DEF Drive
    <3> QED BY <3>3, <3>4, <3>5, <3>6
  <2>3. Asks(d, b1, k, x, n, x) /\ Asks(d, b2, k, x, l, x)
    <3>1. Fits(d, b1, 1) /\ Fits(d, b2, 3)
      BY DEF Fits
    <3>2. Asks(d, b1, k, x, n, x)
      BY <3>1 DEF Asks
    <3>3. Asks(d, b2, k, x, l, x)
      BY <3>1 DEF Asks
    <3> QED BY <3>2, <3>3
  <2>4. /\ n \in Nat /\ j \in Nat /\ l \in Nat /\ n <= k + 1 /\ j <= n + 1 /\ l <= j + 1
    OBVIOUS
  <2>5. Waiting(t, k, x)
    BY DEF InStep
  <2> HIDE DEF b1, b2, n, j, l, t1, t2, t3, t4, t5
  <2>6. x = 2
    OBVIOUS
  <2> HIDE DEF x
  <2>7. Waiting(t1, k, x)
    BY <2>1, <2>3, <2>4, <2>5, Ordered
  <2>8. Waiting(t2, j, x)
    BY <2>1, <2>3, <2>4, <2>7, Ordered
  <2>9. Waiting(t3, n, x)
    BY <2>1, <2>4, <2>8, ReadWaiting
  <2>10. Waiting(t4, k, x)
    BY <2>1, <2>4, <2>9, ReadWaiting
  <2>11. Waiting(t5, k, x)
    <3>1. InStep(t4, k)
      BY <2>6, <2>10 DEF InStep
    <3>2. InStep(t5, k)
      BY <2>1, <3>1, KeyboardInStep
    <3> QED BY <2>6, <3>2 DEF InStep
  <2>12. Waiting(r, k, x)
    BY <2>2, <2>10, <2>11, PortSet
  <2> QED BY <2>6, <2>12 DEF InStep
<1> QED BY <1>1, <1>2

(* The stages in which the port is empty between two steps.                *)
Polling == {"channels", "tests", "reset0", "reset1", "first", "identify0", "identify1",
            "end", "done", "failed"}

PortInv ==
  /\ phase = "begin" => InStep(s, 1)
  /\ phase \in Polling => InStep(s, 0)

(* The invariant of the port holds at the start.                           *)
LEMMA PortStart ==
  ASSUME PInit
  PROVE  PortInv
<1>1. Fresh(s) /\ s.waits = 1
  BY FreshStart
<1>2. s \in Controller /\ s.target = "first" /\ s.waits # 0
      /\ \A i \in {0, 1} : s.expects[i] = "command"
  BY <1>1 DEF Fresh
<1>3. Len(s.out) <= 1
  <2> DEFINE l == Entry(0, 28)
  <2>1. s.out = <<>> \/ s.out = <<l>>
    BY <1>1 DEF Fresh
  <2> DEFINE q == s.out
  <2> HIDE DEF l, q
  <2>2. q = <<>> \/ q = <<l>>
    BY <2>1 DEF q
  <2>3. Len(q) <= 1
    <3>1. CASE q = <<>>
      BY <3>1
    <3>2. CASE q = <<l>>
      BY <3>2
    <3> QED BY <2>2, <3>1, <3>2
  <2> QED BY <2>3 DEF q
<1>4. InStep(s, 1)
  BY <1>2, <1>3 DEF InStep, Waiting
<1>5. phase \in {"begin", "mouse_install", "ps2_initialize", "text"}
  BY DEF PInit
<1>6. phase \notin Polling
  BY <1>5 DEF Polling
<1> QED BY <1>4, <1>6 DEF PortInv

(* Every step of the drivers.                                              *)
LEMMA PortStep ==
  ASSUME MachinesGiven, PortInv, PNext
  PROVE  PortInv'
<1> DEFINE k == 0
           j == 1
           x == 2
<1>1. k \in Nat /\ j \in Nat /\ j <= k + 1 /\ x = 2
  OBVIOUS
<1>2. (phase = "begin" => InStep(s, j)) /\ (phase \in Polling => InStep(s, k))
  BY DEF PortInv
<1>3. ASSUME phase' # "begin", phase' \in Polling => InStep(s', k) PROVE PortInv'
  BY <1>3 DEF PortInv, InStep
<1> HIDE DEF k, j, x
<1>4. \A t, n : InStep(t, n) <=> Waiting(t, n, x)
  BY <1>1 DEF InStep
<1>5. CASE SelfTest
  <2> DEFINE t == Begin(s)
             f == [d \in {0, 1} |-> FALSE]
  <2>1. /\ phase = "begin" /\ phase' \in {"channels", "failed"} /\ t = Begin(s)
        /\ s' = t \/ s' = [t EXCEPT !.controllers = f]
    BY <1>5 DEF SelfTest
  <2>2. f \in Flags
    BY DEF Flags
  <2> HIDE DEF t, f
  <2>3. Waiting(s, j, x)
    BY <1>2, <1>4, <2>1
  <2>4. Waiting(t, k, x)
    BY <1>1, <2>1, <2>3, BeginInStep
  <2>5. Waiting(s', k, x)
    BY <2>1, <2>2, <2>4, ControllersSet
  <2> QED BY <1>3, <1>4, <2>1, <2>5
<1>6. CASE Channels
  <2>1. phase = "channels" /\ phase' = "tests" /\ s' = SecondFound(FindSecond(s))
    BY <1>6 DEF Channels, Step
  <2>2. Waiting(s, k, x)
    BY <1>2, <1>4, <2>1 DEF Polling
  <2>3. Waiting(s', k, x)
    BY <1>1, <2>1, <2>2, ChannelsInStep
  <2> QED BY <1>3, <1>4, <2>1, <2>3
<1>7. CASE Tests
  <2> DEFINE dual == s.controllers[1]
  <2>1. phase = "tests" /\ phase' = "reset0" /\ s' = TestSecond(TestFirst(s), dual)
    BY <1>7 DEF Tests, Step
  <2> HIDE DEF dual
  <2>2. Waiting(s, k, x)
    BY <1>2, <1>4, <2>1 DEF Polling
  <2>3. Waiting(s', k, x)
    BY <1>1, <2>1, <2>2, TestsInStep
  <2> QED BY <1>3, <1>4, <2>1, <2>3
<1>8. ASSUME NEW d \in {0, 1}, phase \in Polling, phase' # "begin",
             s' = Reset(s, d) \/ s' = Identify(s, d)
      PROVE  PortInv'
  <2>1. InStep(s, k)
    BY <1>2, <1>8
  <2>2. InStep(s', k)
    BY <1>1, <1>8, <2>1, ResetInStep, IdentifyInStep
  <2> QED BY <1>3, <1>8, <2>2
<1> DEFINE d0 == 0
           d1 == 1
<1>9. CASE Reset0 \/ Reset1 \/ Identify0 \/ Identify1
  <2>1. phase \in Polling /\ phase' # "begin"
    BY <1>9 DEF Reset0, Reset1, Identify0, Identify1, Step, Polling
  <2>2. \/ s' = Reset(s, d0) \/ s' = Reset(s, d1)
        \/ s' = Identify(s, d0) \/ s' = Identify(s, d1)
    BY <1>9 DEF Reset0, Reset1, Identify0, Identify1, Step
  <2>3. d0 \in {0, 1} /\ d1 \in {0, 1}
    OBVIOUS
  <2> HIDE DEF d0, d1
  <2> QED BY <1>8, <2>1, <2>2, <2>3
<1>10. CASE EnableFirst
  <2> DEFINE on == TRUE
  <2>1. phase = "first" /\ phase' = "identify0" /\ s' = ps2_enable_port(s, d0, on)
        /\ d0 \in {0, 1} /\ on \in BOOLEAN
    BY <1>10 DEF EnableFirst, Step
  <2> HIDE DEF d0, on
  <2>2. Waiting(s, k, x)
    BY <1>2, <1>4, <2>1 DEF Polling
  <2>3. Waiting(s', k, x)
    BY <1>1, <2>1, <2>2, PortEnabled
  <2> QED BY <1>3, <1>4, <2>1, <2>3
<1>11. CASE End
  <2> DEFINE t == WriteConfig(s)
             on == TRUE
  <2>1. /\ phase = "end" /\ phase' = "done" /\ s' = [t EXCEPT !.interrupts = on]
        /\ t = WriteConfig(s) /\ on \in BOOLEAN
    BY <1>11 DEF End, Step
  <2> HIDE DEF t, on
  <2>2. Waiting(s, k, x)
    BY <1>2, <1>4, <2>1 DEF Polling
  <2>3. Waiting(t, k, x)
    BY <1>1, <2>1, <2>2, ConfigWritten
  <2>4. Waiting(s', k, x)
    BY <2>1, <2>3, FlagSet
  <2> QED BY <1>3, <1>4, <2>1, <2>4
<1>12. CASE MouseInstall \/ Initialize
  <2>1. phase' \in {"mouse", "simple"}
    BY <1>12 DEF MouseInstall, Initialize, Step
  <2> QED BY <1>3, <2>1 DEF Polling
<1> QED BY <1>5, <1>6, <1>7, <1>9, <1>10, <1>11, <1>12 DEF PNext

(* init_ps2 reads every answer it asks for (InSync of Ps2) on every        *)
(* machine whose devices answer a reset and a question with as few bytes   *)
(* as MachinesGiven says, broken and absent ones included, unless a wait   *)
(* ends late.                                                              *)
THEOREM DriversInSync ==
  ASSUME MachinesGiven
  PROVE  KSpec => []InSync
<1>1. KInit => PortInv
  BY PortStart DEF KInit
<1>2. MachinesGiven /\ PortInv /\ [KNext]_(allvars) => PortInv'
  <2> SUFFICES ASSUME MachinesGiven, PortInv, [KNext]_(allvars) PROVE PortInv'
    OBVIOUS
  <2>1. CASE UNCHANGED allvars
    BY <2>1 DEF allvars, PortInv, InStep, Waiting
  <2>2. CASE PNext
    BY <2>2, PortStep
  <2>3. CASE switch_led \/ kbd_ack \/ SendLights \/ sys_key_handler \/ KeyPress
    <3>1. phase \in {"mouse", "text"} /\ phase' = phase
      BY <2>3 DEF switch_led, kbd_ack, SendLights, sys_key_handler, KeyPress, Booted
    <3> QED BY <3>1 DEF PortInv, Polling
  <2> QED BY <2>1, <2>2, <2>3 DEF KNext
<1>3. PortInv => InSync
  <2> SUFFICES ASSUME PortInv, phase \in {"done", "failed"}, s.late = 0
               PROVE  s.out = <<>>
    BY DEF InSync
  <2>1. InStep(s, 0)
    BY DEF PortInv, Polling
  <2>2. s \in Controller /\ Len(s.out) <= 0
    BY <2>1 DEF InStep, Waiting
  <2>3. s.out \in Seq(Sent)
    BY <2>2, QueueCounted DEF Queues
  <2> DEFINE q == s.out
  <2> HIDE DEF q
  <2>4. q \in Seq(Sent) /\ Len(q) <= 0
    BY <2>2, <2>3 DEF q
  <2>5. q = <<>>
    BY <2>4
  <2> QED BY <2>5 DEF q
<1>4. MachinesGiven
  OBVIOUS
<1> QED BY <1>1, <1>2, <1>3, <1>4, PTL DEF KSpec
=============================================================================
