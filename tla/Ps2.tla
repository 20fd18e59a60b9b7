-------------------------------- MODULE Ps2 --------------------------------
(***************************************************************************)
(* The PS/2 drivers: init_ps2 and ps2_initialize (arch/i386/ps2.c), the    *)
(* set-up of the keyboard (keyboard.c) and of the mouse (mouse.c), against *)
(* the 8042 controller and its two devices, which are external.            *)
(*                                                                         *)
(* The drivers run with interrupts off and poll.  `s' is the state of the  *)
(* driver and of the controller together, and a function of the driver is  *)
(* an operator on it.  A wait loop ends in three ways: the controller was  *)
(* ready in time; it was not, and the counter has passed below zero, which *)
(* timer != 0 reports as success; or it became ready at the very poll that *)
(* finds the counter at zero, which is reported as failure.  The third     *)
(* happens to at most one wait, the one whose number is s.late.            *)
(***************************************************************************)
EXTENDS Integers, Sequences

CONSTANTS
  Machines,       \* what the controller and the devices are like
  LateWaits       \* the numbers of the wait that ends late; 0: none does

ASSUME Ps2Assumption ==
  /\ LateWaits \subseteq Nat
  /\ \A m \in Machines : m.id \in [{0, 1} -> Seq(0 .. 255)]

(* A device answers a reset and the question what it is with few bytes, as *)
(* devices do.                                                             *)
MachinesGiven ==
  \A m \in Machines :
    /\ m.selftest \in Int /\ m.test \in [{0, 1} -> Int]
    /\ m.reset[0] \in Seq(Int) /\ Len(m.reset[0]) <= 2
    /\ m.reset[1] \in Seq(Int) /\ Len(m.reset[1]) <= 3
    /\ \A d \in {0, 1} : m.id[d] \in Seq(Int) /\ Len(m.id[d]) <= 2

VARIABLES s, phase
pvars == <<s, phase>>

ACK == 250
RESET_ACK == 170
RESEND == 254

HasBit(byte, bit) == (byte \div bit) % 2 = 1
SetBit(byte, bit) == IF HasBit(byte, bit) THEN byte ELSE byte + bit
ClearBit(byte, bit) == IF HasBit(byte, bit) THEN byte - bit ELSE byte

\* Bits of the configuration byte: interrupt and stopped clock of a port.
PortBit == <<1, 2>>
ClockBit == <<16, 32>>
SYSTEM_FLAG == 4
TRANSLATION == 64

-----------------------------------------------------------------------------
(* The controller and the devices.                                         *)

\* `out' holds bytes with their source: a device, or 2 for the controller.
Answers(t, from, bytes) == [t EXCEPT !.out = @ \o [k \in DOMAIN bytes |-> [from |-> from, byte |-> bytes[k]]]]

\* A device answers every byte it is sent; without a device there is silence.
\* The byte after 0xED sets the lights, the one after 0xF0 asks for the scan
\* code set.
Answer(t, d, byte) ==
  CASE t.expects[d] = "lights" -> Answers([t EXCEPT !.expects[d] = "command", !.lights = byte], d, <<ACK>>)
    [] t.expects[d] = "set" -> Answers([t EXCEPT !.expects[d] = "command"], d, <<ACK, 2>>)
    [] t.expects[d] = "command" /\ byte = 255 -> Answers(t, d, t.machine.reset[d])
    [] t.expects[d] = "command" /\ byte = 242 -> Answers(t, d, <<ACK>> \o t.machine.id[d])
    [] t.expects[d] = "command" /\ byte = 244 -> Answers([t EXCEPT !.scanning[d] = TRUE], d, <<ACK>>)
    [] t.expects[d] = "command" /\ byte \in {245, 246} -> Answers([t EXCEPT !.scanning[d] = FALSE], d, <<ACK>>)
    [] t.expects[d] = "command" /\ byte = 240 -> Answers([t EXCEPT !.expects[d] = "set"], d, <<ACK>>)
    [] t.expects[d] = "command" /\ byte = 237 -> Answers([t EXCEPT !.expects[d] = "lights"], d, <<ACK>>)
    [] OTHER -> Answers(t, d, <<RESEND>>)

Device(t, d, byte) == IF t.machine.present[d] THEN Answer(t, d, byte) ELSE t

Stop(t, port) == [t EXCEPT !.config = SetBit(@, ClockBit[port])]
Start(t, port) == [t EXCEPT !.config = ClearBit(@, ClockBit[port])]

\* A byte to the command port.
Command(t, c) ==
  CASE c = 173 -> Stop(t, 1)
    [] c = 167 -> Stop(t, 2)
    [] c = 174 -> Start(t, 1)
    [] c = 168 -> IF t.machine.dual THEN Start(t, 2) ELSE t
    [] c = 32 -> Answers(t, 2, <<t.config>>)
    [] c = 170 -> Answers(t, 2, <<t.machine.selftest>>)
    [] c = 171 -> Answers(t, 2, <<t.machine.test[0]>>)
    [] c = 169 -> Answers(t, 2, <<t.machine.test[1]>>)
    [] c = 96 -> [t EXCEPT !.target = "config"]
    [] c = 212 -> [t EXCEPT !.target = "second"]

\* A byte to the data port goes where the last command said, by default to
\* the first device.
Data(t, byte) ==
  CASE t.target = "config" -> [t EXCEPT !.config = byte, !.target = "first"]
    [] t.target = "second" -> Device([t EXCEPT !.target = "first"], 1, byte)
    [] t.target = "first" -> Device(t, 0, byte)

\* inb(0x60): without a new byte the port shows the last one again.
inb(t) == IF t.out = <<>> THEN [t EXCEPT !.read = t.latch]
          ELSE [t EXCEPT !.read = t.out[1].byte, !.latch = t.out[1].byte, !.out = Tail(@)]

-----------------------------------------------------------------------------
(* ps2.c: the handshakes.                                                  *)

\* Does this wait end at the poll that finds the counter at zero?
Late(t) == t.waits = t.late

Waited(t) == [t EXCEPT !.waits = @ + 1]

ps2_command_write(t, c) == IF Late(t) THEN Waited(t) ELSE Command(Waited(t), c)
ps2_data_write(t, byte) == IF Late(t) THEN Waited(t) ELSE Data(Waited(t), byte)

\* A read that times out shows the old byte; one that is late leaves the new
\* byte where it is and gives -1.
ps2_read(t) ==
  IF t.out # <<>> /\ Late(t) THEN [Waited(t) EXCEPT !.read = 255] ELSE inb(Waited(t))

\* When the prefix for the second device fails, the byte is not sent at all.
ps2_write_device(t, d, byte) ==
  IF d = 1 /\ Late(t) THEN Waited(t)
  ELSE ps2_data_write(IF d = 1 THEN ps2_command_write(t, 212) ELSE t, byte)

\* Mutant: the acknowledgement of a byte is not read.
OrderUnread(t, d, byte) == ps2_write_device(t, d, byte)

\* Sends a byte to a device and reads the acknowledgement, which is only logged.
Order(t, d, byte) == ps2_read(ps2_write_device(t, d, byte))

ps2_enable_port(t, d, enable) ==
  IF ~t.controllers[d] THEN t
  ELSE ps2_read(ps2_command_write(t, IF enable THEN <<174, 168>>[d + 1] ELSE <<173, 167>>[d + 1]))

WriteConfig(t) == ps2_data_write(ps2_command_write(t, 96), t.cfg)
TakeConfig(t) == [t EXCEPT !.cfg = t.read]
ReadConfig(t) == TakeConfig(ps2_read(ps2_command_write(t, 32)))

\* Mutant: a device that failed its reset is still set up.
GiveUpLater(t, d) == ps2_enable_port(t, d, FALSE)

GiveUp(t, d) == [ps2_enable_port(t, d, FALSE) EXCEPT !.controllers[d] = FALSE]

-----------------------------------------------------------------------------
(* init_ps2, from one decision to the next.                                *)

\* Both ports off, interrupts and translation off in the configuration, and
\* the self-test.
CleanConfig(t) ==
  [t EXCEPT !.cfg = ClearBit(ClearBit(ClearBit(SetBit(@, SYSTEM_FLAG), 1), 2), TRANSLATION)]
Begin(t) ==
  ps2_read(ps2_command_write(WriteConfig(CleanConfig(ReadConfig(inb(
    ps2_command_write(ps2_command_write([t EXCEPT !.interrupts = FALSE], 173), 167))))), 170))

\* Is there a second channel?  Its clock starts if there is.
FindSecond(t) == ReadConfig(ps2_command_write(WriteConfig(t), 168))
SecondFound(t) == IF HasBit(t.cfg, 32) THEN [t EXCEPT !.controllers[1] = FALSE]
                  ELSE ps2_command_write(t, 167)
Passed(t, d) == IF t.read = 0 THEN t ELSE [t EXCEPT !.controllers[d] = FALSE]
TestFirst(t) == Passed(ps2_read(ps2_command_write(t, 171)), 0)
TestSecond(t, dual) == IF dual THEN Passed(ps2_read(ps2_command_write(t, 169)), 1) ELSE t

\* The first byte after the acknowledgement of a reset, and for the mouse
\* the second one.
FirstResult(t, d) == ps2_read(Order(ps2_enable_port(t, d, TRUE), d, 255))
MouseReset(first, second) ==
  \/ first = RESET_ACK /\ second \in {ACK, 0}
  \/ first \in {ACK, 0} /\ second = RESET_ACK
ResetKeyboard(t) ==
  IF t.read # RESET_ACK THEN GiveUp(t, 0) ELSE ps2_enable_port(ps2_read(t), 0, FALSE)
ResetMouse(t, first) == IF MouseReset(first, t.read) THEN t ELSE GiveUp(t, 1)
Reset(t, d) ==
  CASE ~t.controllers[d] -> t
    [] t.controllers[d] /\ d = 0 -> ResetKeyboard(FirstResult(t, 0))
    [] t.controllers[d] /\ d = 1 -> ResetMouse(ps2_read(FirstResult(t, 1)), FirstResult(t, 1).read)

ps2_identity_bytes_to_type(first, second) ==
  CASE first \in {0, 3, 4} -> "mouse"
    [] first = 171 /\ second \in {65, 193, 131} -> "keyboard"
    [] OTHER -> "unknown"

\* init_keyboard: the handler, the scan code set, and scanning on.
init_keyboard(t, d) ==
  Order(ps2_read(Order(Order([t EXCEPT !.handler = TRUE], d, 240), d, 0)), d, 244)

\* The type decides on the driver, and the interrupt of the port is enabled.
Enabled(t, d) ==
  [t EXCEPT !.cfg = ClearBit(SetBit(@, PortBit[d + 1]), ClockBit[d + 1])]
Drive(t, d, type) ==
  CASE type = "keyboard" -> Enabled(init_keyboard(t, d), d)
    [] type = "mouse" -> Enabled(t, d)
    [] type = "unknown" -> t
IdentifySecond(t, d, first) == Drive(t, d, ps2_identity_bytes_to_type(first, t.read))
ps2_identify_device(t, d) == ps2_read(Order(Order(t, d, 245), d, 242))
Identify(t, d) ==
  IF ~t.controllers[d] THEN t
  ELSE IdentifySecond(ps2_read(ps2_identify_device(t, d)), d, ps2_identify_device(t, d).read)

-----------------------------------------------------------------------------
(* mouse.c and ps2_initialize: their waits ignore how they end.            *)

mouse_write(t, byte) == Data(Command(t, 212), byte)
mouse_read(t) == inb(t)

\* The configuration with the bit of IRQ 12 is written to the data port
\* without the command that would make it the configuration.
SendStatus(t) == Data(t, SetBit(t.read, 2))
mouse_install(t) ==
  [mouse_read(mouse_write(SendStatus(inb(Command(Command(t, 168), 32))), 246))
     EXCEPT !.mouse_handler = TRUE]

\* Both ports off, whatever is there thrown away, both on.
Drained(t) == [t EXCEPT !.out = <<>>, !.latch = IF t.out = <<>> THEN @ ELSE t.out[Len(t.out)].byte]
ps2_initialize(t) ==
  mouse_write(mouse_write(
    Command(Command(Drained(Command(Command(t, 173), 167)), 174), 168), 246), 244)

-----------------------------------------------------------------------------

\* The state the firmware leaves: interrupt and translation of the keyboard
\* on, and perhaps a key nobody read.
PInit ==
  /\ \E m \in Machines, late \in LateWaits, left \in {<<>>, <<[from |-> 0, byte |-> 28]>>} :
       s = [machine |-> m, late |-> late, waits |-> 1, out |-> left, latch |-> 0,
            config |-> 65, target |-> "first", scanning |-> [d \in {0, 1} |-> d = 0],
            expects |-> [d \in {0, 1} |-> "command"], lights |-> 0, read |-> 0, cfg |-> 0,
            interrupts |-> TRUE, handler |-> FALSE, mouse_handler |-> FALSE,
            controllers |-> [d \in {0, 1} |-> TRUE]]
  /\ phase \in {"begin", "mouse_install", "ps2_initialize", "text"}
  /\ phase = "begin" \/ s.late = 0

Step(from, to, t) == phase = from /\ phase' = to /\ s' = t

SelfTest ==
  /\ phase = "begin"
  /\ s' = IF Begin(s).read = 85 THEN Begin(s)
          ELSE [Begin(s) EXCEPT !.controllers = [d \in {0, 1} |-> FALSE]]
  /\ phase' = IF Begin(s).read = 85 THEN "channels" ELSE "failed"

Channels == Step("channels", "tests", SecondFound(FindSecond(s)))
Tests == Step("tests", "reset0", TestSecond(TestFirst(s), s.controllers[1]))
Reset0 == Step("reset0", "reset1", Reset(s, 0))
Reset1 == Step("reset1", "first", Reset(s, 1))
EnableFirst == Step("first", "identify0", ps2_enable_port(s, 0, TRUE))
Identify0 == Step("identify0", "identify1", Identify(s, 0))
Identify1 == Step("identify1", "end", Identify(s, 1))
End == Step("end", "done", [WriteConfig(s) EXCEPT !.interrupts = TRUE])
MouseInstall == Step("mouse_install", "mouse", mouse_install(s))
Initialize == Step("ps2_initialize", "simple", ps2_initialize(s))

PNext == \/ SelfTest \/ Channels \/ Tests \/ Reset0 \/ Reset1 \/ EnableFirst
         \/ Identify0 \/ Identify1 \/ End \/ MouseInstall \/ Initialize

PSpec == PInit /\ [][PNext]_pvars

-----------------------------------------------------------------------------

Works(d) == /\ s.machine.present[d] /\ s.machine.selftest = 85 /\ s.machine.test[d] = 0
            /\ d = 1 => s.machine.dual

\* When no wait ends late, init_ps2 reads every answer it asks for, also of a
\* machine with a broken or an absent device: none is taken for the next one.
InSync == phase \in {"done", "failed"} /\ s.late = 0 => s.out = <<>>

\* The interrupt of a port is on at the end exactly if a device works there,
\* was reset and says what it is; a keyboard has its handler and scans.  And
\* init_ps2 gives interrupts back unless the self-test failed, where it
\* returns before x86_enable_int, whatever wait ends late.
PortsMatchDevices ==
  /\ phase = "done" /\ s.late = 0 =>
       /\ \A d \in {0, 1} : HasBit(s.config, PortBit[d + 1]) <=> Works(d) /\ s.machine.healthy[d]
       /\ Works(0) /\ s.machine.healthy[0] => s.handler /\ s.scanning[0]
  /\ phase \in {"done", "failed"} => (s.interrupts <=> phase = "done")
=============================================================================
