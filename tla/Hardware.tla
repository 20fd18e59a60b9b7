------------------------------ MODULE Hardware ------------------------------
(***************************************************************************)
(* What the kernel hands to the processor and the chips, as functions:     *)
(* descriptor tables, the interrupt frame, timer, speaker, PCI, AHCI and   *)
(* CPUID.  A 32-bit number that may be above 2^31 is [hi, lo], its upper   *)
(* 12 and lower 20 bits, or its two words.                                 *)
(***************************************************************************)
EXTENDS Integers, Sequences, SequencesExt

-----------------------------------------------------------------------------
(* descriptor_tables.c, tss.c: a segment descriptor.                       *)

set_gdt_entry(base, limit, access, granularity) ==
  [base_low |-> base.lo % 65536,
   base_middle |-> (base.lo \div 65536) + 16 * (base.hi % 16),
   base_high |-> base.hi \div 16,
   limit_low |-> limit.lo % 65536,
   granularity |-> (limit.lo \div 65536) + 16 * (granularity \div 16),
   access |-> access]

TSS_SIZE == 104     \* sizeof(tss_entry)

(* The limit is the address behind the structure, not its size.            *)
write_tss(base) ==
  set_gdt_entry(base, [hi |-> (base.hi + (base.lo + TSS_SIZE) \div 2 ^ 20) % 4096,
                       lo |-> (base.lo + TSS_SIZE) % 2 ^ 20], 233, 0)

Flat == [hi |-> 4095, lo |-> 2 ^ 20 - 1]
Nil == [hi |-> 0, lo |-> 0]

gdt_initialize(tss) ==
  <<set_gdt_entry(Nil, Nil, 0, 0), set_gdt_entry(Nil, Flat, 154, 207),
    set_gdt_entry(Nil, Flat, 146, 207), set_gdt_entry(Nil, Flat, 250, 207),
    set_gdt_entry(Nil, Flat, 242, 207), write_tss(tss)>>

(* As the processor puts base and limit together.                          *)
SegmentBase(e) == [hi |-> e.base_high * 16 + e.base_middle \div 16,
                   lo |-> (e.base_middle % 16) * 65536 + e.base_low]
SegmentLimit(e) == (e.granularity % 16) * 65536 + e.limit_low

(* Code and data span the whole memory, in pages, and the descriptor of    *)
(* the task state segment leads to it, wherever it is.                     *)
SegmentsExact(gdt, tss) ==
  /\ \A i \in 2 .. 5 : /\ SegmentBase(gdt[i]) = Nil /\ SegmentLimit(gdt[i]) = Flat.lo
                        /\ gdt[i].granularity \div 128 = 1
  /\ SegmentBase(gdt[6]) = tss

-----------------------------------------------------------------------------
(* descriptor_tables_asm.S: the table of gates, and the frame.             *)

NUM_INT == 49       \* stubs, and rounds of the loop
IDT_ENTRIES == 48   \* .rept NUM_INT-1
isr_stub_len == 9

(* `entry` is [high, low], the words of _isr; the stub of n is 9 n further. *)
idt_initialize(entry) ==
  [n \in 0 .. NUM_INT - 1 |->
     [low |-> (entry.low + n * isr_stub_len) % 65536,
      high |-> entry.high + (entry.low + n * isr_stub_len) \div 65536]]

(* Exceptions whose stub expects the processor's error code.               *)
WithErrorCode == {8} \cup 10 .. 14 \cup {17}

(* Mutant: the stub of 17 pushes a second error code.                      *)
isrEighteen(n) == IF n \in WithErrorCode \ {17} THEN <<n>> ELSE <<n, 0>>

(* What the stub pushes, the last pushed first.                            *)
isr(n) == IF n \in WithErrorCode THEN <<n>> ELSE <<n, 0>>

(* The stack in x86_exception_handler, from the frame pointer up: pusha,   *)
(* the segment registers, the stub's words, what the processor pushed.     *)
interrupt_common(n, pushed) ==
  <<"edi", "esi", "ebp", "esp", "ebx", "edx", "ecx", "eax", "ds", "es", "fs", "gs">>
  \o isr(n) \o pushed

iframe(stack) == [vector |-> stack[13], ip |-> stack[15], cs |-> stack[16], flags |-> stack[17]]

(* The end of interrupt_common drops the registers and two words.          *)
Returned(stack) == SubSeq(stack, 15, Len(stack))

(* What is called, and whether it comes back: an exception is reported and *)
(* ends in x86_halt.                                                       *)
handle_exception(vector) == [calls |-> <<"exception", vector>>, returns |-> FALSE]

x86_exception_handler(vector) ==
  IF 31 >= vector THEN handle_exception(vector)
  ELSE IF 47 >= vector THEN [calls |-> <<"irq", vector - 32>>, returns |-> TRUE]
  ELSE handle_exception(16)

(* irq_register_handler takes the numbers 0 to 15.                         *)
irq_register_handler(routines, irq, handler) ==
  IF irq < 0 \/ irq > 15 THEN routines ELSE [routines EXCEPT ![irq] = handler]

(* What the processor pushes for an interrupt or exception.                *)
Pushed(n) == (IF n \in WithErrorCode THEN <<"error">> ELSE <<>>) \o <<"ip", "cs", "flags">>

(* Every entry of the table leads to the stub of its own number.  The      *)
(* interrupt of a line reaches its own routine, whatever numbers were      *)
(* offered with handlers before, and then goes back to where it came from; *)
(* an exception is reported by its number and ends there, with the address *)
(* it came from in the frame.                                              *)
InterruptsExact(gates, entry) ==
  LET line(n) == CHOOSE i \in 0 .. 15 : n = 32 + i
      routines == FoldLeft(LAMBDA r, i : irq_register_handler(r, i, i),
                           [i \in 0 .. 15 |-> -1], <<-1, 16, 128>> \o [i \in 1 .. 16 |-> i - 1])
  IN  \A n \in 0 .. IDT_ENTRIES - 1 :
        LET s == interrupt_common(n, Pushed(n))
            handled == x86_exception_handler(iframe(s).vector)
        IN  /\ gates[n].low + 65536 * (gates[n].high - entry.high) = entry.low + n * isr_stub_len
            /\ gates[n].low < 65536
            /\ iframe(s).ip = "ip" /\ iframe(s).cs = "cs"
            /\ n >= 32 => /\ handled.returns /\ Returned(s) = <<"ip", "cs", "flags">>
                          /\ handled.calls = <<"irq", line(n)>> /\ routines[line(n)] = line(n)
            /\ n < 32 => ~handled.returns /\ handled.calls = <<"exception", n>>

-----------------------------------------------------------------------------
(* pit.c, speaker.c: the timer's channels, [mode, count] with count 0 for  *)
(* one that waits for its count, and the speaker bits of port 0x61.        *)

INTERNAL_FREQ == 1193182

(* 0x34 and the divisor.  The second remainder is taken of the count.      *)
pit_init(p, frequency) ==
  LET q == ((3 * INTERNAL_FREQ) \div frequency) \div 3
      rounded == IF (3 * INTERNAL_FREQ) % frequency >= (3 * INTERNAL_FREQ) \div 2
                 THEN ((3 * INTERNAL_FREQ) \div frequency + 1) \div 3 ELSE q
      count == IF frequency <= 18 THEN 65535
               ELSE IF frequency >= INTERNAL_FREQ THEN 1
               ELSE IF rounded % 3 >= 1 THEN rounded + 1 ELSE rounded
  IN  [p EXCEPT !.ch0 = [mode |-> 2, count |-> count % 65536]]

(* Two bytes of the count; other channels than 0, 1, 2 are refused.        *)
pit_set_counter(p, count) == [p EXCEPT !.ch2.count = count % 65536]

(* The control word is for channel 0, mode 0; the count goes to channel 2. *)
pit_mdelay(p, ms) ==
  LET q == [p EXCEPT !.ch0 = [mode |-> 0, count |-> 0]]
  IN  IF ms = 0 THEN q ELSE pit_set_counter(q, INTERNAL_FREQ \div 1000)

(* 0xB6: channel 2, mode 3.  Only 16 bits of the divisor are sent.         *)
pit_phase_c2(p, hz) == [p EXCEPT !.ch2 = [mode |-> 3, count |-> (1193180 \div hz) % 65536]]

pcspkr_tone_on(p, hz) == [pit_phase_c2(p, hz) EXCEPT !.speaker = 3]
pcspkr_tone_off(p) == pit_phase_c2([p EXCEPT !.speaker = 0], 1)
pcspkr_beep(p, mst, hz) == pcspkr_tone_off(pit_mdelay(pcspkr_tone_on(p, hz), mst))
init_speaker(p) == [p EXCEPT !.speaker = IF @ % 2 = 0 THEN @ + 1 ELSE @]

PowerOn == [ch0 |-> [mode |-> 3, count |-> 65535], ch2 |-> [mode |-> 3, count |-> 1], speaker |-> 0]

(* The timer's divisor is the one of the frequency or the next higher, and *)
(* never 0.  From 19 Hz on, where the divisor fits, a tone has the         *)
(* frequency asked for and leaves the system timer alone; after a beep the *)
(* speaker is off.  What pit_mdelay does to the timer is not claimed.      *)
TimersExact(p, frequency, hz) ==
  LET on == pcspkr_tone_on(p, hz)
      beep == pcspkr_beep(p, 10, hz)
  IN  /\ p.ch0.mode = 2 /\ p.ch0.count \in 1 .. 65535
      /\ frequency \in 19 .. INTERNAL_FREQ =>
           p.ch0.count - (INTERNAL_FREQ \div frequency) \in {0, 1}
      /\ hz >= 19 => /\ on.ch2.mode = 3 /\ on.ch2.count * hz <= 1193180
                     /\ (on.ch2.count + 1) * hz > 1193180
      /\ on.speaker = 3 /\ beep.speaker = 0 /\ on.ch0 = p.ch0

-----------------------------------------------------------------------------
(* pci.c over outb and inb, which move one byte.  data[a] is the byte the  *)
(* data port gives after a was written to the address port.                *)

pci_config_read(data, offset) ==
  LET a == offset - (offset % 4)
  IN  IF (offset \div 2) % 2 = 1 THEN 0 ELSE data[a]

read_vendor(data) == pci_config_read(data, 0)
read_devid(data) == pci_config_read(data, 2)
read_class(data) == pci_config_read(data, 10) \div 256
read_subclass(data) == pci_config_read(data, 10) % 256
read_prog_if(data) == pci_config_read(data, 8) \div 256
read_irq_line(data) == pci_config_read(data, 60) % 256
get_bar(data, offset) == pci_config_read(data, offset + 2) * 65536 + pci_config_read(data, offset)

NoDevice == [valid |-> FALSE]

init_dev(data) ==
  [valid |-> TRUE, irq_line |-> read_irq_line(data), bar0 |-> get_bar(data, 16),
   bar4 |-> get_bar(data, 32), bar5 |-> get_bar(data, 36), bus |-> 0, slot |-> 0, func |-> 0]

(* The loops over bus, slot and function: nothing of the three reaches the *)
(* address port, so the first place decides.                               *)
pci_find_any(data, class_code, subclass_code, interface_value) ==
  IF /\ read_class(data) = class_code /\ read_subclass(data) = subclass_code
     /\ interface_value = -1 \/ read_prog_if(data) = interface_value
  THEN init_dev(data) ELSE NoDevice

pci_find(data, vendor_id, device_id) ==
  IF read_devid(data) = device_id /\ read_vendor(data) = vendor_id
  THEN init_dev(data) ELSE NoDevice

ahci_init(data) == pci_find_any(data, 1, 6, -1).valid

(* check_type of a port [det, ipm, sig].                                   *)
check_type(port) ==
  IF port.det # 3 \/ port.ipm # 1 THEN "NULL"
  ELSE IF port.sig \in {"SATAPI", "SEMB", "PM"} THEN port.sig ELSE "SATA"

RECURSIVE port_probe(_, _, _)
(* The reports of the loop from port i on: `pi` is shifted each round.     *)
port_probe(pi, ports, i) ==
  IF i = Len(ports) THEN <<>>
  ELSE (IF pi % 2 = 1 THEN <<<<i, check_type(ports[i + 1])>>>> ELSE <<>>)
       \o port_probe(pi \div 2, ports, i + 1)

(* No SATA controller is reported where the bus has another class at that  *)
(* place, and a device found by its numbers has the vendor asked for, in   *)
(* the byte that is read, and carries the line its register names.  (With  *)
(* one byte per access the class read is always 0: a controller that is    *)
(* there is not found either.)                                             *)
BusExact(data, class, found) ==
  /\ found => class = <<1, 6>>
  /\ \A v \in {0, 134, 255}, d \in 0 .. 3 :
       LET dev == pci_find(data, v, d)
       IN  dev.valid => v = data[0] /\ dev.irq_line = data[60] /\ dev.bar0 % 256 = data[16]

(* Each implemented port is reported once, in order, as its drive if that  *)
(* is present and active.                                                  *)
PortsExact(pi, ports, reports) ==
  reports
    = SelectSeq([i \in DOMAIN ports |-> <<i - 1, check_type(ports[i])>>],
                LAMBDA r : (pi \div 2 ^ r[1]) % 2 = 1)

-----------------------------------------------------------------------------
(* cpuid.c.  `max` is the highest extended leaf less 0x80000000.           *)

(* The leaves of the name that are read (2, 3, 4), and the return value.   *)
(* __get_cpuid_max is asked with leaf 4 itself and so returns `word`, what *)
(* that leaf gives: the name from its 33rd character on, 0 after a short   *)
(* one.  __get_cpuid leaves the buffer alone for a leaf above the highest. *)
get_model_name(vendor, max, word) ==
  IF \/ vendor = "intel" /\ max < 4
     \/ vendor = "amd" /\ max < 2
     \/ word = 0
  THEN [ret |-> 1, filled |-> {}]
  ELSE [ret |-> 0, filled |-> {l \in 2 .. 4 : l <= max}]

(* The fields of the signature that are shown.                             *)
Field(eax, shift, size) == (eax \div 2 ^ shift) % 2 ^ size
extended_family(eax) == IF Field(eax, 8, 4) = 15 THEN Field(eax, 20, 8) ELSE -1
intel_cpuid(eax) ==
  [type |-> Field(eax, 12, 2), family |-> Field(eax, 8, 4), model |-> Field(eax, 4, 4),
   extended |-> extended_family(eax)]
amd_cpuid(eax) == [family |-> Field(eax, 8, 4), model |-> Field(eax, 4, 4)]

detect_cpu(vendor, max, word, eax) ==
  [name |-> get_model_name(vendor, max, word),
   shown |-> CASE vendor = "intel" -> intel_cpuid(eax)
               [] vendor = "amd" -> amd_cpuid(eax)
               [] OTHER -> [family |-> -1, model |-> -1]]

(* On an Intel processor, and on every processor that has all leaves of    *)
(* it, a name is shown only as a whole; a long name is shown there.  The   *)
(* family and model shown are those of the signature.                      *)
NameExact(vendor, max, word, eax, d) ==
  /\ d.name.ret = 0 /\ (vendor = "intel" \/ max >= 4) => d.name.filled = 2 .. 4
  /\ max >= 4 /\ word # 0 => d.name.ret = 0
  /\ vendor # "other" => d.shown.family * 16 + d.shown.model = (eax \div 16) % 256
=============================================================================
