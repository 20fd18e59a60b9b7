-------------------------------- MODULE Rtc --------------------------------
(***************************************************************************)
(* Reading the date from the real-time clock, arch/i386/rtc.c.             *)
(*                                                                         *)
(* The clock chip runs on its own.  An update raises the update-in-        *)
(* progress flag, changes the registers one by one and lowers the flag.    *)
(* Three registers stand for six: minute, day and month are treated as     *)
(* second is.                                                              *)
(*                                                                         *)
(* A reader is a call of read_rtc_date: kernel_main's, and the one an      *)
(* interrupt handler makes (the shell's date command in the keyboard's,    *)
(* render_date_to_top_bar in the timer's).  An interrupt runs to its end   *)
(* while the main program stands still.  The port that selects a register  *)
(* and the variables second, hour and year are shared by all calls;        *)
(* last_second and its likes are local.  century_register is never set.    *)
(***************************************************************************)
EXTENDS Integers

CONSTANTS SECS,          \* values of the second register (60)
          CURRENT_YEAR,  \* the compile-time year (2023)
          Starts,        \* times at which the machine may boot
          RegistersB,    \* settings of register B the firmware may leave
          MaxTicks,      \* bound: seconds that pass while the date is read
          Readers,       \* the calls of read_rtc_date
          main, irq      \* kernel_main's call, the interrupt's call

ASSUME RtcAssumption ==
  /\ SECS \in Nat \ {0, 1} /\ CURRENT_YEAR \in Nat
  /\ MaxTicks \in Nat /\ MaxTicks < SECS  \* no second comes round again
  /\ Starts \subseteq Nat
  /\ RegistersB \subseteq [binary : BOOLEAN, h24 : BOOLEAN]
  /\ main # irq /\ main \in Readers /\ Readers \subseteq {main, irq}

(* The year register has two digits: the code gives back the year only     *)
(* within a century of the one it was compiled in.                         *)
WithinCentury == \A t \in Starts : (t + MaxTicks) \div (24 * SECS) < 100

(* The registers in the order in which they are read.                      *)
Fields == <<"second", "hour", "year">>
NFields == 3

(* The calendar: time 0 is the first second of CURRENT_YEAR, and a day     *)
(* makes a year.                                                           *)
calendar(t) == [second |-> t % SECS,
                hour   |-> (t \div SECS) % 24,
                year   |-> CURRENT_YEAR + t \div (24 * SECS)]

(* How the chip shows a field: BCD unless register B says binary, and the  *)
(* hour as 1 .. 12 with bit 7 for PM unless it says 24 hours.              *)
bcd(n) == 16 * (n \div 10) + (n % 10)
shown(b, n) == IF b.binary THEN n ELSE bcd(n)
shownHour(b, h) ==
  IF b.h24 THEN shown(b, h)
  ELSE shown(b, IF h % 12 = 0 THEN 12 ELSE h % 12) + (IF h >= 12 THEN 128 ELSE 0)
registers(b, t) ==
  [second |-> shown(b, calendar(t).second),
   hour   |-> shownHour(b, calendar(t).hour),
   year   |-> shown(b, calendar(t).year % 100)]

(* The conversions of the code.                                            *)
fromBCD(v) == (v % 16) + (v \div 16) * 10
fromBCDHour(v) == fromBCD(v % 128) + (IF v >= 128 THEN 128 ELSE 0)
from12Hour(v) == IF v >= 128 THEN ((v % 128) + 12) % 24 ELSE v
fullYear(y) ==
  LET full == y + (CURRENT_YEAR \div 100) * 100
  IN  IF full < CURRENT_YEAR THEN full + 100 ELSE full

convert(b, f, v) ==
  LET n == IF b.binary THEN v ELSE IF f = "hour" THEN fromBCDHour(v) ELSE fromBCD(v)
  IN  CASE f = "hour" -> IF b.h24 THEN n ELSE from12Hour(n)
        [] f = "year" -> fullYear(n)
        [] OTHER      -> n

VARIABLES time,      \* the time the chip shows or is about to show
          start,     \* the time at boot
          regs,      \* the registers
          updating,  \* the fields an update has still to change
          uip,       \* the update-in-progress flag
          registerB,
          index,     \* the register selected through port 0x70
          date,      \* second, hour and year: shared
          last,      \* last[r]: last_second, last_hour, last_year
          pc,        \* pc[r]: where reader r is
          field,     \* field[r]: the field it reads or converts
          result,    \* result[r]: the date it prints
          disturbed  \* history: an interrupt's call fell into main's

vars == <<time, start, regs, updating, uip, registerB, index, date, last, pc,
          field, result, disturbed>>

(* Nothing read yet: no register ever shows it.                            *)
Nothing == [second |-> -1, hour |-> -1, year |-> -1]

Init ==
  /\ start \in Starts /\ time = start /\ registerB \in RegistersB
  /\ regs = registers(registerB, start) /\ updating = {} /\ uip = FALSE
  /\ index = "A"
  /\ date = Nothing
  /\ last = [r \in Readers |-> Nothing]
  /\ pc = [r \in Readers |-> "idle"]
  /\ field = [r \in Readers |-> 1]
  /\ result = [r \in Readers |-> Nothing]
  /\ disturbed = FALSE

clock == <<time, start, regs, updating, uip, registerB>>
call == <<date, last, field, result>>

-----------------------------------------------------------------------------
(* The chip.                                                               *)
BeginUpdate ==
  /\ ~uip /\ time - start < MaxTicks
  /\ time' = time + 1
  /\ updating' = {Fields[i] : i \in 1 .. NFields}
  /\ uip' = TRUE
  /\ UNCHANGED <<start, regs, registerB, index, call, pc, disturbed>>

UpdateField(f) ==
  /\ f \in updating
  /\ regs' = [regs EXCEPT ![f] = registers(registerB, time)[f]]
  /\ updating' = updating \ {f}
  /\ UNCHANGED <<time, start, uip, registerB, index, call, pc, disturbed>>

EndUpdate ==
  /\ uip /\ updating = {}
  /\ uip' = FALSE
  /\ UNCHANGED <<time, start, regs, updating, registerB, index, call, pc, disturbed>>

-----------------------------------------------------------------------------
(* A reader.  The interrupt comes when main is anywhere, and runs to its   *)
(* end.                                                                    *)
between(r) == pc[r] \in {"idle", "done"}
mayRun(r) == r = main => \A d \in Readers \ {main} : between(d)

goto(r, from, to) == mayRun(r) /\ pc[r] = from /\ pc' = [pc EXCEPT ![r] = to]

Call(r) ==
  /\ goto(r, "idle", "select_uip")
  /\ disturbed' = (disturbed \/ (r # main /\ ~between(main)))
  /\ UNCHANGED <<clock, index, call>>

(* get_update_in_progress_flag: outb(0x70, 0x0A), then inb(0x71).          *)
SelectUIP(r) ==
  /\ goto(r, "select_uip", "test_uip")
  /\ index' = "A"
  /\ UNCHANGED <<clock, call, disturbed>>

(* The data port answers for whatever register is selected; & 0x80.        *)
flagRead == CASE index = "A" -> uip
              [] index = "B" -> FALSE
              [] OTHER       -> regs[index] >= 128
dataRead(old) == IF index \in {"A", "B"} THEN old ELSE regs[index]

TestUIP(r) ==
  /\ IF flagRead THEN goto(r, "test_uip", "select_uip")
                 ELSE goto(r, "test_uip", "select")
  /\ UNCHANGED <<clock, index, call, disturbed>>

(* read_RTC_register for the field: select, then read into the variable.   *)
Select(r) ==
  /\ goto(r, "select", "read")
  /\ index' = Fields[field[r]]
  /\ UNCHANGED <<clock, call, disturbed>>

nextField(r) == field' = [field EXCEPT ![r] = (@ % NFields) + 1]

Read(r) ==
  /\ goto(r, "read", IF field[r] < NFields THEN "select" ELSE "compare")
  /\ date' = [date EXCEPT ![Fields[field[r]]] = dataRead(@)]
  /\ nextField(r)
  /\ UNCHANGED <<clock, index, last, result, disturbed>>

(* Mutant: one pass over the registers is believed.                        *)
sameAsLast_once(r) == TRUE

(* The do-while.  Its body's copy and its condition: the first time round   *)
(* `last` holds nothing, so the registers are read at least twice.         *)
sameAsLast(r) == last[r] = date

(* Mutant: the copy is made before the loop, not in it.                    *)
Compare_first_copy(r) ==
  /\ IF sameAsLast(r) THEN goto(r, "compare", "select_b")
                      ELSE goto(r, "compare", "select_uip")
  /\ last' = [last EXCEPT ![r] = IF @ = Nothing THEN date ELSE @]
  /\ UNCHANGED <<clock, index, date, field, result, disturbed>>

Compare(r) ==
  /\ IF sameAsLast(r) THEN goto(r, "compare", "select_b")
                      ELSE goto(r, "compare", "select_uip")
  /\ last' = [last EXCEPT ![r] = date]
  /\ UNCHANGED <<clock, index, date, field, result, disturbed>>

(* registerB = read_RTC_register(0x0B)                                     *)
SelectB(r) ==
  /\ goto(r, "select_b", "convert")
  /\ index' = "B"
  /\ UNCHANGED <<clock, call, disturbed>>

(* One conversion after the other, each on the shared variable.            *)
Convert(r) ==
  /\ goto(r, "convert", IF field[r] < NFields THEN "convert" ELSE "print")
  /\ date' = [date EXCEPT ![Fields[field[r]]] = convert(registerB, Fields[field[r]], @)]
  /\ nextField(r)
  /\ UNCHANGED <<clock, index, last, result, disturbed>>

(* sprintf takes its arguments.                                            *)
Format(r) ==
  /\ goto(r, "print", "done")
  /\ result' = [result EXCEPT ![r] = date]
  /\ UNCHANGED <<clock, index, date, last, field, disturbed>>

Step(r) ==
  \/ Call(r) \/ SelectUIP(r) \/ TestUIP(r) \/ Select(r) \/ Read(r)
  \/ Compare(r) \/ SelectB(r) \/ Convert(r) \/ Format(r)

Next ==
  \/ BeginUpdate \/ EndUpdate
  \/ \E f \in {Fields[i] : i \in 1 .. NFields} : UpdateField(f)
  \/ \E r \in Readers : Step(r)

(* The chip finishes an update it began, the processor runs.  Updates are  *)
(* a second apart and a pass over the registers takes microseconds, which  *)
(* is what the bound MaxTicks on the number of updates stands for.         *)
Fairness ==
  /\ \A f \in {Fields[i] : i \in 1 .. NFields} : WF_vars(UpdateField(f))
  /\ WF_vars(EndUpdate)
  /\ \A r \in Readers : WF_vars(Step(r))

Spec == Init /\ [][Next]_vars /\ Fairness

-----------------------------------------------------------------------------
DateType == [second : Int, hour : Int, year : Int]

TypeOK ==
  /\ regs \in DateType /\ date \in DateType
  /\ last \in [Readers -> DateType] /\ result \in [Readers -> DateType]
  /\ updating \subseteq DOMAIN regs /\ (updating # {} => uip)
  /\ index \in {"A", "B"} \cup DOMAIN regs
  /\ field \in [Readers -> 1 .. NFields] /\ disturbed \in BOOLEAN
  /\ \A r \in Readers : pc[r] \in {"idle", "select_uip", "test_uip", "select",
       "read", "compare", "select_b", "convert", "print", "done"}

(* A date is that of time t.  In 12-hour mode the conversion is wrong in   *)
(* the first hour after noon and after midnight (see TwentyFourHours).     *)
hourRight(t) == registerB.h24 \/ calendar(t).hour % 12 # 0
isDateOf(d, t) ==
  /\ d.second = calendar(t).second /\ d.year = calendar(t).year
  /\ hourRight(t) => d.hour = calendar(t).hour

(* "read registers until you get the same values twice in a row" avoids    *)
(* "dodgy/inconsistent values due to RTC updates": the date a call prints  *)
(* is the calendar's at one moment while it ran, although the registers    *)
(* are read one by one while the chip changes them one by one, over a      *)
(* carry into the hour and the year, a new century, BCD and binary.  This  *)
(* holds of the call in an interrupt always, and of the main program's     *)
(* unless that interrupt fell into it.                                     *)
DateOfOneMoment ==
  TypeOK /\ \A r \in Readers : pc[r] = "done" /\ (r = main => ~disturbed) =>
    \E t \in start .. time : isDateOf(result[r], t)

(* "Convert 12 hour clock to 24 hour clock if necessary": what is printed  *)
(* is the calendar's hour, also at noon and at midnight.                   *)
TwentyFourHours ==
  \A r \in Readers : pc[r] = "done" /\ ~disturbed =>
    \E t \in start .. time : result[r] = calendar(t)

(* Every call ends: neither loop runs for ever.                            *)
CallsEnd == \A r \in Readers : pc[r] = "select_uip" ~> pc[r] = "done"
=============================================================================
