------------------------------ MODULE RtcProofs ------------------------------
(***************************************************************************)
(* Proofs about reading the clock, for every length of the minute, every   *)
(* time of boot within the century and every setting of register B.        *)
(***************************************************************************)
EXTENDS Rtc, CommonLemmas, TLAPS

FieldSet == {"second", "hour", "year"}

LEMMA FieldNames ==
  /\ FieldSet = {Fields[i] : i \in 1 .. NFields}
  /\ Fields[1] = "second" /\ Fields[2] = "hour" /\ Fields[3] = "year"
<1>1. Fields[1] = "second" /\ Fields[2] = "hour" /\ Fields[3] = "year"
  BY DEF Fields
<1>2. 1 .. NFields = {1, 2, 3}
  BY DEF NFields
<1> QED BY <1>1, <1>2 DEF FieldSet

-----------------------------------------------------------------------------
(* The chip's conversions lose nothing.                                    *)
LEMMA ShownOnce ==
  ASSUME NEW b \in [binary : BOOLEAN, h24 : BOOLEAN], NEW m \in Nat, NEW n \in Nat,
         shown(b, m) = shown(b, n)
  PROVE  m = n
  BY DEF shown, bcd

LEMMA ShownHourOnce ==
  ASSUME NEW b \in [binary : BOOLEAN, h24 : BOOLEAN], NEW g \in 0 .. 23, NEW h \in 0 .. 23,
         shownHour(b, g) = shownHour(b, h)
  PROVE  g = h
  BY DEF shownHour, shown, bcd

(* The code's conversions undo them; in 12-hour mode not the hours after   *)
(* noon and midnight.                                                      *)
LEMMA BcdBack ==
  ASSUME NEW n \in Nat
  PROVE  fromBCD(bcd(n)) = n
<1> DEFINE q == n \div 10
           r == n % 10
           v == 16 * q + r
<1>1. q \in Nat /\ r \in 0 .. 9 /\ n = 10 * q + r
  OBVIOUS
<1> HIDE DEF q, r
<1>2. v % 16 = r /\ v \div 16 = q
  BY <1>1
<1> HIDE DEF v
<1>3. (v % 16) + (v \div 16) * 10 = n
  BY <1>1, <1>2
<1> QED BY <1>3 DEF v, q, r, fromBCD, bcd

LEMMA SecondConverted ==
  ASSUME NEW b \in [binary : BOOLEAN, h24 : BOOLEAN], NEW n \in Nat
  PROVE  convert(b, "second", shown(b, n)) = n
<1>1. fromBCD(bcd(n)) = n
  BY BcdBack
<1> QED BY <1>1 DEF convert, shown

LEMMA HourConverted ==
  ASSUME NEW b \in [binary : BOOLEAN, h24 : BOOLEAN], NEW h \in 0 .. 23
  PROVE  b.h24 \/ h % 12 # 0 => convert(b, "hour", shownHour(b, h)) = h
  BY DEF convert, shownHour, shown, bcd, fromBCD, fromBCDHour, from12Hour

LEMMA YearConverted ==
  ASSUME NEW b \in [binary : BOOLEAN, h24 : BOOLEAN], NEW y \in Nat,
         CURRENT_YEAR <= y, y < CURRENT_YEAR + 100
  PROVE  convert(b, "year", shown(b, y % 100)) = y
<1> DEFINE n == y % 100
<1>1. CURRENT_YEAR \in Nat
  BY RtcAssumption
<1>2. n \in Nat /\ fullYear(n) = y
  BY <1>1 DEF fullYear
<1> HIDE DEF n
<1>3. fromBCD(bcd(n)) = n
  BY <1>2, BcdBack
<1>4. convert(b, "year", shown(b, n)) = fullYear(n)
  BY <1>2, <1>3 DEF convert, shown
<1> QED BY <1>2, <1>4 DEF n

-----------------------------------------------------------------------------
(* The moments of a run, from the time of boot to the last tick.           *)
Moments(s) == s .. s + MaxTicks

(* The ranges of the calendar.                                             *)
LEMMA CalendarRange ==
  ASSUME WithinCentury, NEW s \in Starts, NEW t \in Moments(s)
  PROVE  /\ t \in Nat /\ t \div SECS \in Nat /\ t \div (24 * SECS) \in Nat
         /\ calendar(t).second \in Nat /\ calendar(t).hour \in 0 .. 23
         /\ calendar(t).year \in CURRENT_YEAR .. CURRENT_YEAR + 99
<1>1. /\ SECS \in Nat \ {0} /\ 24 * SECS \in Nat \ {0} /\ CURRENT_YEAR \in Nat
      /\ MaxTicks \in Nat /\ s \in Nat
  BY RtcAssumption
<1>2. t \in Nat /\ s + MaxTicks \in Nat /\ t <= s + MaxTicks
  BY <1>1 DEF Moments
<1>3. t \div SECS \in Nat /\ t % SECS \in Nat /\ t \div (24 * SECS) \in Nat
  <2>1. t \div SECS \in Nat /\ t % SECS \in 0 .. SECS - 1
    BY <1>1, <1>2, DivMod
  <2>2. t \div (24 * SECS) \in Nat
    BY <1>1, <1>2, DivMod
  <2> QED BY <1>1, <2>1, <2>2
<1>4. t \div (24 * SECS) < 100
  <2>1. (s + MaxTicks) \div (24 * SECS) < 100
    BY DEF WithinCentury
  <2>2. t \div (24 * SECS) <= (s + MaxTicks) \div (24 * SECS)
    BY <1>1, <1>2, DivMonotone
  <2>3. (s + MaxTicks) \div (24 * SECS) \in Nat
    BY <1>1, <1>2, DivMod
  <2> QED BY <1>3, <2>1, <2>2, <2>3
<1>5. (t \div SECS) % 24 \in 0 .. 23
  BY <1>3
<1> QED BY <1>1, <1>2, <1>3, <1>4, <1>5 DEF calendar

(* When a register shows the same before and after a moment, it showed     *)
(* this then too: so few ticks pass that no register comes round again.    *)
LEMMA SameBetween ==
  ASSUME WithinCentury, NEW s \in Starts, NEW b \in [binary : BOOLEAN, h24 : BOOLEAN],
         NEW t \in Moments(s), NEW u \in Moments(s), NEW w \in Moments(s),
         t <= u, u <= w, NEW f \in FieldSet, registers(b, t)[f] = registers(b, w)[f]
  PROVE  registers(b, u)[f] = registers(b, w)[f]
<1>1. /\ SECS \in Nat \ {0} /\ 24 * SECS \in Nat \ {0} /\ CURRENT_YEAR \in Nat
      /\ MaxTicks \in Nat /\ MaxTicks < SECS /\ s \in Nat
  BY RtcAssumption
<1>2. /\ t \in Nat /\ u \in Nat /\ w \in Nat /\ t <= w /\ w - t < SECS
  BY <1>1 DEF Moments
<1>3. CASE f = "second"
  <2>1. \A m : registers(b, m)["second"] = shown(b, m % SECS)
    BY DEF registers, calendar
  <2>2. t % SECS \in Nat /\ w % SECS \in Nat
    BY <1>1, <1>2, DivMod
  <2>3. shown(b, t % SECS) = shown(b, w % SECS)
    BY <1>3, <2>1
  <2>4. t % SECS = w % SECS
    BY <2>2, <2>3, ShownOnce
  <2>5. t = w
    BY <1>1, <1>2, <2>4, SameRemainder
  <2>6. u = w
    BY <1>2, <2>5
  <2> QED BY <2>6
<1>4. CASE f = "hour"
  <2> DEFINE q(m) == m \div SECS
  <2>1. \A m : registers(b, m)["hour"] = shownHour(b, q(m) % 24)
    BY DEF registers, calendar
  <2>2. q(t) \in Nat /\ q(u) \in Nat /\ q(w) \in Nat
    BY <1>1, <1>2, DivMod
  <2>3. q(t) <= q(u) /\ q(u) <= q(w) /\ q(w) <= q(t) + 1
    BY <1>1, <1>2, DivMonotone
  <2> HIDE DEF q
  <2>4. q(t) % 24 \in 0 .. 23 /\ q(w) % 24 \in 0 .. 23
    BY <2>2
  <2>5. shownHour(b, q(t) % 24) = shownHour(b, q(w) % 24)
    BY <1>4, <2>1
  <2>6. q(t) % 24 = q(w) % 24
    BY <2>4, <2>5, ShownHourOnce
  <2>7. q(t) = q(w)
    BY <2>2, <2>3, <2>6
  <2>8. q(u) = q(w)
    BY <2>2, <2>3, <2>7
  <2> QED BY <1>4, <2>1, <2>8
<1>5. CASE f = "year"
  <2> DEFINE y(m) == CURRENT_YEAR + m \div (24 * SECS)
  <2>1. \A m : registers(b, m)["year"] = shown(b, y(m) % 100)
    BY DEF registers, calendar
  <2>2. /\ y(t) \in CURRENT_YEAR .. CURRENT_YEAR + 99
        /\ y(u) \in CURRENT_YEAR .. CURRENT_YEAR + 99
        /\ y(w) \in CURRENT_YEAR .. CURRENT_YEAR + 99
    BY CalendarRange DEF calendar
  <2>3. y(t) <= y(u) /\ y(u) <= y(w)
    <3>1. /\ t \div (24 * SECS) <= u \div (24 * SECS)
          /\ u \div (24 * SECS) <= w \div (24 * SECS)
      BY <1>1, <1>2, DivMonotone
    <3>2. /\ t \div (24 * SECS) \in Nat /\ u \div (24 * SECS) \in Nat
          /\ w \div (24 * SECS) \in Nat
      BY <1>1, <1>2, DivMod
    <3> QED BY <1>1, <3>1, <3>2
  <2> HIDE DEF y
  <2>4. shown(b, y(t) % 100) = shown(b, y(w) % 100)
    BY <1>5, <2>1
  <2>5. y(t) % 100 \in Nat /\ y(w) % 100 \in Nat
    BY <1>1, <2>2
  <2>6. y(t) % 100 = y(w) % 100
    BY <2>4, <2>5, ShownOnce
  <2>7. y(t) = y(w)
    BY <1>1, <2>2, <2>3, <2>6
  <2>8. y(u) = y(w)
    BY <1>1, <2>2, <2>3, <2>7
  <2> QED BY <1>5, <2>1, <2>8
<1> QED BY <1>3, <1>4, <1>5 DEF FieldSet

(* Registers that all show one moment are converted to its date.           *)
LEMMA MomentConverted ==
  ASSUME WithinCentury, NEW s \in Starts, NEW b \in [binary : BOOLEAN, h24 : BOOLEAN],
         NEW t \in Moments(s)
  PROVE  /\ convert(b, "second", registers(b, t).second) = calendar(t).second
         /\ b.h24 \/ calendar(t).hour % 12 # 0 =>
              convert(b, "hour", registers(b, t).hour) = calendar(t).hour
         /\ convert(b, "year", registers(b, t).year) = calendar(t).year
<1>1. /\ calendar(t).second \in Nat /\ calendar(t).hour \in 0 .. 23
      /\ calendar(t).year \in CURRENT_YEAR .. CURRENT_YEAR + 99
  BY CalendarRange
<1>2. /\ registers(b, t).second = shown(b, calendar(t).second)
      /\ registers(b, t).hour = shownHour(b, calendar(t).hour)
      /\ registers(b, t).year = shown(b, calendar(t).year % 100)
  BY DEF registers
<1>3. CURRENT_YEAR \in Nat
  BY RtcAssumption
<1>4. /\ calendar(t).year \in Nat /\ CURRENT_YEAR <= calendar(t).year
      /\ calendar(t).year < CURRENT_YEAR + 100
  BY <1>1, <1>3
<1> QED BY <1>1, <1>2, <1>4, SecondConverted, HourConverted, YearConverted

-----------------------------------------------------------------------------
(* What the chip shows of time t.                                          *)
at(t) == registers(registerB, t)

(* The chip: while a register is still to be changed it shows the second   *)
(* before.                                                                 *)
ClockOK ==
  /\ start \in Starts /\ registerB \in RegistersB /\ time \in Moments(start)
  /\ uip \in BOOLEAN /\ (uip => time > start)
  /\ updating \subseteq FieldSet /\ (updating # {} => uip)
  /\ regs \in DateType
  /\ \A f \in FieldSet : regs[f] = at(IF f \in updating THEN time - 1 ELSE time)[f]

(* d is a pass over the registers that was over at time t, or nothing.     *)
PassBefore(d, t) ==
  d = Nothing \/ \A f \in FieldSet : \E u \in start .. t : d[f] = at(u)[f]

(* The pass that reader r makes saw no update in progress at time t, when  *)
(* the one before was over; what it has read was shown at t or later.      *)
PassSince(r, t) ==
  /\ uip => t < time
  /\ PassBefore(last[r], t)
  /\ \A j \in 1 .. NFields : j < field[r] \/ pc[r] = "compare" =>
       \E u \in t .. time : date[Fields[j]] = at(u)[Fields[j]]

(* The variables show time t, some of them converted already.              *)
ShowsMoment(r, t) ==
  \A j \in 1 .. NFields :
    LET f == Fields[j]
    IN  date[f] = IF pc[r] = "print" \/ (pc[r] = "convert" /\ j < field[r])
                  THEN convert(registerB, f, at(t)[f]) ELSE at(t)[f]

Labels == {"idle", "select_uip", "test_uip", "select", "read", "compare", "select_b",
           "convert", "print", "done"}

(* A reader into which no other one falls.                                 *)
ReaderOK(r) ==
  /\ pc[r] \notin {"select", "read", "convert"} => field[r] = 1
  /\ pc[r] = "test_uip" => index = "A"
  /\ pc[r] = "read" => index = Fields[field[r]]
  /\ pc[r] \in {"idle", "select_uip", "test_uip"} => PassBefore(last[r], time)
  /\ pc[r] \in {"select", "read", "compare"} => \E t \in start .. time : PassSince(r, t)
  /\ pc[r] \in {"select_b", "convert", "print"} => \E t \in start .. time : ShowsMoment(r, t)
  /\ pc[r] = "done" => \E t \in start .. time : isDateOf(result[r], t)

(* The types, the chip, and what is known of each reader: of the main      *)
(* program's call only while no interrupt's fell into it.                  *)
Base == TypeOK /\ ClockOK /\ pc \in [Readers -> Labels]
Undisturbed(r) == r = main => ~disturbed
Alone == \A r \in Readers : r # main /\ ~between(r) => disturbed \/ between(main)

(* The inductive invariant.                                                *)
IInv == Base /\ Alone /\ \A r \in Readers : Undisturbed(r) => ReaderOK(r)

-----------------------------------------------------------------------------
(* Dates are functions on the fields.                                      *)
LEMMA DateFields ==
  ASSUME NEW d \in DateType
  PROVE  /\ DOMAIN d = FieldSet /\ \A f \in FieldSet : d[f] \in Int
         /\ \A f \in FieldSet : \A v \in Int :
              /\ [d EXCEPT ![f] = v] \in DateType
              /\ [d EXCEPT ![f] = v][f] = v
              /\ \A g \in FieldSet : g # f => [d EXCEPT ![f] = v][g] = d[g]
         /\ \A e \in DateType : (\A f \in FieldSet : d[f] = e[f]) => d = e
<1>1. DOMAIN d = FieldSet /\ \A f \in FieldSet : d[f] \in Int
  BY DEF DateType, FieldSet
<1>2. ASSUME NEW f \in FieldSet, NEW v \in Int
      PROVE  /\ [d EXCEPT ![f] = v] \in DateType
             /\ [d EXCEPT ![f] = v][f] = v
             /\ \A g \in FieldSet : g # f => [d EXCEPT ![f] = v][g] = d[g]
  <2>1. f = "second" \/ f = "hour" \/ f = "year"
    BY DEF FieldSet
  <2>2. [d EXCEPT ![f] = v] \in DateType
    BY <2>1 DEF DateType
  <2> QED BY <1>1, <2>2
<1>3. ASSUME NEW e \in DateType, \A f \in FieldSet : d[f] = e[f]
      PROVE  d = e
  <2>1. d.second = e.second /\ d.hour = e.hour /\ d.year = e.year
    BY <1>3 DEF FieldSet
  <2> QED BY <2>1 DEF DateType
<1> QED BY <1>1, <1>2, <1>3

(* The registers are a date, and never Nothing.                            *)
LEMMA RegistersType ==
  ASSUME WithinCentury, NEW s \in Starts, NEW b \in [binary : BOOLEAN, h24 : BOOLEAN],
         NEW t \in Moments(s)
  PROVE  registers(b, t) \in DateType /\ registers(b, t)["second"] # -1
<1>1. /\ calendar(t).second \in Nat /\ calendar(t).hour \in 0 .. 23
      /\ calendar(t).year \in CURRENT_YEAR .. CURRENT_YEAR + 99
  BY CalendarRange
<1>2. CURRENT_YEAR \in Nat
  BY RtcAssumption
<1>3. calendar(t).year % 100 \in Nat
  BY <1>1, <1>2
<1>4. \A n \in Nat : shown(b, n) \in Nat
  BY DEF shown, bcd
<1>5. shownHour(b, calendar(t).hour) \in Nat
  BY <1>1 DEF shownHour, shown, bcd
<1>6. /\ shown(b, calendar(t).second) \in Nat /\ shown(b, calendar(t).year % 100) \in Nat
  BY <1>1, <1>3, <1>4
<1> QED BY <1>5, <1>6 DEF registers, DateType

(* Conversions of any number give a number.                                *)
LEMMA ConvertInt ==
  ASSUME NEW b \in [binary : BOOLEAN, h24 : BOOLEAN], NEW f \in FieldSet, NEW v \in Int
  PROVE  convert(b, f, v) \in Int
<1>1. fromBCD(v) \in Int /\ fromBCDHour(v) \in Int
  BY DEF fromBCD, fromBCDHour
<1>2. \A n \in Int : from12Hour(n) \in Int
  BY DEF from12Hour
<1>3. \A n \in Int : fullYear(n) \in Int
  BY RtcAssumption DEF fullYear
<1> DEFINE n == IF b.binary THEN v ELSE IF f = "hour" THEN fromBCDHour(v) ELSE fromBCD(v)
<1>4. n \in Int
  BY <1>1
<1> HIDE DEF n
<1>5. CASE f = "hour"
  <2>1. convert(b, f, v) = IF b.h24 THEN n ELSE from12Hour(n)
    BY <1>5 DEF convert, n
  <2> QED BY <1>2, <1>4, <2>1
<1>6. CASE f = "year"
  <2>1. convert(b, f, v) = fullYear(n)
    BY <1>6 DEF convert, n
  <2> QED BY <1>3, <1>4, <2>1
<1>7. CASE f = "second"
  <2>1. convert(b, f, v) = n
    BY <1>7 DEF convert, n
  <2> QED BY <1>4, <2>1
<1> QED BY <1>5, <1>6, <1>7 DEF FieldSet

(* It holds at first.                                                      *)
LEMMA InitInv ==
  ASSUME WithinCentury, Init
  PROVE  IInv
<1>1. /\ start \in Starts /\ time \in Moments(start)
      /\ registerB \in [binary : BOOLEAN, h24 : BOOLEAN]
  BY RtcAssumption DEF Init, Moments
<1>2. regs \in DateType /\ Nothing \in DateType /\ DOMAIN regs = FieldSet
  BY <1>1, RegistersType, DateFields DEF Init, Nothing, DateType
<1>3. ClockOK
  <2>1. \A f \in FieldSet : regs[f] = at(time)[f]
    BY DEF Init, at
  <2> QED BY <1>1, <1>2, <2>1 DEF ClockOK, Init
<1>4. pc \in [Readers -> Labels] /\ \A r \in Readers : between(r)
  BY DEF Init, Labels, between
<1>5. ASSUME NEW r \in Readers PROVE ReaderOK(r)
  <2>1. pc[r] = "idle" /\ last[r] = Nothing /\ field[r] = 1
    BY DEF Init
  <2>2. PassBefore(last[r], time)
    BY <2>1 DEF PassBefore
  <2> QED BY <2>1, <2>2 DEF ReaderOK
<1>6. TypeOK
  <2>1. disturbed \in BOOLEAN
    BY Zenon DEF Init
  <2> QED BY <1>2, <2>1 DEF TypeOK, Init, NFields
<1> QED BY <1>3, <1>4, <1>5, <1>6 DEF IInv, Base, Alone

(* The invariant gives the moments that SameBetween and its likes ask for. *)
LEMMA MomentsOfRun ==
  ASSUME Base
  PROVE  /\ start \in Starts /\ registerB \in [binary : BOOLEAN, h24 : BOOLEAN]
         /\ start \in Nat /\ time \in Nat /\ start <= time
         /\ \A t \in start .. time : t \in Moments(start)
  BY RtcAssumption DEF Base, ClockOK, Moments

-----------------------------------------------------------------------------
(* The chip's steps keep what a reader knows: a time that passes does not  *)
(* change what was shown before.                                           *)
LEMMA ChipKeepsReader ==
  ASSUME Base, NEW r \in Readers, ReaderOK(r),
         /\ start' = start /\ registerB' = registerB
         /\ pc' = pc /\ index' = index /\ date' = date /\ last' = last
         /\ field' = field /\ result' = result,
         \/ time' = time /\ (uip' => uip)
         \/ time' = time + 1
  PROVE  ReaderOK(r)'
<1>1. start \in Nat /\ time \in Nat /\ start <= time /\ time' \in Nat /\ time <= time'
  BY MomentsOfRun
<1>2. \A u : start .. u = start' .. u /\ at(u)' = at(u)
  BY DEF at
<1>3. \A d, t : PassBefore(d, t) => PassBefore(d, t)'
  BY <1>2 DEF PassBefore, at
<1>4. PassBefore(last[r], time) => PassBefore(last[r], time)'
  <2> SUFFICES ASSUME PassBefore(last[r], time), last[r] # Nothing, NEW f \in FieldSet
               PROVE  \E u \in start .. time' : last[r][f] = at(u)[f]
    BY <1>2 DEF PassBefore, at
  <2>1. PICK u \in start .. time : last[r][f] = at(u)[f]
    BY DEF PassBefore
  <2>2. u \in start .. time'
    BY <1>1
  <2> QED BY <2>1, <2>2
<1>5. \A t \in start .. time : t \in start' .. time'
  BY <1>1
<1>6. ASSUME NEW t \in start .. time, PassSince(r, t)
      PROVE  PassSince(r, t)'
  <2>1. PassBefore(last[r], t)'
    BY <1>3, <1>6 DEF PassSince, PassBefore, at
  <2>2. uip' => t < time'
    BY <1>1, <1>6 DEF PassSince
  <2>3. \A u \in t .. time : u \in t .. time'
    BY <1>1
  <2>4. \A j \in 1 .. NFields : j < field[r] \/ pc[r] = "compare" =>
          \E u \in t .. time' : date[Fields[j]] = at(u)[Fields[j]]
    BY <1>6, <2>3 DEF PassSince
  <2> QED BY <2>1, <2>2, <2>4 DEF PassSince, at
<1>7. \A t : ShowsMoment(r, t) => ShowsMoment(r, t)'
  BY DEF ShowsMoment, at
<1>8. \A t : isDateOf(result[r], t)' <=> isDateOf(result[r], t)
  BY DEF isDateOf, hourRight
<1> QED BY <1>4, <1>5, <1>6, <1>7, <1>8 DEF ReaderOK

(* So they keep the invariant when they keep the types and the chip's part. *)
LEMMA ChipInv ==
  ASSUME IInv, Base',
         /\ start' = start /\ registerB' = registerB
         /\ pc' = pc /\ index' = index /\ date' = date /\ last' = last
         /\ field' = field /\ result' = result /\ disturbed' = disturbed,
         \/ time' = time /\ (uip' => uip)
         \/ time' = time + 1
  PROVE  IInv'
<1>1. ASSUME NEW r \in Readers, Undisturbed(r) PROVE ReaderOK(r)'
  BY <1>1, ChipKeepsReader DEF IInv
<1>2. Alone' /\ \A r \in Readers : Undisturbed(r)' => Undisturbed(r)
  BY DEF IInv, Alone, between, Undisturbed
<1> QED BY <1>1, <1>2 DEF IInv

(* A tick begins: no register shows it yet.                                *)
LEMMA BeginInv ==
  ASSUME IInv, BeginUpdate
  PROVE  IInv'
<1>1. /\ time' = time + 1 /\ updating' = FieldSet /\ uip' = TRUE /\ uip = FALSE
      /\ start' = start /\ regs' = regs /\ registerB' = registerB
      /\ pc' = pc /\ index' = index /\ date' = date /\ last' = last
      /\ field' = field /\ result' = result /\ disturbed' = disturbed
  <2>1. uip = FALSE
    BY Zenon DEF BeginUpdate, IInv, Base, ClockOK
  <2> QED BY <2>1, FieldNames DEF BeginUpdate, call
<1>2. ClockOK'
  <2>1. time' \in Moments(start) /\ time' > start /\ time' - 1 = time
    BY <1>1, RtcAssumption DEF BeginUpdate, IInv, Base, ClockOK, Moments
  <2>2. updating = {}
    BY <1>1 DEF IInv, Base, ClockOK
  <2>3. \A f \in FieldSet : regs'[f] = at(time' - 1)[f]
    BY <1>1, <2>1, <2>2 DEF IInv, Base, ClockOK
  <2> QED BY <1>1, <2>1, <2>3 DEF IInv, Base, ClockOK, at, Moments
<1>3. TypeOK'
  <2>1. DOMAIN regs = FieldSet
    BY DateFields DEF IInv, Base, ClockOK
  <2> QED BY <1>1, <2>1 DEF IInv, Base, TypeOK
<1>4. Base'
  BY <1>1, <1>2, <1>3 DEF IInv, Base
<1> QED BY <1>1, <1>4, ChipInv

(* A register takes its new value.                                         *)
LEMMA UpdateInv ==
  ASSUME WithinCentury, IInv, NEW f \in FieldSet, UpdateField(f)
  PROVE  IInv'
<1>1. /\ time' = time /\ updating' = updating \ {f} /\ uip' = uip /\ f \in updating
      /\ start' = start /\ regs' = [regs EXCEPT ![f] = at(time)[f]] /\ registerB' = registerB
      /\ pc' = pc /\ index' = index /\ date' = date /\ last' = last
      /\ field' = field /\ result' = result /\ disturbed' = disturbed
  BY DEF UpdateField, call, at
<1>2. at(time)[f] \in Int
  <2>1. at(time) \in DateType
    BY MomentsOfRun, RegistersType DEF at, IInv
  <2> QED BY <2>1, DateFields
<1>3. /\ regs \in DateType /\ regs' \in DateType /\ DOMAIN regs' = DOMAIN regs
      /\ regs'[f] = at(time)[f] /\ \A g \in FieldSet : g # f => regs'[g] = regs[g]
  <2>1. regs \in DateType
    BY DEF IInv, Base, ClockOK
  <2>2. /\ regs' \in DateType /\ regs'[f] = at(time)[f]
        /\ \A g \in FieldSet : g # f => regs'[g] = regs[g]
    BY <1>1, <1>2, <2>1, DateFields
  <2> QED BY <2>1, <2>2, DateFields
<1>4. ClockOK'
  <2>1. ASSUME NEW g \in FieldSet
        PROVE  regs'[g] = at(IF g \in updating' THEN time - 1 ELSE time)[g]
    BY <1>1, <1>3 DEF IInv, Base, ClockOK
  <2>2. updating' \subseteq FieldSet /\ (updating' # {} => uip)
    BY <1>1 DEF IInv, Base, ClockOK
  <2> QED BY <1>1, <1>3, <2>1, <2>2 DEF IInv, Base, ClockOK, at
<1>5. TypeOK'
  BY <1>1, <1>3 DEF IInv, Base, TypeOK
<1>6. Base'
  BY <1>1, <1>4, <1>5 DEF IInv, Base
<1> QED BY <1>1, <1>6, ChipInv

(* The update is over.                                                     *)
LEMMA EndInv ==
  ASSUME IInv, EndUpdate
  PROVE  IInv'
<1>1. /\ time' = time /\ updating' = updating /\ uip' = FALSE /\ updating = {}
      /\ start' = start /\ regs' = regs /\ registerB' = registerB
      /\ pc' = pc /\ index' = index /\ date' = date /\ last' = last
      /\ field' = field /\ result' = result /\ disturbed' = disturbed
  BY DEF EndUpdate, call
<1>2. ClockOK' /\ TypeOK'
  BY <1>1 DEF IInv, Base, ClockOK, TypeOK, at
<1>3. Base'
  BY <1>1, <1>2 DEF IInv, Base
<1> QED BY <1>1, <1>3, ChipInv

-----------------------------------------------------------------------------
(* A step of a reader leaves the chip alone.                               *)
LEMMA ChipUntouched ==
  ASSUME Base, UNCHANGED clock
  PROVE  /\ ClockOK' /\ start' = start /\ time' = time /\ registerB' = registerB /\ uip' = uip
         /\ \A u : at(u)' = at(u)
         /\ \A d, t : PassBefore(d, t) => PassBefore(d, t)'
<1>1. /\ start' = start /\ time' = time /\ registerB' = registerB /\ uip' = uip
      /\ regs' = regs /\ updating' = updating
  BY DEF clock
<1>2. ClockOK'
  BY <1>1 DEF Base, ClockOK, at
<1>3. /\ \A u : at(u)' = at(u)
      /\ \A d, t : PassBefore(d, t) => PassBefore(d, t)'
  BY <1>1 DEF at, PassBefore
<1> QED BY <1>1, <1>2, <1>3

(* What a jump does to the labels.                                         *)
LEMMA Jump ==
  ASSUME Base, NEW r \in Readers, NEW from, NEW to, goto(r, from, to)
  PROVE  /\ pc[r] = from /\ pc'[r] = to /\ (to \in Labels => pc' \in [Readers -> Labels])
         /\ \A d \in Readers : d # r => pc'[d] = pc[d]
  BY DEF Base, goto

(* The types after a step of a reader.                                     *)
LEMMA ReaderType ==
  ASSUME Base, NEW r \in Readers, UNCHANGED clock, NEW from, NEW to, goto(r, from, to),
         to \in Labels, disturbed' \in BOOLEAN,
         index' \in {"A", "B"} \cup FieldSet, date' \in DateType,
         last' \in [Readers -> DateType], result' \in [Readers -> DateType],
         field' \in [Readers -> 1 .. NFields]
  PROVE  Base'
<1>1. pc' \in [Readers -> Labels]
  BY Jump
<1>2. DOMAIN regs = FieldSet
  BY DateFields DEF Base, ClockOK
<1>3. regs' = regs /\ updating' = updating /\ uip' = uip
  BY DEF clock
<1>4. TypeOK'
  BY <1>1, <1>2, <1>3 DEF Base, TypeOK, Labels
<1> QED BY <1>1, <1>4, ChipUntouched DEF Base

(* Reader r's step changes only its own part of last, field and result.    *)
Own(r) ==
  /\ UNCHANGED clock
  /\ \A d \in Readers : d # r => /\ pc'[d] = pc[d] /\ last'[d] = last[d]
                                 /\ field'[d] = field[d] /\ result'[d] = result[d]

(* Every step of a reader keeps the types, in whatever state the shared    *)
(* variables are.                                                          *)
LEMMA StepBase ==
  ASSUME WithinCentury, Base, NEW r \in Readers, Step(r)
  PROVE  Base' /\ Own(r)
<1> DEFINE f == Fields[field[r]]
<1>1. /\ DOMAIN regs = FieldSet /\ f \in FieldSet /\ date \in DateType
      /\ last \in [Readers -> DateType] /\ result \in [Readers -> DateType]
      /\ field \in [Readers -> 1 .. NFields] /\ disturbed \in BOOLEAN
      /\ index \in {"A", "B"} \cup FieldSet
  <2>1. disturbed \in BOOLEAN
    BY Zenon DEF Base, TypeOK
  <2>2. DOMAIN regs = FieldSet
    BY DateFields DEF Base, ClockOK
  <2>3. field \in [Readers -> 1 .. NFields]
    BY DEF Base, TypeOK
  <2>4. f \in FieldSet
    BY <2>3, FieldNames
  <2> HIDE DEF f
  <2> QED BY <2>1, <2>2, <2>3, <2>4 DEF Base, TypeOK
<1>2. \A v \in Int : [date EXCEPT ![f] = v] \in DateType
  <2> HIDE DEF f
  <2> QED BY <1>1, DateFields
<1>3. date[f] \in Int /\ \A g \in FieldSet : regs[g] \in Int
  <2> HIDE DEF f
  <2> QED BY <1>1, DateFields DEF Base, ClockOK
<1>4. [field EXCEPT ![r] = (@ % NFields) + 1] \in [Readers -> 1 .. NFields]
  BY <1>1 DEF NFields
<1> HIDE DEF f
<1>5. CASE Call(r)
  BY <1>1, <1>5, ReaderType, Jump DEF Call, Labels, call, Own
<1>6. CASE SelectUIP(r)
  BY <1>1, <1>6, ReaderType, Jump DEF SelectUIP, Labels, call, Own
<1>7. CASE TestUIP(r)
  BY <1>1, <1>7, ReaderType, Jump DEF TestUIP, Labels, call, Own
<1>8. CASE Select(r)
  BY <1>1, <1>8, ReaderType, Jump DEF Select, Labels, call, Own, f
<1>9. CASE Read(r)
  <2> DEFINE to == IF field[r] < NFields THEN "select" ELSE "compare"
  <2>1. dataRead(date[f]) \in Int
    BY <1>1, <1>3 DEF dataRead
  <2>2. date' \in DateType
    BY <1>2, <1>9, <2>1 DEF Read, f
  <2>3. to \in Labels
    BY DEF Labels
  <2>4. /\ goto(r, "read", to) /\ UNCHANGED clock /\ index' = index
        /\ field' = [field EXCEPT ![r] = (@ % NFields) + 1]
        /\ last' = last /\ result' = result /\ disturbed' = disturbed
    BY <1>9 DEF Read, nextField
  <2> HIDE DEF to
  <2> QED BY <1>1, <1>4, <2>2, <2>3, <2>4, ReaderType, Jump DEF Own
<1>10. CASE Compare(r)
  BY <1>1, <1>10, ReaderType, Jump DEF Compare, Labels, Own
<1>11. CASE SelectB(r)
  BY <1>1, <1>11, ReaderType, Jump DEF SelectB, Labels, call, Own
<1>12. CASE Convert(r)
  <2> DEFINE to == IF field[r] < NFields THEN "convert" ELSE "print"
  <2>1. convert(registerB, f, date[f]) \in Int
    BY <1>1, <1>3, MomentsOfRun, ConvertInt
  <2>2. date' \in DateType
    BY <1>2, <1>12, <2>1 DEF Convert, f
  <2>3. to \in Labels
    BY DEF Labels
  <2>4. /\ goto(r, "convert", to) /\ UNCHANGED clock /\ index' = index
        /\ field' = [field EXCEPT ![r] = (@ % NFields) + 1]
        /\ last' = last /\ result' = result /\ disturbed' = disturbed
    BY <1>12 DEF Convert, nextField
  <2> HIDE DEF to
  <2> QED BY <1>1, <1>4, <2>2, <2>3, <2>4, ReaderType, Jump DEF Own
<1>13. CASE Format(r)
  BY <1>1, <1>13, ReaderType, Jump DEF Format, Labels, Own
<1> QED BY <1>5, <1>6, <1>7, <1>8, <1>9, <1>10, <1>11, <1>12, <1>13 DEF Step

-----------------------------------------------------------------------------
(* Calling, and selecting register A or B, changes nothing that is known.  *)
LEMMA CallKeeps ==
  ASSUME Base, NEW r \in Readers, ReaderOK(r), Call(r) \/ SelectUIP(r)
  PROVE  ReaderOK(r)'
<1>1. /\ UNCHANGED clock /\ last' = last /\ field' = field
      /\ \/ goto(r, "idle", "select_uip") /\ index' = index
         \/ goto(r, "select_uip", "test_uip") /\ index' = "A"
  BY DEF Call, SelectUIP, call
<1>2. /\ pc[r] \in {"idle", "select_uip"}
      /\ pc'[r] = "select_uip" \/ (pc'[r] = "test_uip" /\ index' = "A")
  BY <1>1, Jump
<1>3. PassBefore(last[r], time)'
  <2>1. PassBefore(last[r], time)
    BY <1>2 DEF ReaderOK
  <2> QED BY <1>1, <2>1, ChipUntouched DEF PassBefore
<1> QED BY <1>1, <1>2, <1>3 DEF ReaderOK

(* A pass over the registers begins when no update is in progress.         *)
LEMMA TestKeeps ==
  ASSUME Base, NEW r \in Readers, ReaderOK(r), TestUIP(r)
  PROVE  ReaderOK(r)'
<1>1. /\ UNCHANGED clock /\ date' = date /\ last' = last /\ field' = field
      /\ \/ goto(r, "test_uip", "select_uip")
         \/ ~flagRead /\ goto(r, "test_uip", "select")
  BY DEF TestUIP, call
<1>2. /\ pc[r] = "test_uip"
      /\ pc'[r] = "select_uip" \/ (pc'[r] = "select" /\ ~flagRead)
  BY <1>1, Jump
<1>3. index = "A" /\ field[r] = 1 /\ PassBefore(last[r], time)
  BY <1>2 DEF ReaderOK
<1>4. /\ start' = start /\ time' = time /\ uip' = uip
      /\ PassBefore(last[r], time)'
  BY <1>1, <1>3, ChipUntouched DEF PassBefore
<1>5. CASE pc'[r] = "select_uip"
  BY <1>1, <1>3, <1>4, <1>5 DEF ReaderOK
<1>6. CASE pc'[r] = "select"
  <2>1. ~uip
    BY <1>2, <1>3, <1>6 DEF flagRead
  <2>2. \A j \in 1 .. NFields : ~ (j < 1)
    BY DEF NFields
  <2>3. PassSince(r, time)'
    BY <1>1, <1>3, <1>4, <1>6, <2>1, <2>2 DEF PassSince
  <2>4. time' \in start' .. time'
    BY <1>4, MomentsOfRun
  <2> QED BY <1>1, <1>6, <2>3, <2>4 DEF ReaderOK
<1> QED BY <1>2, <1>5, <1>6

(* A register is selected ...                                              *)
LEMMA SelectKeeps ==
  ASSUME Base, NEW r \in Readers, ReaderOK(r), Select(r)
  PROVE  ReaderOK(r)'
<1>1. /\ UNCHANGED clock /\ date' = date /\ last' = last /\ field' = field
      /\ index' = Fields[field[r]] /\ goto(r, "select", "read")
  BY DEF Select, call
<1>2. pc[r] = "select" /\ pc'[r] = "read"
  BY <1>1, Jump
<1>3. PICK t \in start .. time : PassSince(r, t)
  BY <1>2 DEF ReaderOK
<1>4. start' = start /\ time' = time /\ uip' = uip /\ registerB' = registerB
  BY <1>1, ChipUntouched
<1>5. PassSince(r, t)'
  BY <1>1, <1>2, <1>3, <1>4 DEF PassSince, PassBefore, at
<1> QED BY <1>1, <1>2, <1>4, <1>5 DEF ReaderOK

(* ... and read: what it shows was current at the test or later, since an  *)
(* update that is going on began after the test.                           *)
LEMMA ReadKeeps ==
  ASSUME Base, NEW r \in Readers, ReaderOK(r), Read(r)
  PROVE  ReaderOK(r)'
<1> DEFINE i == field[r]
           f == Fields[i]
           to == IF i < NFields THEN "select" ELSE "compare"
           v == regs[f]
<1>1. /\ UNCHANGED clock /\ last' = last
      /\ goto(r, "read", to)
      /\ date' = [date EXCEPT ![f] = dataRead(@)]
      /\ field' = [field EXCEPT ![r] = (@ % NFields) + 1]
  BY DEF Read, nextField
<1>2. i \in 1 .. NFields /\ f \in FieldSet /\ field \in [Readers -> 1 .. NFields]
  BY FieldNames DEF Base, TypeOK
<1>3. pc[r] = "read" /\ pc'[r] = to
  <2> HIDE DEF to
  <2> QED BY <1>1, Jump
<1>4. index = f /\ date \in DateType
  BY <1>3 DEF Base, TypeOK, ReaderOK
<1>5. dataRead(date[f]) = v
  BY <1>2, <1>4 DEF dataRead, FieldSet
<1>6. date'[f] = v /\ \A g \in FieldSet : g # f => date'[g] = date[g]
  <2>1. date' = [date EXCEPT ![f] = v]
    BY <1>1, <1>5
  <2>2. v \in Int
    BY <1>2, DateFields DEF Base, ClockOK
  <2> HIDE DEF f, v
  <2> QED BY <1>2, <1>4, <2>1, <2>2, DateFields
<1>7. /\ i < NFields => field'[r] = i + 1
      /\ i = NFields => field'[r] = 1
  BY <1>1, <1>2 DEF NFields
<1>8. PICK t \in start .. time : PassSince(r, t)
  BY <1>3 DEF ReaderOK
<1>9. start' = start /\ time' = time /\ uip' = uip /\ registerB' = registerB
  BY <1>1, ChipUntouched
<1>10. \E u \in t .. time : v = at(u)[f]
  <2> DEFINE u == IF f \in updating THEN time - 1 ELSE time
  <2>1. v = at(u)[f]
    BY <1>2 DEF Base, ClockOK
  <2>2. u \in t .. time
    BY <1>8, MomentsOfRun DEF PassSince, Base, ClockOK
  <2> HIDE DEF u
  <2> QED BY <2>1, <2>2
<1>11. \A j \in 1 .. NFields : j < field'[r] \/ pc'[r] = "compare" =>
         \E u \in t .. time : date'[Fields[j]] = at(u)[Fields[j]]
  <2> SUFFICES ASSUME NEW j \in 1 .. NFields, j < field'[r] \/ pc'[r] = "compare"
               PROVE  \E u \in t .. time : date'[Fields[j]] = at(u)[Fields[j]]
    OBVIOUS
  <2>1. j <= i
    BY <1>2, <1>3, <1>7 DEF NFields
  <2>2. CASE j = i
    BY <1>6, <1>10, <2>2
  <2>3. CASE j # i
    <3>1. j < i
      BY <1>2, <2>1, <2>3
    <3>2. Fields[j] \in FieldSet /\ Fields[j] # f
      BY <1>2, <2>3, FieldNames DEF NFields
    <3>3. date'[Fields[j]] = date[Fields[j]]
      BY <1>6, <3>2
    <3> HIDE DEF f
    <3> QED BY <1>8, <3>1, <3>3 DEF PassSince
  <2> QED BY <2>2, <2>3
<1> HIDE DEF f, v
<1>12. PassSince(r, t)'
  BY <1>1, <1>8, <1>9, <1>11 DEF PassSince, PassBefore, at
<1> QED BY <1>2, <1>3, <1>7, <1>9, <1>12 DEF ReaderOK, NFields

(* Two passes in a row that agree show the moment at which the second one  *)
(* began: each register shows the same before and after it.                *)
LEMMA CompareKeeps ==
  ASSUME WithinCentury, Base, NEW r \in Readers, ReaderOK(r), Compare(r)
  PROVE  ReaderOK(r)'
<1>1. /\ UNCHANGED clock /\ date' = date /\ field' = field
      /\ last' = [last EXCEPT ![r] = date]
      /\ \/ last[r] = date /\ goto(r, "compare", "select_b")
         \/ last[r] # date /\ goto(r, "compare", "select_uip")
  BY DEF Compare, sameAsLast
<1>2. date \in DateType /\ last'[r] = date
  BY <1>1 DEF Base, TypeOK
<1>3. /\ pc[r] = "compare"
      /\ pc'[r] = "select_uip" \/ (pc'[r] = "select_b" /\ last[r] = date)
  BY <1>1, Jump
<1>4. PICK t \in start .. time : PassSince(r, t)
  BY <1>3 DEF ReaderOK
<1>5. field[r] = 1
  BY <1>3 DEF ReaderOK
<1>6. \A f \in FieldSet : \E u \in t .. time : date[f] = at(u)[f]
  BY <1>3, <1>4, FieldNames DEF PassSince
<1>7. /\ start' = start /\ time' = time /\ registerB' = registerB
      /\ \A d, w : PassBefore(d, w) => PassBefore(d, w)'
  BY <1>1, ChipUntouched
<1>8. CASE pc'[r] = "select_uip"
  <2>1. \A u \in t .. time : u \in start .. time
    BY MomentsOfRun
  <2>2. PassBefore(date, time)
    BY <1>6, <2>1 DEF PassBefore
  <2>3. PassBefore(last[r], time)'
    BY <1>1, <1>2, <1>7, <2>2 DEF PassBefore, at
  <2> QED BY <1>1, <1>5, <1>8, <2>3 DEF ReaderOK
<1>9. CASE pc'[r] = "select_b" /\ last[r] = date
  <2>1. date # Nothing
    <3>1. PICK u \in t .. time : date["second"] = at(u)["second"]
      BY <1>6 DEF FieldSet
    <3>2. u \in Moments(start)
      BY MomentsOfRun
    <3>3. at(u)["second"] # -1
      BY <3>2, MomentsOfRun, RegistersType DEF at
    <3> QED BY <3>1, <3>3 DEF Nothing
  <2>2. ASSUME NEW f \in FieldSet PROVE date[f] = at(t)[f]
    <3>1. PICK u \in start .. t : date[f] = at(u)[f]
      BY <1>4, <1>9, <2>1 DEF PassSince, PassBefore
    <3>2. PICK w \in t .. time : date[f] = at(w)[f]
      BY <1>6
    <3>3. /\ u \in Moments(start) /\ t \in Moments(start) /\ w \in Moments(start)
          /\ u <= t /\ t <= w
      BY MomentsOfRun
    <3>4. registers(registerB, u)[f] = registers(registerB, w)[f]
      BY <3>1, <3>2 DEF at
    <3>5. start \in Starts /\ registerB \in [binary : BOOLEAN, h24 : BOOLEAN]
      BY MomentsOfRun
    <3>6. registers(registerB, t)[f] = registers(registerB, w)[f]
      BY <3>3, <3>4, <3>5, SameBetween
    <3> QED BY <3>2, <3>6 DEF at
  <2>3. \A j \in 1 .. NFields : Fields[j] \in FieldSet
    BY FieldNames
  <2>4. ShowsMoment(r, t)'
    BY <1>1, <1>7, <1>9, <2>2, <2>3 DEF ShowsMoment, at
  <2> QED BY <1>1, <1>5, <1>7, <1>9, <2>4 DEF ReaderOK
<1> QED BY <1>3, <1>8, <1>9

(* Register B is selected.                                                 *)
LEMMA SelectBKeeps ==
  ASSUME Base, NEW r \in Readers, ReaderOK(r), SelectB(r)
  PROVE  ReaderOK(r)'
<1>1. /\ UNCHANGED clock /\ date' = date /\ field' = field
      /\ goto(r, "select_b", "convert")
  BY DEF SelectB, call
<1>2. pc[r] = "select_b" /\ pc'[r] = "convert"
  BY <1>1, Jump
<1>3. field[r] = 1 /\ \E t \in start .. time : ShowsMoment(r, t)
  BY <1>2 DEF ReaderOK
<1>4. PICK t \in start .. time : ShowsMoment(r, t)
  BY <1>3
<1>5. start' = start /\ time' = time /\ registerB' = registerB
  BY <1>1, ChipUntouched
<1>6. \A j \in 1 .. NFields : ~ (j < 1)
  BY DEF NFields
<1>7. ShowsMoment(r, t)'
  BY <1>1, <1>2, <1>3, <1>4, <1>5, <1>6 DEF ShowsMoment, at
<1> QED BY <1>2, <1>5, <1>7 DEF ReaderOK

(* One variable is converted.                                              *)
LEMMA ConvertKeeps ==
  ASSUME Base, NEW r \in Readers, ReaderOK(r), Convert(r)
  PROVE  ReaderOK(r)'
<1> DEFINE i == field[r]
           f == Fields[i]
           to == IF i < NFields THEN "convert" ELSE "print"
           v == convert(registerB, f, date[f])
<1>1. /\ UNCHANGED clock
      /\ goto(r, "convert", to)
      /\ date' = [date EXCEPT ![f] = v]
      /\ field' = [field EXCEPT ![r] = (@ % NFields) + 1]
  BY DEF Convert, nextField
<1>2. i \in 1 .. NFields /\ f \in FieldSet /\ date \in DateType
  BY FieldNames DEF Base, TypeOK
<1>3. pc[r] = "convert" /\ pc'[r] = to
  <2> HIDE DEF to, v
  <2> QED BY <1>1, Jump
<1>4. PICK t \in start .. time : ShowsMoment(r, t)
  BY <1>3 DEF ReaderOK
<1>5. v = convert(registerB, f, at(t)[f])
  <2>1. date[f] = at(t)[f]
    BY <1>2, <1>3, <1>4 DEF ShowsMoment
  <2> QED BY <2>1
<1>6. v \in Int
  <2>1. date[f] \in Int
    BY <1>2, DateFields
  <2> HIDE DEF f
  <2> QED BY <1>2, <2>1, MomentsOfRun, ConvertInt
<1>7. date'[f] = v /\ \A g \in FieldSet : g # f => date'[g] = date[g]
  <2> HIDE DEF f, v
  <2> QED BY <1>1, <1>2, <1>6, DateFields
<1>8. /\ i < NFields => field'[r] = i + 1
      /\ i = NFields => field'[r] = 1
  BY <1>1, <1>2 DEF NFields, Base, TypeOK
<1>9. start' = start /\ time' = time /\ registerB' = registerB
  BY <1>1, ChipUntouched
<1>10. ASSUME NEW j \in 1 .. NFields
       PROVE  date'[Fields[j]] =
                IF pc'[r] = "print" \/ (pc'[r] = "convert" /\ j < field'[r])
                THEN convert(registerB, Fields[j], at(t)[Fields[j]]) ELSE at(t)[Fields[j]]
  <2>1. CASE j = i
    <3>1. pc'[r] = "print" \/ (pc'[r] = "convert" /\ j < field'[r])
      BY <1>2, <1>3, <1>8, <2>1 DEF NFields
    <3> QED BY <1>5, <1>7, <2>1, <3>1
  <2>2. CASE j # i
    <3>1. Fields[j] \in FieldSet /\ Fields[j] # f
      BY <1>2, <2>2, FieldNames DEF NFields
    <3>2. date'[Fields[j]] = date[Fields[j]]
      BY <1>7, <3>1
    <3>3. (pc'[r] = "print" \/ (pc'[r] = "convert" /\ j < field'[r])) <=> j < i
      BY <1>2, <1>3, <1>8, <2>2 DEF NFields
    <3>4. date[Fields[j]] = IF j < i THEN convert(registerB, Fields[j], at(t)[Fields[j]])
                            ELSE at(t)[Fields[j]]
      BY <1>3, <1>4 DEF ShowsMoment
    <3> QED BY <3>2, <3>3, <3>4
  <2> QED BY <2>1, <2>2
<1> HIDE DEF f, v
<1>11. ShowsMoment(r, t)'
  BY <1>9, <1>10 DEF ShowsMoment, at
<1> QED BY <1>2, <1>3, <1>8, <1>9, <1>11 DEF ReaderOK, NFields

(* The date is printed: it is the one of the moment.                       *)
LEMMA FormatKeeps ==
  ASSUME WithinCentury, Base, NEW r \in Readers, ReaderOK(r), Format(r)
  PROVE  ReaderOK(r)'
<1>1. /\ UNCHANGED clock /\ field' = field
      /\ result' = [result EXCEPT ![r] = date] /\ goto(r, "print", "done")
  BY DEF Format
<1>2. result'[r] = date
  BY <1>1 DEF Base, TypeOK
<1>3. pc[r] = "print" /\ pc'[r] = "done"
  BY <1>1, Jump
<1>4. PICK t \in start .. time : ShowsMoment(r, t)
  BY <1>3 DEF ReaderOK
<1>5. start' = start /\ time' = time /\ registerB' = registerB
  BY <1>1, ChipUntouched
<1>6. isDateOf(date, t)
  <2>1. /\ start \in Starts /\ registerB \in [binary : BOOLEAN, h24 : BOOLEAN]
        /\ t \in Moments(start)
    BY MomentsOfRun
  <2>2. \A j \in 1 .. NFields :
          date[Fields[j]] = convert(registerB, Fields[j], at(t)[Fields[j]])
    BY <1>3, <1>4 DEF ShowsMoment
  <2>3. 1 \in 1 .. NFields /\ 2 \in 1 .. NFields /\ 3 \in 1 .. NFields
    BY DEF NFields
  <2>4. /\ date["second"] = convert(registerB, "second", at(t)["second"])
        /\ date["hour"] = convert(registerB, "hour", at(t)["hour"])
        /\ date["year"] = convert(registerB, "year", at(t)["year"])
    BY <2>2, <2>3, FieldNames
  <2> QED BY <2>1, <2>4, MomentConverted DEF at, isDateOf, hourRight
<1>7. isDateOf(result[r], t)'
  BY <1>2, <1>5, <1>6 DEF isDateOf, hourRight
<1>8. field[r] = 1
  BY <1>3 DEF ReaderOK
<1> QED BY <1>1, <1>3, <1>5, <1>7, <1>8 DEF ReaderOK

(* A reader that is not reading is not disturbed by the steps of another.  *)
LEMMA OtherKept ==
  ASSUME Base, NEW r \in Readers, NEW d \in Readers, d # r, Own(r),
         between(d), ReaderOK(d)
  PROVE  ReaderOK(d)' /\ between(d)'
<1>1. /\ pc'[d] = pc[d] /\ last'[d] = last[d] /\ field'[d] = field[d] /\ result'[d] = result[d]
      /\ pc[d] \in {"idle", "done"} /\ UNCHANGED clock
  BY DEF Own, between
<1>2. /\ start' = start /\ time' = time /\ registerB' = registerB
      /\ PassBefore(last[d], time) => PassBefore(last[d], time)'
  BY <1>1, ChipUntouched DEF Own, PassBefore
<1>3. \A t : isDateOf(result[d], t) => isDateOf(result[d], t)'
  BY <1>1, <1>2 DEF isDateOf, hourRight
<1> QED BY <1>1, <1>2, <1>3 DEF ReaderOK, between

(* A reader's step keeps what is known of it and of the other.             *)
LEMMA StepInv ==
  ASSUME WithinCentury, IInv, NEW r \in Readers, Step(r)
  PROVE  IInv'
<1>1. Base /\ Base' /\ Own(r) /\ disturbed \in BOOLEAN /\ disturbed' \in BOOLEAN
  BY StepBase DEF IInv, Base, TypeOK
<1>2. mayRun(r)
  BY DEF Step, Call, SelectUIP, TestUIP, Select, Read, Compare, SelectB, Convert, Format, goto
<1>3. /\ disturbed => disturbed'
      /\ ~disturbed /\ disturbed' => r # main
      /\ r # main /\ ~between(main) => disturbed'
  <2>1. CASE Call(r)
    BY <1>1, <2>1 DEF Call
  <2>2. CASE ~Call(r)
    <3>1. disturbed' = disturbed
      BY <2>2 DEF Step, SelectUIP, TestUIP, Select, Read, Compare, SelectB, Convert, Format
    <3>2. ~between(r)
      BY <2>2 DEF Step, SelectUIP, TestUIP, Select, Read, Compare, SelectB, Convert, Format,
                  goto, between
    <3> QED BY <3>1, <3>2 DEF IInv, Alone
  <2> QED BY <2>1, <2>2
<1>4. ASSUME NEW d \in Readers, d # r
      PROVE  between(d) \/ (d = main /\ disturbed')
  BY <1>2, <1>3, <1>4, RtcAssumption DEF mayRun
<1>5. ASSUME NEW d \in Readers, Undisturbed(d)'
      PROVE  ReaderOK(d)'
  <2>1. ReaderOK(d)
    BY <1>3, <1>5 DEF Undisturbed, IInv
  <2>2. CASE d = r
    BY <1>1, <2>1, <2>2, CallKeeps, TestKeeps, SelectKeeps, ReadKeeps, CompareKeeps,
       SelectBKeeps, ConvertKeeps, FormatKeeps DEF Step
  <2>3. CASE d # r
    <3>1. between(d)
      BY <1>4, <1>5, <2>3 DEF Undisturbed
    <3> QED BY <1>1, <2>1, <2>3, <3>1, OtherKept
  <2> QED BY <2>2, <2>3
<1>6. Alone'
  <2> SUFFICES ASSUME NEW d \in Readers, d # main, ~between(d)', ~disturbed'
               PROVE  between(main)'
    BY DEF Alone
  <2>1. CASE d = r
    <3>1. between(main)
      BY <1>3, <2>1
    <3> QED BY <1>1, <2>1, <3>1, RtcAssumption DEF Own, between
  <2>2. CASE d # r
    BY <1>1, <1>4, <2>2 DEF Own, between
  <2> QED BY <2>1, <2>2
<1> QED BY <1>1, <1>5, <1>6 DEF IInv

(* Every step keeps the invariant.                                         *)
LEMMA NextInv ==
  ASSUME WithinCentury, IInv, [Next]_vars
  PROVE  IInv'
<1>1. CASE UNCHANGED vars
  BY <1>1 DEF vars, IInv, Base, Alone, Undisturbed, between, TypeOK, ClockOK, ReaderOK,
              PassBefore, PassSince, ShowsMoment, at, isDateOf, hourRight
<1>2. CASE BeginUpdate
  BY <1>2, BeginInv
<1>3. CASE EndUpdate
  BY <1>3, EndInv
<1>4. ASSUME NEW f \in {Fields[i] : i \in 1 .. NFields}, UpdateField(f) PROVE IInv'
  BY <1>4, FieldNames, UpdateInv
<1>5. ASSUME NEW r \in Readers, Step(r) PROVE IInv'
  BY <1>5, StepInv
<1> QED BY <1>1, <1>2, <1>3, <1>4, <1>5 DEF Next

(* The date a call prints is the calendar's at one moment while it ran,    *)
(* for every length of the minute, time of boot and setting of register B: *)
(* always that of the call in an interrupt, and the main program's when no *)
(* interrupt's call fell into it; as long as the year is within the code's *)
(* century and fewer ticks pass than a minute has.                         *)
THEOREM DateSafe ==
  ASSUME WithinCentury
  PROVE  Spec => []DateOfOneMoment
<1>1. IInv => DateOfOneMoment
  BY DEF IInv, Base, Undisturbed, ReaderOK, DateOfOneMoment
<1>2. Init => IInv
  BY InitInv
<1>3. IInv /\ [Next]_vars => IInv'
  BY NextInv
<1> QED BY <1>1, <1>2, <1>3, PTL DEF Spec

=============================================================================
