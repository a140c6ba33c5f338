------------------------------ MODULE Temporal ------------------------------
(***************************************************************************)
(* The date and time encoders of internal/types (binary.go, interval.go)   *)
(* and pgUsecToTime of pg2json/scan.go: Go's truncated division, the       *)
(* shift from PostgreSQL's epoch to Unix's, and the civil calendar.        *)
(*                                                                         *)
(* A text is the record of the numbers it prints.  The calendar is the     *)
(* real one; a day is scaled down (a minute has SecPerMin seconds, a       *)
(* second TicksPerSec "microseconds"), and so are the integers: Int64Max   *)
(* and Int32Max keep the order of the limits that matter, a product of     *)
(* days and ticks leaves the int64 before the days leave the int32.        *)
(***************************************************************************)
EXTENDS Integers

CONSTANTS
    MinPerHour, SecPerMin, TicksPerSec,
    Int64Max, Int32Max

ASSUME TemporalAssumption ==
    /\ MinPerHour \in Nat \ {0} /\ SecPerMin \in Nat \ {0} /\ TicksPerSec \in Nat \ {0}
    /\ Int64Max \in Nat /\ Int32Max \in Nat

SecPerHour == MinPerHour * SecPerMin
SecPerDay == 24 * SecPerHour
TicksPerDay == SecPerDay * TicksPerSec
TicksPerHour == SecPerHour * TicksPerSec
TicksPerMin == SecPerMin * TicksPerSec

\* Go's / and %: towards zero, the remainder with the sign of the dividend.
Quot(a, b) == IF a >= 0 THEN a \div b ELSE -((-a) \div b)
Rem(a, b) == a - Quot(a, b) * b

Int64Min == -Int64Max - 1
Int32Min == -Int32Max - 1

\* What an int64 keeps of a product.
Wrap(v) == ((v - Int64Min) % (2 * (Int64Max + 1))) + Int64Min

pgEpochUnix == 10957 * SecPerDay

-----------------------------------------------------------------------------
(* Timestamps and dates *)

\* The days and the second of the day.
SplitDays(sec) ==
    LET days == Quot(sec, SecPerDay)
        rem == sec - days * SecPerDay
    IN  IF rem < 0 THEN [days |-> days - 1, rem |-> rem + SecPerDay]
                   ELSE [days |-> days, rem |-> rem]

\* Variant for a mutation run: the era of a day before the year 0 is rounded
\* towards zero.
EraTruncated(z) == Quot(z, 146097)

\* The era of 400 years a day belongs to.
Era(z) == Quot(IF z < 0 THEN z - 146096 ELSE z, 146097)

\* The civil date of a number of days since 1970-01-01.
CivilDate(days) ==
    LET z == days + 719468
        era == Era(z)
        doe == z - era * 146097
        yoe == (doe - doe \div 1460 + doe \div 36524 - doe \div 146096) \div 365
        doy == doe - (365 * yoe + yoe \div 4 - yoe \div 100)
        mp == (5 * doy + 2) \div 153
        m == IF mp < 10 THEN mp + 3 ELSE mp - 9
    IN  [year |-> yoe + era * 400 + (IF m <= 2 THEN 1 ELSE 0),
         month |-> m,
         day |-> doy - (153 * mp + 2) \div 5 + 1]

splitTime(sec) ==
    LET s == SplitDays(sec)
        hour == s.rem \div SecPerHour
        min == (s.rem - hour * SecPerHour) \div SecPerMin
        date == CivilDate(s.days)
    IN  [year |-> date.year, month |-> date.month, day |-> date.day,
         hour |-> hour, min |-> min,
         second |-> s.rem - hour * SecPerHour - min * SecPerMin]

\* Seconds since the Unix epoch, and ticks in [0, TicksPerSec).
SecAndFrac(usec) ==
    LET sec == pgEpochUnix + Quot(usec, TicksPerSec)
        frac == Rem(usec, TicksPerSec)
    IN  IF frac < 0 THEN [sec |-> sec - 1, frac |-> frac + TicksPerSec]
                    ELSE [sec |-> sec, frac |-> frac]

appendISOTimestamp(usec) ==
    LET s == SecAndFrac(usec) IN [time |-> splitTime(s.sec), frac |-> s.frac]

encodeTimestampBinary(usec) ==
    IF usec = Int64Max THEN "infinity"
    ELSE IF usec = Int64Min THEN "-infinity"
    ELSE appendISOTimestamp(usec)

appendISODateOnly(usec) ==
    LET t == splitTime(pgEpochUnix + Quot(usec, TicksPerSec))
    IN  [year |-> t.year, month |-> t.month, day |-> t.day]

encodeDateBinary(days) ==
    IF days = Int32Max THEN "infinity"
    ELSE IF days = Int32Min THEN "-infinity"
    ELSE appendISODateOnly(Wrap(days * TicksPerDay))

\* The time.Time a scan stores, by its seconds and ticks.
pgUsecToTime(usec) == SecAndFrac(usec)

-----------------------------------------------------------------------------
(* Times and intervals *)

\* Hours, minutes, seconds and fraction of a number of ticks.
Clock(usec) ==
    LET hours == Quot(usec, TicksPerHour)
        u1 == usec - hours * TicksPerHour
        mins == Quot(u1, TicksPerMin)
        u2 == u1 - mins * TicksPerMin
        secs == Quot(u2, TicksPerSec)
    IN  [hours |-> hours, mins |-> mins, secs |-> secs, frac |-> u2 - secs * TicksPerSec]

appendTimeOfDay(usec) == Clock(IF usec < 0 THEN 0 ELSE usec)

\* The wire counts seconds west of UTC.
EastOfUTC(zone) == -zone

encodeTimeTZBinary(usec, zone) ==
    LET east == EastOfUTC(zone)
        abs == IF east >= 0 THEN east ELSE -east
    IN  [time |-> appendTimeOfDay(usec),
         sign |-> IF east >= 0 THEN 1 ELSE -1,
         hours |-> abs \div SecPerHour,
         mins |-> (abs % SecPerHour) \div SecPerMin]

\* The printed parts of a duration: 0 where a part is left out, the fraction
\* without a sign of its own (appendFrac6).
encodeIntervalBinary(micros, days, months) ==
    LET years == Quot(months, 12)
        c == Clock(micros)
    IN  [years |-> years, months |-> months - years * 12, days |-> days,
         hours |-> c.hours, mins |-> c.mins, secs |-> c.secs,
         frac |-> IF c.frac < 0 THEN -c.frac ELSE c.frac]

-----------------------------------------------------------------------------
(* What the texts denote *)

IsLeap(y) == y % 4 = 0 /\ (y % 100 # 0 \/ y % 400 = 0)

DaysInMonth(y, m) ==
    IF m = 2 THEN IF IsLeap(y) THEN 29 ELSE 28
    ELSE IF m \in {4, 6, 9, 11} THEN 30 ELSE 31

\* Days before the first of a month in a year without a leap day.
DaysBefore == <<0, 31, 59, 90, 120, 151, 181, 212, 243, 273, 304, 334>>

\* Days from 1970-01-01 to a date: 365 for every year, and the leap days of the
\* years before it.
DayNumber(d) ==
    LET y == d.year - 1
    IN  365 * (d.year - 1970) + (y \div 4 - y \div 100 + y \div 400) - 477
        + DaysBefore[d.month] + (IF d.month > 2 /\ IsLeap(d.year) THEN 1 ELSE 0)
        + d.day - 1

IsDate(d) == d.month \in 1..12 /\ d.day \in 1..DaysInMonth(d.year, d.month)

\* The text of a timestamp is a date of the calendar and a time of the day, and
\* names the instant the server sent; a scan into a time.Time stores the same
\* instant.
TimestampDenotesItself(usec) ==
    usec \in Int64Min + 1 .. Int64Max - 1 =>
        LET text == encodeTimestampBinary(usec)
            t == text.time
            scanned == pgUsecToTime(usec)
        IN  /\ IsDate(t)
            /\ t.hour \in 0..23 /\ t.min \in 0..MinPerHour - 1 /\ t.second \in 0..SecPerMin - 1
            /\ text.frac \in 0..TicksPerSec - 1
            /\ ((DayNumber(t) - 10957) * SecPerDay + t.hour * SecPerHour + t.min * SecPerMin
                  + t.second) * TicksPerSec + text.frac = usec
            /\ (scanned.sec - pgEpochUnix) * TicksPerSec + scanned.frac = usec

\* The text of a date names the day the server sent, as long as the day in
\* microseconds is an int64.
DateDenotesItself(days) ==
    days * TicksPerDay \in Int64Min..Int64Max /\ days \in Int32Min + 1 .. Int32Max - 1 =>
        LET d == encodeDateBinary(days)
        IN  IsDate(d) /\ DayNumber(d) - 10957 = days

\* The value of the hours, minutes, seconds and fraction a text prints: the
\* fraction counts in the direction of the seconds before it.
ClockValue(c) ==
    ((c.hours * MinPerHour + c.mins) * SecPerMin + c.secs) * TicksPerSec
        + (IF c.secs < 0 THEN -c.frac ELSE c.frac)

\* A time of day is printed as it is.
TimeDenotesItself(usec) ==
    usec \in 0..TicksPerDay => ClockValue(appendTimeOfDay(usec)) = usec

\* The zone of a timetz is the server's, with the sign of ISO 8601, without its
\* seconds.
TimeTZDenotesItself(usec, zone) ==
    LET text == encodeTimeTZBinary(usec, zone)
        shown == text.sign * (text.hours * MinPerHour + text.mins) * SecPerMin
    IN  /\ ClockValue(text.time) = usec
        /\ text.mins < MinPerHour
        /\ shown = -(zone - Rem(zone, SecPerMin))

\* A duration denotes the interval, part by part, unless the fraction is
\* negative and no second is there to carry its sign.
IntervalDenotesItself(micros, days, months) ==
    LET text == encodeIntervalBinary(micros, days, months)
    IN  /\ text.years * 12 + text.months = months /\ text.months \in -11..11
        /\ text.days = days
        /\ text.secs # 0 \/ Clock(micros).frac >= 0 => ClockValue(text) = micros
        /\ text.mins \in -MinPerHour + 1 .. MinPerHour - 1
        /\ text.secs \in -SecPerMin + 1 .. SecPerMin - 1
=============================================================================
