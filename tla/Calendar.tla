------------------------------ MODULE Calendar ------------------------------
(***************************************************************************)
(* Dates and Unix time in nanoseconds (vscphelper.cpp).  Nanoseconds are   *)
(* int64_t, eight bytes in two's complement.  A moment is a record of the  *)
(* date and time fields of an event.                                       *)
(***************************************************************************)
EXTENDS Bytes

Moment(y, m, d, h, min, s, us) ==
  [year |-> y, month |-> m, day |-> d, hour |-> h, minute |-> min, second |-> s, timestamp |-> us]

SecsPerDay == 86400

\* Years begin in March, eras every 400 years.  Days of an era before a year of it.
DaysBefore(yoe) == yoe * 365 + yoe \div 4 - yoe \div 100

\* days_from_civil: days since 1970-01-01.
DaysFromCivil(year, month, day) ==
  LET y == IF month <= 2 THEN year - 1 ELSE year
      era == y \div 400
      doy == (153 * (IF month > 2 THEN month - 3 ELSE month + 9) + 2) \div 5 + day - 1
  IN era * 146097 + DaysBefore(y - era * 400) + doy - 719468

\* mutant: the last day of an era, the leap day of its last year, is not taken back
YearOfEraShort(doe) == (doe - doe \div 1460 + doe \div 36524) \div 365

YearOfEra(doe) == (doe - doe \div 1460 + doe \div 36524 - doe \div 146096) \div 365

\* civil_from_days, the inverse.
CivilFromDays(days) ==
  LET z == days + 719468
      era == z \div 146097
      doe == z - era * 146097
      yoe == YearOfEra(doe)
      doy == doe - DaysBefore(yoe)
      mp == (5 * doy + 2) \div 153
      month == IF mp < 10 THEN mp + 3 ELSE mp - 9
  IN [year |-> yoe + era * 400 + (IF month <= 2 THEN 1 ELSE 0), month |-> month,
      day |-> doy - (153 * mp + 2) \div 5 + 1]

\* vscp_to_unix_ns, which does not look whether the time has a number: the
\* overflow, undefined in the language, wraps in the arithmetic of the machine.
ToUnixNs(t) ==
  LET days == SignedBytes(8, DaysFromCivil(t.year, t.month, t.day))
      sec == MulAdd(days, SecsPerDay, t.hour * 3600 + t.minute * 60 + t.second)
  IN MulAdd(MulAdd(MulAdd(sec, 1000, 0), 1000, t.timestamp), 1000, 0)

\* vscp_from_unix_ns: what is less than a microsecond is dropped.  A negative
\* remainder is made positive, and its quotient one less.
FromUnixNs(ns) ==
  LET micro == FloorDivMod(ns, 1000).quotient
      milli == FloorDivMod(micro, 1000)
      sec == FloorDivMod(milli.quotient, 1000)
      day == FloorDivMod(sec.quotient, SecsPerDay)
      date == CivilFromDays(SignedNumber(day.quotient))
  IN Moment(date.year, date.month, date.day,
            day.remainder \div 3600, (day.remainder % 3600) \div 60, day.remainder % 60,
            sec.remainder * 1000 + milli.remainder)
-----------------------------------------------------------------------------
(* The calendar itself, as the reference.                                   *)

IsLeap(y) == y % 4 = 0 /\ (y % 100 # 0 \/ y % 400 = 0)
DaysIn(y, m) == CASE m \in {4, 6, 9, 11} -> 30
                  [] m = 2 -> IF IsLeap(y) THEN 29 ELSE 28
                  [] OTHER -> 31
NextDate(y, m, d) == IF d < DaysIn(y, m) THEN <<y, m, d + 1>>
                     ELSE IF m < 12 THEN <<y, m + 1, 1>> ELSE <<y + 1, 1, 1>>

\* The day after has the next number, and the first day has number 0.
CountsDays(y, m, d) ==
  LET n == NextDate(y, m, d)
  IN /\ DaysFromCivil(n[1], n[2], n[3]) = DaysFromCivil(y, m, d) + 1
     /\ DaysFromCivil(1970, 1, 1) = 0

Fields(t) == <<t.year, t.month, t.day, t.hour, t.minute, t.second, t.timestamp>>
NotAfter(t, u) == \A k \in 1 .. 7 : \/ Fields(t)[k] <= Fields(u)[k]
                                  \/ \E j \in 1 .. k - 1 : Fields(t)[j] < Fields(u)[j]

\* The first and the last microsecond with a number of nanoseconds in int64_t.
HasUnixNs(t) == /\ NotAfter(Moment(1677, 9, 21, 0, 12, 43, 145225), t)
                /\ NotAfter(t, Moment(2262, 4, 11, 23, 47, 16, 854775))
=============================================================================
