------------------------------ MODULE Calendar ------------------------------
(***************************************************************************)
(* The conversions of juxta_time.c and ble_service.c, and what they ought  *)
(* to compute.  Dates are counted in days since 1970-01-01, percentages in *)
(* millivolts of the battery.                                              *)
(***************************************************************************)
EXTENDS Integers

IsLeap(y) == y % 4 = 0 /\ (y % 100 # 0 \/ y % 400 = 0)

DaysOfYear(y) == IF IsLeap(y) THEN 366 ELSE 365

DaysOfMonth(y, m) ==
  CASE m = 2              -> IF IsLeap(y) THEN 29 ELSE 28
    [] m \in {4, 6, 9, 11} -> 30
    [] OTHER              -> 31

(* juxta_time_ymd takes off whole years, then whole months.  Days is the   *)
(* domain of the functions that do it.                                     *)

\* Year and day in it, when the days since the first of January of y are left.
YearOf(last) ==
  LET strip[y \in 1970..2200, days \in 0..last] ==
        IF days < DaysOfYear(y) THEN <<y, days>>
        ELSE strip[y + 1, days - DaysOfYear(y)]
  IN  strip

MonthOf ==
  LET strip[y \in 1970..2200, m \in 1..12, days \in 0..365] ==
        IF days < DaysOfMonth(y, m) THEN <<m, days>>
        ELSE strip[y, m + 1, days - DaysOfMonth(y, m)]
  IN  strip

Ymd(days) ==
  LET year  == YearOf(days)[1970, days]
      month == MonthOf[year[1], 1, year[2]]
  IN  <<year[1], month[1], month[2] + 1>>

\* The next day of a wall calendar.
NextDay(date) ==
  LET y == date[1] m == date[2] d == date[3]
  IN  IF d < DaysOfMonth(y, m) THEN <<y, m, d + 1>>
      ELSE IF m < 12 THEN <<y, m + 1, 1>> ELSE <<y + 1, 1, 1>>

\* Days since 1970 that a date is, counted from the era of 400 years.
DayNumber(date) ==
  LET y == date[1] m == date[2] d == date[3]
      Leaps(n) == n \div 4 - n \div 100 + n \div 400
      before == (y - 1970) * 365 + Leaps(y - 1) - Leaps(1969)
      month == ((367 * m - 362) \div 12) - (IF m <= 2 THEN 0 ELSE IF IsLeap(y) THEN 1 ELSE 2)
  IN  before + month + d - 1

\* The battery's share of 3000 to 4200 mV in the Node characteristic.
BattPercent(mv) ==
  IF mv <= 3000 THEN 0
  ELSE LET pct == ((mv - 3000) * 100) \div 1200 IN IF pct >= 100 THEN 100 ELSE pct

=============================================================================
