------------------------------ MODULE Calendar ------------------------------
(***************************************************************************)
(* The civil dates of the ledger, the price table and the plans, without   *)
(* time zones: three implementations of the same calendar, which meet      *)
(* wherever a record, a price and a renewal are compared.                  *)
(***************************************************************************)
EXTENDS Integers

Date(y, m, d) == [y |-> y, m |-> m, d |-> d]

IsLeap(y) == (y % 4 = 0 /\ y % 100 # 0) \/ y % 400 = 0
DaysInMonth(y, m) ==
    CASE m \in {4, 6, 9, 11} -> 30
      [] m = 2 -> IF IsLeap(y) THEN 29 ELSE 28
      [] OTHER -> 31

(* Date::parse refuses what is not in the calendar.                        *)
InCalendar(c) == c.m \in 1..12 /\ c.d \in 1..DaysInMonth(c.y, c.m)

(* The derived order of Date: year, month, day.                            *)
Before(a, b) == \/ a.y < b.y
                \/ a.y = b.y /\ (a.m < b.m \/ (a.m = b.m /\ a.d < b.d))

(* Days since 1970-01-01, counted in years that begin in March.            *)
ToDays(c) ==
    LET y == IF c.m <= 2 THEN c.y - 1 ELSE c.y
        yoe == y % 400
        doy == (153 * ((c.m + 9) % 12) + 2) \div 5 + c.d - 1
    IN  (y \div 400) * 146097 + yoe * 365 + yoe \div 4 - yoe \div 100 + doy - 719468

(* The price table counts with its own function, for years from 0 on.      *)
PriceDays(c) ==
    LET y == IF c.m <= 2 THEN c.y - 1 ELSE c.y
        era == (IF y >= 0 THEN y ELSE y - 399) \div 400
        yoe == y - era * 400
        doy == (153 * (IF c.m > 2 THEN c.m - 3 ELSE c.m + 9) + 2) \div 5 + c.d - 1
    IN  era * 146097 + yoe * 365 + yoe \div 4 - yoe \div 100 + doy - 719468

(* The ledger's way back: the date of a day.                               *)
CivilFromDays(days) ==
    LET z   == days + 719468
        era == z \div 146097
        doe == z - era * 146097
        yoe == (doe - doe \div 1460 + doe \div 36524 - doe \div 146096) \div 365
        doy == doe - (365 * yoe + yoe \div 4 - yoe \div 100)
        mp  == (5 * doy + 2) \div 153
        m   == IF mp < 10 THEN mp + 3 ELSE mp - 9
    IN  Date(yoe + era * 400 + (IF m <= 2 THEN 1 ELSE 0), m, doy - (153 * mp + 2) \div 5 + 1)

Least(a, b) == IF a < b THEN a ELSE b

(* A day that the month does not have becomes the month's last.            *)
AddMonths(c, months) ==
    LET total == c.y * 12 + (c.m - 1) + months
        y == total \div 12
        m == (total % 12) + 1
    IN  Date(y, m, Least(c.d, DaysInMonth(y, m)))

-----------------------------------------------------------------------------
(* What the three have to do with each other, on one day.                  *)

Tomorrow(c) == IF c.d < DaysInMonth(c.y, c.m) THEN Date(c.y, c.m, c.d + 1)
               ELSE IF c.m < 12 THEN Date(c.y, c.m + 1, 1) ELSE Date(c.y + 1, 1, 1)

OneCalendar(day) ==
    LET c == CivilFromDays(day)
    IN  /\ InCalendar(c) /\ ToDays(c) = day /\ PriceDays(c) = day
        /\ CivilFromDays(day + 1) = Tomorrow(c)
=============================================================================
