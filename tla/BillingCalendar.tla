--------------------------- MODULE BillingCalendar ---------------------------
(***************************************************************************)
(* The calendar arithmetic of billing dates: _add_billing_period of        *)
(* app/domain/entities/subscription.py.  A date is a day in a month, the   *)
(* months being counted from January of the year 0.                        *)
(***************************************************************************)
EXTENDS Integers, FiniteSetsExt

SubscriptionType == {"MONTHLY", "SEMIANNUAL", "YEARLY"}
MonthsOf(type) == CASE type = "MONTHLY" -> 1 [] type = "SEMIANNUAL" -> 6 [] type = "YEARLY" -> 12

Leap(year) == (year % 4 = 0 /\ year % 100 # 0) \/ year % 400 = 0

\* calendar.monthrange
DaysIn(month) ==
    CASE month % 12 = 1 -> IF Leap(month \div 12) THEN 29 ELSE 28
      [] month % 12 \in {3, 5, 8, 10} -> 30
      [] OTHER -> 31

Date == [month : Nat, day : 1 .. 31]
IsDate(date) == date \in Date /\ date.day <= DaysIn(date.month)

Earlier(a, b) == a.month < b.month \/ (a.month = b.month /\ a.day < b.day)
Later(a, b) == IF Earlier(a, b) THEN b ELSE a

\* The day of a month that comes closest to the given one.
DayOf(month, day) == [month |-> month, day |-> Min({day, DaysIn(month)})]

\* Mutant: a month too far from December on.
AddPeriodOverNewYear(base, type) ==
    LET month == base.month + MonthsOf(type)
    IN  DayOf(IF month % 12 < base.month % 12 THEN month + 1 ELSE month, base.day)

\* The day is clamped to the length of the month.
AddBillingPeriod(base, type) == DayOf(base.month + MonthsOf(type), base.day)

\* A few days later.
Plus(date, days) ==
    IF date.day + days <= DaysIn(date.month)
    THEN [date EXCEPT !.day = @ + days]
    ELSE [month |-> date.month + 1, day |-> date.day + days - DaysIn(date.month)]
=============================================================================
