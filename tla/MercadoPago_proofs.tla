------------------------- MODULE MercadoPago_proofs -------------------------
(***************************************************************************)
(* The row of a Mercado Pago payment is true to its payments, a checkout   *)
(* expires only when it is over, and expires_at of a subscription stays    *)
(* near its next charge: for every set of payments, every day to start on, *)
(* every delay of a payment below 25 days and any number of invoices.      *)
(*                                                                         *)
(* The first part is calendar arithmetic.  The billing day is clamped to   *)
(* the length of a month twice, by the gateway from the first day of all   *)
(* (anchor) and by _add_billing_period from the previous expires_at, so    *)
(* expires_at drifts; PeriodKeepsNear says that About bounds the drift     *)
(* through every period.  The second part shows GatewayInvariant           *)
(* inductive, one lemma per action, the first of them where dates move.    *)
(***************************************************************************)
EXTENDS MercadoPago, TLAPS

USE PaymentsAssumption, StartsAssumption, DelayAssumption

\* The smaller of two numbers, which the library defines by a choice.
LEMMA MinOfTwo ==
    ASSUME NEW a \in Int, NEW b \in Int
    PROVE  Min({a, b}) = IF a <= b THEN a ELSE b
<1> DEFINE least == IF a <= b THEN a ELSE b
<1>1. least \in {a, b} /\ \A y \in {a, b} : least =< y
  OBVIOUS
<1>2. \A x \in {a, b} : (\A y \in {a, b} : x =< y) => x = least
  OBVIOUS
<1> HIDE DEF least
<1>3. Min({a, b}) = least
  BY <1>1, <1>2 DEF Min
<1> QED
  BY <1>3 DEF least

\* Months have 28 to 31 days.
LEMMA DaysInRange ==
    ASSUME NEW month \in Nat
    PROVE  DaysIn(month) \in 28 .. 31
<1>1. month % 12 = 1 => DaysIn(month) = IF Leap(month \div 12) THEN 29 ELSE 28
  BY DEF DaysIn
<1>2. month % 12 \in {3, 5, 8, 10} => DaysIn(month) = 30
  BY DEF DaysIn
<1>3. month % 12 # 1 /\ month % 12 \notin {3, 5, 8, 10} => DaysIn(month) = 31
  BY DEF DaysIn
<1> QED
  BY <1>1, <1>2, <1>3

\* The clamped day of a month.
LEMMA DayOfIs ==
    ASSUME NEW month \in Nat, NEW day \in Nat
    PROVE  DayOf(month, day) =
             [month |-> month, day |-> IF day <= DaysIn(month) THEN day ELSE DaysIn(month)]
BY DaysInRange, MinOfTwo DEF DayOf

\* ... is a day of that month.
LEMMA DayOfIsDate ==
    ASSUME NEW month \in Nat, NEW day \in 1 .. 31
    PROVE  IsDate(DayOf(month, day)) /\ DayOf(month, day).month = month
<1>1. DaysIn(month) \in 28 .. 31
  BY DaysInRange
<1>2. DayOf(month, day) =
        [month |-> month, day |-> IF day <= DaysIn(month) THEN day ELSE DaysIn(month)]
  BY DayOfIs
<1> QED
  BY <1>1, <1>2 DEF IsDate, Date

\* A few days later is a date, in the same month or the next.
LEMMA PlusIsDate ==
    ASSUME NEW date, IsDate(date), NEW days \in 0 .. 27
    PROVE  /\ IsDate(Plus(date, days))
           /\ ~Earlier(Plus(date, days), date)
           /\ Plus(date, days).month \in {date.month, date.month + 1}
           /\ Plus(date, days).month = date.month => Plus(date, days).day = date.day + days
           /\ Plus(date, days).month = date.month + 1 =>
                Plus(date, days).day = date.day + days - DaysIn(date.month)
<1>1. date \in Date /\ date.month \in Nat /\ date.day \in 1 .. DaysIn(date.month)
  BY DEF IsDate, Date
<1>2. DaysIn(date.month) \in 28 .. 31 /\ DaysIn(date.month + 1) \in 28 .. 31
  BY <1>1, DaysInRange
<1>3. CASE date.day + days <= DaysIn(date.month)
  <2>1. Plus(date, days) = [date EXCEPT !.day = @ + days]
    BY <1>3 DEF Plus
  <2>2. Plus(date, days) \in Date /\ Plus(date, days).month = date.month
        /\ Plus(date, days).day = date.day + days
    BY <1>1, <1>2, <1>3, <2>1 DEF Date
  <2> QED
    BY <1>1, <1>2, <1>3, <2>2 DEF IsDate, Earlier
<1>4. CASE ~(date.day + days <= DaysIn(date.month))
  <2>1. Plus(date, days) = [month |-> date.month + 1, day |-> date.day + days - DaysIn(date.month)]
    BY <1>4 DEF Plus
  <2> QED
    BY <1>1, <1>2, <1>4, <2>1 DEF IsDate, Date, Earlier
<1> QED
  BY <1>3, <1>4

\* A payment in time has a date.
LEMMA PaidOnADate ==
    ASSUME NEW date, IsDate(date), NEW days \in 0 .. MaxDelay
    PROVE  IsDate(Plus(date, days)) /\ Plus(date, days) # NoDate
<1>1. days \in 0 .. 27
  OBVIOUS
<1>2. IsDate(Plus(date, days))
  BY <1>1, PlusIsDate
<1>3. ~IsDate(NoDate)
  BY DEF IsDate, Date, NoDate
<1> QED
  BY <1>2, <1>3

\* A period is of one, six or twelve months.
LEMMA MonthsOfType ==
    ASSUME NEW t \in SubscriptionType
    PROVE  MonthsOf(t) \in {1, 6, 12}
<1>1. t = "MONTHLY" => MonthsOf(t) = 1
  BY DEF MonthsOf
<1>2. t = "SEMIANNUAL" => MonthsOf(t) = 6
  BY DEF MonthsOf
<1>3. t = "YEARLY" => MonthsOf(t) = 12
  BY DEF MonthsOf
<1> QED
  BY <1>1, <1>2, <1>3 DEF SubscriptionType

\* A charge falls on the day of the first one, or on the last of a shorter month.
LEMMA NextChargeIs ==
    ASSUME InvoiceDates, IsDate(due)
    PROVE  /\ IsDate(NextCharge)
           /\ NextCharge.month = due.month + MonthsOf(type) /\ MonthsOf(type) \in {1, 6, 12}
           /\ NextCharge = DayOf(NextCharge.month, anchor)
           /\ due = [month |-> due.month,
                     day |-> IF anchor <= DaysIn(due.month) THEN anchor ELSE DaysIn(due.month)]
           /\ NextCharge =
                [month |-> NextCharge.month,
                 day |-> IF anchor <= DaysIn(NextCharge.month) THEN anchor
                         ELSE DaysIn(NextCharge.month)]
<1>1. /\ MonthsOf(type) \in {1, 6, 12} /\ anchor \in 1 .. 31 /\ due.month \in Nat
      /\ due = DayOf(due.month, anchor)
  BY MonthsOfType DEF InvoiceDates, IsDate, Date
<1>2. due.month + MonthsOf(type) \in Nat /\ anchor \in Nat
  BY <1>1
<1>3. IsDate(NextCharge) /\ NextCharge.month = due.month + MonthsOf(type)
  BY <1>1, <1>2, DayOfIsDate DEF NextCharge
<1>4. NextCharge = DayOf(NextCharge.month, anchor)
  BY <1>3 DEF NextCharge
<1>5. NextCharge.month \in Nat
  BY <1>2, <1>3
<1>6. /\ DayOf(due.month, anchor) =
           [month |-> due.month,
            day |-> IF anchor <= DaysIn(due.month) THEN anchor ELSE DaysIn(due.month)]
      /\ DayOf(NextCharge.month, anchor) =
           [month |-> NextCharge.month,
            day |-> IF anchor <= DaysIn(NextCharge.month) THEN anchor
                    ELSE DaysIn(NextCharge.month)]
  BY <1>1, <1>2, <1>5, DayOfIs
<1> QED
  BY <1>1, <1>3, <1>4, <1>6

\* ExpiresAboutThen, of any two dates.
About(date, charge) ==
    /\ ~Earlier(Plus(date, 3), charge)
    /\ date.month <= charge.month + 1
    /\ date.month = charge.month => date.day <= anchor + MaxDelay
    /\ date.month > charge.month => date.day <= MaxDelay /\ date.day <= MaxDelay + anchor - 28

\* The drift does not add up: a period keeps the day it was counted from or shortens it,
\* and a payment moves it by its own delay only.
LEMMA PeriodKeepsNear ==
    ASSUME InvoiceDates, IsDate(due), IsDate(expires), About(expires, due),
           paidOn # NoDate
    PROVE  LET e == AddBillingPeriod(Later(paidOn, expires), type)
           IN  IsDate(e) /\ About(e, NextCharge)
<1> DEFINE base == Later(paidOn, expires)
           e == AddBillingPeriod(base, type)
           D(m) == DaysIn(m)
<1>1. PICK days \in 0 .. MaxDelay : paidOn = Plus(due, days)
  BY DEF InvoiceDates
<1>2. /\ anchor \in 1 .. 31 /\ MaxDelay \in 0 .. 24 /\ days \in 0 .. 27
      /\ due.month \in Nat /\ MonthsOf(type) \in {1, 6, 12}
      /\ expires.month \in Nat /\ expires.day \in 1 .. 31
      /\ expires.day <= D(expires.month)
  BY <1>1, MonthsOfType DEF InvoiceDates, IsDate, Date
<1>3. /\ D(due.month) \in 28 .. 31
      /\ D(due.month + 1) \in 28 .. 31
      /\ D(due.month + MonthsOf(type)) \in 28 .. 31
      /\ D(due.month + MonthsOf(type) + 1) \in 28 .. 31
  BY <1>2, DaysInRange
<1>4. /\ NextCharge.month = due.month + MonthsOf(type)
      /\ due.day = IF anchor <= D(due.month) THEN anchor ELSE D(due.month)
      /\ NextCharge.day = IF anchor <= D(NextCharge.month) THEN anchor ELSE D(NextCharge.month)
  BY NextChargeIs
<1>5. /\ IsDate(paidOn) /\ ~Earlier(paidOn, due)
      /\ paidOn.month \in {due.month, due.month + 1}
      /\ paidOn.month = due.month => paidOn.day = due.day + days
      /\ paidOn.month = due.month + 1 => paidOn.day = due.day + days - D(due.month)
  BY <1>1, <1>2, PlusIsDate
<1>6. /\ paidOn.month \in Nat /\ paidOn.day \in 1 .. 31 /\ paidOn.day <= D(paidOn.month)
      /\ paidOn \in Date /\ expires \in Date
  BY <1>5 DEF IsDate, Date
<1>7. base \in {paidOn, expires} /\ ~Earlier(base, paidOn) /\ ~Earlier(base, expires)
  BY <1>2, <1>6 DEF Later, Earlier
<1>8. /\ base.month \in {due.month, due.month + 1}
      /\ base.day \in 1 .. 31 /\ base.day <= D(base.month)
      /\ base.month = due.month => due.day <= base.day /\ base.day <= anchor + MaxDelay
      /\ base.month = due.month + 1 =>
           base.day <= MaxDelay /\ base.day <= MaxDelay + anchor - 28
  <2> HIDE DEF base
  <2>1. base.month >= due.month /\ (base.month = due.month => base.day >= due.day)
    BY <1>2, <1>4, <1>3, <1>5, <1>6, <1>7 DEF Earlier
  <2>2. CASE base = paidOn
    BY <1>1, <1>2, <1>3, <1>4, <1>5, <1>6, <2>1, <2>2
  <2>3. CASE base = expires
    BY <1>2, <1>3, <1>4, <2>1, <2>3 DEF About
  <2> QED
    BY <1>7, <2>2, <2>3
<1>9. /\ IsDate(e) /\ e.month = base.month + MonthsOf(type)
      /\ e.day = IF base.day <= D(base.month + MonthsOf(type)) THEN base.day
                 ELSE D(base.month + MonthsOf(type))
  <2>1. base.month + MonthsOf(type) \in Nat /\ base.day \in 1 .. 31 /\ base.day \in Nat
    BY <1>2, <1>8
  <2>2. e = DayOf(base.month + MonthsOf(type), base.day)
    BY DEF AddBillingPeriod
  <2> DEFINE month == base.month + MonthsOf(type)
             day == base.day
  <2> HIDE DEF base, e, month, day
  <2>3. month \in Nat /\ day \in 1 .. 31 /\ day \in Nat /\ e = DayOf(month, day)
    BY <2>1, <2>2 DEF month, day
  <2>4. /\ IsDate(e) /\ e.month = month
        /\ e.day = IF day <= DaysIn(month) THEN day ELSE DaysIn(month)
    <3>1. IsDate(DayOf(month, day)) /\ DayOf(month, day).month = month
      BY <2>3, DayOfIsDate
    <3>2. DayOf(month, day).day = IF day <= DaysIn(month) THEN day ELSE DaysIn(month)
      <4>1. DayOf(month, day) =
              [month |-> month, day |-> IF day <= DaysIn(month) THEN day ELSE DaysIn(month)]
        BY <2>3, DayOfIs
      <4> QED
        BY <4>1
    <3> QED
      BY <2>3, <3>1, <3>2
  <2> QED
    BY <2>4 DEF month, day
<1> HIDE DEF base, e
<1>10. /\ e.month <= NextCharge.month + 1
       /\ e.month = NextCharge.month => e.day <= anchor + MaxDelay
       /\ e.month > NextCharge.month =>
            e.day <= MaxDelay /\ e.day <= MaxDelay + anchor - 28
  BY <1>2, <1>3, <1>4, <1>8, <1>9
<1>11. ~Earlier(Plus(e, 3), NextCharge)
  <2>1. /\ Plus(e, 3).month \in {e.month, e.month + 1}
        /\ Plus(e, 3).month = e.month => Plus(e, 3).day = e.day + 3
        /\ Plus(e, 3).month = e.month + 1 => Plus(e, 3).day = e.day + 3 - D(e.month)
    <3>1. 3 \in 0 .. 27
      OBVIOUS
    <3> QED
      BY <1>9, <3>1, PlusIsDate
  <2> DEFINE p == Plus(e, 3)
  <2> HIDE DEF p
  <2>2. /\ p.month \in {e.month, e.month + 1}
        /\ p.month = e.month => p.day = e.day + 3
    BY <2>1 DEF p
  <2>3. e.month = NextCharge.month => e.day + 3 >= NextCharge.day
    BY <1>2, <1>3, <1>4, <1>8, <1>9
  <2>4. ~Earlier(p, NextCharge)
    BY <1>2, <1>3, <1>4, <1>8, <1>9, <2>2, <2>3 DEF Earlier
  <2> QED
    BY <2>4 DEF p
<1>12. IsDate(e) /\ About(e, NextCharge)
  BY <1>9, <1>10, <1>11 DEF About
<1> QED
  BY <1>12 DEF e, base

\* So it stays within three days before a charge and the delay after it.
LEMMA AboutIsNear ==
    ASSUME InvoiceDates, IsDate(due), IsDate(expires), About(expires, NextCharge)
    PROVE  ~Earlier(Plus(NextCharge, MaxDelay + 3), expires)
<1> DEFINE p == Plus(NextCharge, MaxDelay + 3)
           D(m) == DaysIn(m)
<1>1. /\ IsDate(NextCharge) /\ NextCharge.month \in Nat
      /\ NextCharge.day = IF anchor <= D(NextCharge.month) THEN anchor ELSE D(NextCharge.month)
  BY NextChargeIs DEF IsDate, Date
<1>2. /\ anchor \in 1 .. 31 /\ MaxDelay \in 0 .. 24 /\ D(NextCharge.month) \in 28 .. 31
      /\ expires.month \in Nat /\ expires.day \in 1 .. 31
      /\ expires.day <= D(expires.month)
  BY <1>1, DaysInRange DEF InvoiceDates, IsDate, Date
<1>3. /\ p.month \in {NextCharge.month, NextCharge.month + 1}
      /\ p.month = NextCharge.month => p.day = NextCharge.day + MaxDelay + 3
      /\ p.month = NextCharge.month + 1 =>
           p.day = NextCharge.day + MaxDelay + 3 - D(NextCharge.month)
      /\ IsDate(p)
  <2>1. MaxDelay + 3 \in 0 .. 27
    BY <1>2
  <2>2. /\ IsDate(p)
        /\ p.month \in {NextCharge.month, NextCharge.month + 1}
        /\ p.month = NextCharge.month => p.day = NextCharge.day + (MaxDelay + 3)
        /\ p.month = NextCharge.month + 1 =>
             p.day = NextCharge.day + (MaxDelay + 3) - D(NextCharge.month)
    BY <1>1, <2>1, PlusIsDate
  <2> HIDE DEF p
  <2> QED
    BY <1>1, <1>2, <2>2
<1>4. p.month \in Nat /\ p.day \in 1 .. 31 /\ p.day <= D(p.month)
  BY <1>3 DEF IsDate, Date
<1> HIDE DEF p
<1>5. ASSUME p.month = NextCharge.month PROVE ~Earlier(p, expires)
  BY <1>1, <1>2, <1>3, <1>4, <1>5 DEF About, Earlier
<1>6. ASSUME p.month = NextCharge.month + 1 PROVE ~Earlier(p, expires)
  BY <1>1, <1>2, <1>3, <1>4, <1>6 DEF About, Earlier
<1>7. ~Earlier(p, expires)
  BY <1>3, <1>5, <1>6
<1> QED
  BY <1>7 DEF p

(********************************** Steps **********************************)

USE DEF checkout, subscription, jobs, Payment, Unsettled, Reversed, Failed, RemoteStatus, Unpaid

\* A row of a checkout or of the first invoice, nothing paid.
LEMMA InitHolds == Init => GatewayInvariant
<1> SUFFICES ASSUME Init PROVE GatewayInvariant
  OBVIOUS
<1>1. PICK start \in Starts : due = start /\ expires = start /\ anchor = start.day
  BY DEF Init
<1>2. /\ IsDate(start) /\ start.month \in Nat /\ start.day \in 1 .. 31
      /\ start.day <= DaysIn(start.month)
      /\ start = [month |-> start.month, day |-> start.day]
  BY StartsAssumption DEF IsDate, Date
<1>3. RowIsTrue
  BY <1>1, <1>2 DEF Init, RowIsTrue, TypeOK, RowIsOfAPayment
<1>4. PayloadsAreOfPayments /\ OnlyCheckoutsExpire /\ ExpiredIsOver
  BY DEF Init, PayloadsAreOfPayments, OnlyCheckoutsExpire, ExpiredIsOver
<1>5. InvoiceDates
  <2>1. due = DayOf(due.month, anchor)
    BY <1>1, <1>2, DayOfIs
  <2>2. ~Approved
    BY DEF Init, Approved
  <2>3. type \in SubscriptionType
    BY DEF Init, SubscriptionType
  <2> QED
    BY <1>1, <1>2, <2>1, <2>2, <2>3 DEF Init, InvoiceDates
<1>6. ExpiresAboutThen
  <2>1. ~Earlier(Plus(start, 3), start)
    <3>1. 3 \in 0 .. 27
      OBVIOUS
    <3> QED
      BY <1>2, <3>1, PlusIsDate
  <2>2. Charged = due
    BY DEF Init, Charged
  <2>3. start.month <= start.month + 1 /\ ~(start.month > start.month)
        /\ start.day <= start.day + MaxDelay
    BY <1>2
  <2> QED
    BY <1>1, <2>1, <2>2, <2>3, Zenon DEF ExpiresAboutThen
<1> QED
  BY <1>3, <1>4, <1>5, <1>6 DEF GatewayInvariant

\* A payment that was approved is never again one that was not.
LEMMA ApprovalStays ==
    ASSUME TypeOK, Approved, NEW p \in Payment, Move(p)
    PROVE  Approved'
<1>1. PICK q \in Payment : remote[q] \in {"approved", "in_mediation"} \cup Reversed
  BY DEF Approved
<1>2. PICK status \in MovesFrom[remote[p]] : remote' = [remote EXCEPT ![p] = status]
  BY DEF Move
<1>3. CASE q = p
  <2>1. status \in {"approved", "in_mediation"} \cup Reversed
    BY <1>1, <1>2, <1>3 DEF MovesFrom
  <2> QED
    BY <1>2, <1>3, <2>1 DEF Approved, TypeOK
<1>4. CASE q # p
  BY <1>1, <1>2, <1>4 DEF Approved, TypeOK
<1> QED
  BY <1>3, <1>4

\* The invoice that a row says is paid has been paid on a date.
LEMMA PaidRowIsDated ==
    ASSUME GatewayInvariant, kind = "subscription", ~Unpaid
    PROVE  Approved /\ paidOn # NoDate /\ last = paidOn
<1>1. row \in {"PAID", "REFUNDED"}
  BY DEF GatewayInvariant, RowIsTrue, TypeOK, OnlyCheckoutsExpire
<1> QED
  BY <1>1 DEF GatewayInvariant, RowIsTrue, RowIsOfAPayment, InvoiceDates

\* What the gateway does to a payment.
LEMMA MoveHolds ==
    ASSUME GatewayInvariant, NEW p \in Payment, Move(p)
    PROVE  GatewayInvariant'
<1> USE DEF GatewayInvariant
<1>1. /\ UNCHANGED <<kind, row, resolved, holding, listed, window, asked, type, anchor, due, last,
                     expires>>
      /\ remote \in [Payment -> RemoteStatus] /\ IsDate(due)
  BY DEF Move, RowIsTrue, TypeOK
<1>2. PICK status \in MovesFrom[remote[p]] :
        /\ remote' = [remote EXCEPT ![p] = status]
        /\ IF kind = "subscription" /\ status = "approved" /\ paidOn = NoDate
           THEN \E days \in 0 .. MaxDelay : paidOn' = Plus(due, days)
           ELSE UNCHANGED paidOn
  BY DEF Move
<1>3. status \in RemoteStatus /\ remote' \in [Payment -> RemoteStatus]
  BY <1>1, <1>2 DEF MovesFrom
<1>4. paidOn' = NoDate \/ \E days \in 0 .. MaxDelay : paidOn' = Plus(due, days)
  BY <1>2 DEF InvoiceDates
<1>5. paidOn' = NoDate \/ IsDate(paidOn')
  BY <1>1, <1>4, PaidOnADate
<1>6. RowIsTrue' /\ PayloadsAreOfPayments'
  <2>1. Approved => Approved'
    BY ApprovalStays DEF RowIsTrue
  <2> QED
    BY <1>1, <1>3, <1>5, <2>1 DEF RowIsTrue, TypeOK, RowIsOfAPayment, PayloadsAreOfPayments
<1>7. OnlyCheckoutsExpire'
  <2>1. window = "over" => remote[p] # "none"
    BY DEF OnlyCheckoutsExpire, Move, MayBeTried
  <2> QED
    BY <1>1, <1>2, <1>3, <2>1 DEF OnlyCheckoutsExpire
<1>8. ExpiredIsOver'
  <2>1. row # "EXPIRED" /\ asked # "EXPIRED"
    <3> SUFFICES ASSUME row = "EXPIRED" \/ asked = "EXPIRED" PROVE FALSE
      OBVIOUS
    <3>1. window = "over" /\ kind = "checkout" /\ remote[p] \in {"none"} \cup Failed \cup Reversed
      BY DEF OnlyCheckoutsExpire, ExpiredIsOver
    <3> QED
      BY <1>2, <3>1 DEF Move, MayBeTried, MovesFrom
  <2> QED
    BY <1>1, <2>1 DEF ExpiredIsOver
<1>9. InvoiceDates'
  <2>1. kind = "subscription" /\ Approved' => paidOn' # NoDate
    <3> SUFFICES ASSUME kind = "subscription", Approved', paidOn' = NoDate PROVE FALSE
      OBVIOUS
    <3>2. \A days \in 0 .. MaxDelay : Plus(due, days) # NoDate
      BY <1>1, PaidOnADate
    <3>3. paidOn = NoDate /\ status # "approved"
      BY <1>2, <3>2
    <3>4. ~Approved
      BY <3>3 DEF InvoiceDates
    <3>5. PICK q \in Payment : remote'[q] \in {"approved", "in_mediation"} \cup Reversed
      BY DEF Approved
    <3>6. q = p /\ remote'[q] = status
      BY <1>1, <1>2, <3>4, <3>5 DEF Approved
    <3>7. remote[p] \in {"approved", "in_mediation"} \cup Reversed
      BY <1>2, <1>1, <3>3, <3>5, <3>6 DEF MovesFrom
    <3> QED
      BY <3>4, <3>7 DEF Approved
  <2>2. kind = "subscription" /\ ~Unpaid => paidOn' = paidOn
    <3>1. kind = "subscription" /\ ~Unpaid => paidOn # NoDate
      BY PaidRowIsDated
    <3> QED
      BY <1>2, <3>1
  <2>3. Unpaid' <=> Unpaid
    BY <1>1
  <2> QED
    BY <1>1, <1>4, <2>1, <2>2, <2>3 DEF InvoiceDates
<1>10. ExpiresAboutThen'
  BY <1>1 DEF ExpiresAboutThen, Charged, NextCharge
<1> QED
  BY <1>6, <1>7, <1>8, <1>9, <1>10

\* Of a step that leaves the payments and the dates alone.
LEMMA DatesStay ==
    ASSUME InvoiceDates, ExpiresAboutThen, UNCHANGED <<kind, remote, subscription>>, Unpaid' <=> Unpaid
    PROVE  InvoiceDates' /\ ExpiresAboutThen' /\ Approved' = Approved
<1>1. Approved' = Approved
  BY DEF Approved
<1>2. Charged' = Charged
  BY DEF Charged, NextCharge
<1> QED
  BY <1>1, <1>2 DEF InvoiceDates, ExpiresAboutThen

\* What is listed, and the end of a window.
LEMMA WindowHolds ==
    ASSUME GatewayInvariant, (\E p \in Payment : List(p)) \/ WindowEnds
    PROVE  GatewayInvariant'
<1> USE DEF GatewayInvariant
<1>1. UNCHANGED <<kind, remote, row, resolved, holding, asked, subscription>>
  BY DEF List, WindowEnds
<1>2. InvoiceDates' /\ ExpiresAboutThen' /\ Approved' = Approved
  BY <1>1, DatesStay
<1>3. RowIsTrue' /\ PayloadsAreOfPayments'
  BY <1>1, <1>2
     DEF List, WindowEnds, RowIsTrue, TypeOK, RowIsOfAPayment, PayloadsAreOfPayments
<1>4. OnlyCheckoutsExpire' /\ ExpiredIsOver'
  BY <1>1 DEF List, WindowEnds, OnlyCheckoutsExpire, ExpiredIsOver
<1> QED
  BY <1>2, <1>3, <1>4

\* The next invoice: the dates move on, and the last payment was before it.
LEMMA NextInvoiceHolds ==
    ASSUME GatewayInvariant, NextInvoice
    PROVE  GatewayInvariant'
<1> USE DEF GatewayInvariant
<1>1. /\ kind = "subscription" /\ ~Unpaid /\ resolved = {} /\ holding = {}
      /\ UNCHANGED <<kind, resolved, holding, listed, window, asked, type, anchor, last,
                     expires>>
      /\ due' = NextCharge /\ row' = "ABSENT" /\ paidOn' = NoDate
      /\ remote' = [p \in Payment |-> "none"]
      /\ IsDate(due) /\ IsDate(NextCharge)
  BY NextChargeIs DEF NextInvoice, RowIsTrue, TypeOK
<1>2. RowIsTrue' /\ PayloadsAreOfPayments' /\ ~Approved'
  BY <1>1
     DEF RowIsTrue, TypeOK, RowIsOfAPayment, PayloadsAreOfPayments, OnlyCheckoutsExpire, Approved
<1>3. OnlyCheckoutsExpire' /\ ExpiredIsOver'
  BY <1>1 DEF OnlyCheckoutsExpire, ExpiredIsOver
<1>4. IsDate(last) /\ Earlier(last, NextCharge)
  <2>1. last = paidOn /\ paidOn # NoDate
    BY <1>1, PaidRowIsDated
  <2>2. PICK days \in 0 .. MaxDelay : last = Plus(due, days)
    BY <2>1 DEF InvoiceDates
  <2>3. days \in 0 .. 24 /\ days \in 0 .. 27
    OBVIOUS
  <2>4. /\ IsDate(last) /\ last.month \in {due.month, due.month + 1}
        /\ last.month = due.month + 1 => last.day = due.day + days - DaysIn(due.month)
    BY <1>1, <2>2, <2>3, PlusIsDate
  <2>5. /\ due.month \in Nat /\ anchor \in 1 .. 31 /\ MonthsOf(type) \in {1, 6, 12}
        /\ due.day = IF anchor <= DaysIn(due.month) THEN anchor ELSE DaysIn(due.month)
        /\ NextCharge.month = due.month + MonthsOf(type)
        /\ NextCharge.day = IF anchor <= DaysIn(NextCharge.month) THEN anchor
                            ELSE DaysIn(NextCharge.month)
    BY <1>1, NextChargeIs DEF InvoiceDates, IsDate, Date
  <2>6. DaysIn(due.month) \in 28 .. 31 /\ DaysIn(NextCharge.month) \in 28 .. 31
    BY <2>5, DaysInRange
  <2> QED
    BY <2>3, <2>4, <2>5, <2>6 DEF Earlier
<1>5. InvoiceDates'
  <2>1. due' = DayOf(due'.month, anchor)
    BY <1>1, NextChargeIs
  <2> QED
    BY <1>1, <1>2, <1>4, <2>1 DEF InvoiceDates
<1>6. ExpiresAboutThen'
  <2>1. Charged' = Charged
    BY <1>1 DEF Charged
  <2> QED
    BY <1>1, <2>1 DEF ExpiresAboutThen
<1> QED
  BY <1>2, <1>3, <1>5, <1>6

\* What a job reads is of a payment that was approved.
LEMMA ResolveHolds ==
    ASSUME GatewayInvariant, NEW p \in Payment, Resolve(p)
    PROVE  GatewayInvariant'
<1> USE DEF GatewayInvariant
<1>1. UNCHANGED <<kind, remote, row, holding, listed, window, asked, subscription>>
  BY DEF Resolve
<1>2. InvoiceDates' /\ ExpiresAboutThen' /\ Approved' = Approved
  BY <1>1, DatesStay
<1>3. \A payload \in PaymentNotification(p) \cup AuthorizedPaymentNotification(p) :
        /\ Approved
        /\ payload.event \in {"PAYMENT_REFUNDED", "PAYMENT_CHARGEBACK_REQUESTED",
                              IF kind = "checkout" THEN "CHECKOUT_PAID" ELSE "PAYMENT_RECEIVED"}
  <2>1. remote[p] \in RemoteStatus /\ kind \in {"checkout", "subscription"}
    BY DEF RowIsTrue, TypeOK
  <2>2. remote[p] \in {"approved"} \cup Reversed => Approved
    BY DEF Approved
  <2>3. remote[p] \in Reversed =>
          ReversalEvent[remote[p]] \in {"PAYMENT_REFUNDED", "PAYMENT_CHARGEBACK_REQUESTED"}
    BY DEF ReversalEvent
  <2> QED
    BY <2>1, <2>2, <2>3 DEF PaymentNotification, AuthorizedPaymentNotification, Payload
<1>4. RowIsTrue' /\ OnlyCheckoutsExpire' /\ ExpiredIsOver'
  BY <1>1, <1>2 DEF RowIsTrue, TypeOK, RowIsOfAPayment, OnlyCheckoutsExpire, ExpiredIsOver
<1>5. PayloadsAreOfPayments'
  <2>1. PICK payload \in PaymentNotification(p) \cup AuthorizedPaymentNotification(p) :
          resolved' = resolved \cup {payload}
    BY DEF Resolve
  <2> QED
    BY <1>1, <1>2, <1>3, <2>1 DEF PayloadsAreOfPayments
<1> QED
  BY <1>2, <1>4, <1>5

\* Of a payload that is applied: the dates change with the first word that the invoice
\* was paid.
LEMMA ApplyHolds ==
    ASSUME GatewayInvariant, NEW payload \in resolved, Apply(payload)
    PROVE  GatewayInvariant'
<1> USE DEF GatewayInvariant
<1>1. /\ UNCHANGED <<kind, remote, listed, window, asked, type, anchor, due, paidOn>>
      /\ resolved' \subseteq resolved /\ holding' \subseteq holding \cup {payload}
      /\ kind \in {"checkout", "subscription"}
      /\ row \in {"ABSENT", "PENDING", "PAID", "REFUNDED", "EXPIRED"}
      /\ IsDate(due) /\ IsDate(expires)
  BY DEF Apply, CheckoutPaid, Reversal, Received, Holds, Consumed, RowIsTrue, TypeOK
<1>2. /\ Approved /\ Approved' = Approved
      /\ payload.event = "CHECKOUT_PAID" => kind = "checkout"
      /\ payload.event = "PAYMENT_RECEIVED" => kind = "subscription"
  BY <1>1 DEF PayloadsAreOfPayments, Approved
<1>3. PayloadsAreOfPayments'
  BY <1>1, <1>2 DEF PayloadsAreOfPayments
<1>4. \/ row' = row
      \/ Unpaid /\ row' = "PAID" /\ kind = "subscription"
  BY <1>2 DEF Apply, CheckoutPaid, Reversal, Received
<1>12. kind = "subscription" /\ holding' # {} => row' \in {"PAID", "REFUNDED"}
  <2>1. kind = "subscription" => holding' = holding \/ row = "PAID"
    BY <1>2 DEF Apply, CheckoutPaid, Reversal, Received, Holds, Consumed
  <2> QED
    BY <1>4, <2>1 DEF OnlyCheckoutsExpire
<1>5. OnlyCheckoutsExpire' /\ ExpiredIsOver'
  BY <1>1, <1>4, <1>12 DEF OnlyCheckoutsExpire, ExpiredIsOver
<1>6. RowIsOfAPayment'
  BY <1>2 DEF RowIsOfAPayment
<1>7. CASE /\ UNCHANGED <<last, expires>>
           /\ kind = "subscription" => (Unpaid' <=> Unpaid)
  <2>1. RowIsTrue'
    BY <1>1, <1>4, <1>6, <1>7 DEF RowIsTrue, TypeOK
  <2>2. kind = "subscription" => Charged' = Charged
    BY <1>1, <1>7 DEF Charged, NextCharge
  <2>3. InvoiceDates' /\ ExpiresAboutThen'
    BY <1>1, <1>2, <1>7, <2>2 DEF InvoiceDates, ExpiresAboutThen
  <2> QED
    BY <1>3, <1>5, <2>1, <2>3
<1>8. CASE kind = "subscription" /\ Unpaid /\ row' = "PAID" /\ MarkAsPaid
  <2>1. paidOn # NoDate /\ Charged = due
    BY <1>2, <1>8 DEF InvoiceDates, Charged
  <2>2. About(expires, due)
    BY <1>8, <2>1 DEF ExpiresAboutThen, About
  <2>3. IsDate(expires') /\ About(expires', NextCharge)
    BY <1>1, <1>8, <2>1, <2>2, PeriodKeepsNear DEF MarkAsPaid
  <2>4. RowIsTrue'
    BY <1>1, <1>6, <1>8, <2>3 DEF RowIsTrue, TypeOK
  <2>5. InvoiceDates'
    BY <1>1, <1>2, <1>8 DEF InvoiceDates, MarkAsPaid
  <2>6. Charged' = NextCharge
    BY <1>1, <1>8 DEF Charged, NextCharge
  <2>7. ExpiresAboutThen'
    BY <1>1, <2>3, <2>6 DEF ExpiresAboutThen, About
  <2> QED
    BY <1>3, <1>5, <2>4, <2>5, <2>7
<1>9. CASE CheckoutPaid(payload)
  BY <1>2, <1>7, <1>9 DEF CheckoutPaid
<1>10. CASE Reversal(payload)
  BY <1>7, <1>10 DEF Reversal
<1>11. CASE Received(payload)
  <2>1. kind = "subscription"
    BY <1>2, <1>11 DEF Received
  <2>2. CASE Unpaid
    <3>1. last # paidOn
      <4>1. PICK days \in 0 .. MaxDelay : paidOn = Plus(due, days)
        BY <1>2, <2>1 DEF InvoiceDates
      <4>2. days \in 0 .. 27
        OBVIOUS
      <4>3. paidOn # NoDate /\ ~Earlier(paidOn, due)
        BY <1>1, <4>1, <4>2, PlusIsDate, PaidOnADate
      <4> QED
        BY <2>1, <2>2, <4>3 DEF InvoiceDates
    <3> QED
      BY <1>8, <1>11, <2>1, <2>2, <3>1 DEF Received
  <2>3. CASE ~Unpaid
    BY <1>7, <1>11, <2>3 DEF Received
  <2> QED
    BY <2>2, <2>3
<1> QED
  BY <1>9, <1>10, <1>11 DEF Apply

\* A job saves the copy it holds: the payment was approved, and an invoice was paid.
LEMMA JobSavesHolds ==
    ASSUME GatewayInvariant, NEW payload \in holding, JobSaves(payload)
    PROVE  GatewayInvariant'
<1> USE DEF GatewayInvariant
<1>1. /\ UNCHANGED <<kind, remote, listed, window, asked, type, anchor, due, paidOn, last,
                     expires, resolved>>
      /\ holding' \subseteq holding
      /\ row' \in {"PAID", "REFUNDED"}
  BY DEF JobSaves
<1>2. Approved /\ Approved' = Approved
  BY <1>1 DEF PayloadsAreOfPayments, Approved
<1>3. RowIsTrue' /\ PayloadsAreOfPayments'
  BY <1>1, <1>2 DEF RowIsTrue, TypeOK, RowIsOfAPayment, PayloadsAreOfPayments
<1>4. OnlyCheckoutsExpire' /\ ExpiredIsOver'
  BY <1>1 DEF OnlyCheckoutsExpire, ExpiredIsOver
<1>5. kind = "subscription" => ~Unpaid /\ ~Unpaid'
  BY <1>1 DEF OnlyCheckoutsExpire
<1>6. kind = "subscription" => Charged' = Charged
  BY <1>1, <1>5 DEF Charged, NextCharge
<1>7. InvoiceDates'
  BY <1>1, <1>2, <1>5 DEF InvoiceDates
<1>8. ExpiresAboutThen'
  BY <1>1, <1>6 DEF ExpiresAboutThen
<1> QED
  BY <1>3, <1>4, <1>7, <1>8

\* The cron says that a checkout is paid or over only if it is.
LEMMA SyncHolds ==
    ASSUME GatewayInvariant, SyncLists \/ SyncAsks \/ SyncSaves
    PROVE  GatewayInvariant'
<1> USE DEF GatewayInvariant
<1>1. UNCHANGED <<kind, remote, listed, window, resolved, holding, subscription>> /\ kind = "checkout"
  BY DEF SyncLists, SyncAsks, SyncSaves, OnlyCheckoutsExpire
<1>2. InvoiceDates' /\ ExpiresAboutThen' /\ Approved' = Approved
  <2>1. Approved' = Approved
    BY <1>1 DEF Approved
  <2> QED
    BY <1>1, <2>1 DEF InvoiceDates, ExpiresAboutThen
<1>3. PayloadsAreOfPayments'
  BY <1>1, <1>2 DEF PayloadsAreOfPayments
<1>6. CASE SyncLists
  <2>1. row' = row /\ asked' = "listed"
    BY <1>6 DEF SyncLists
  <2>2. RowIsTrue'
    BY <1>1, <1>2, <2>1 DEF RowIsTrue, TypeOK, RowIsOfAPayment
  <2>3. OnlyCheckoutsExpire' /\ ExpiredIsOver'
    BY <1>1, <2>1 DEF OnlyCheckoutsExpire, ExpiredIsOver
  <2> QED
    BY <1>2, <1>3, <2>2, <2>3
<1>4. CASE SyncAsks
  <2>1. /\ row' = row /\ asked' \in {"none", "PAID", "EXPIRED"}
        /\ asked' = "PAID" => \E p \in listed : remote[p] = "approved"
        /\ asked' = "EXPIRED" =>
             /\ window = "over"
             /\ \A p \in listed : remote[p] \notin Unsettled \cup {"approved"}
    BY <1>4 DEF SyncAsks, ResolveCheckoutStatus
  <2>2. listed \subseteq Payment /\ remote \in [Payment -> RemoteStatus]
    BY DEF RowIsTrue, TypeOK
  <2>3. asked' = "PAID" => Approved
    BY <2>1, <2>2 DEF Approved
  <2>4. RowIsTrue'
    BY <1>1, <1>2, <2>1, <2>3 DEF RowIsTrue, TypeOK, RowIsOfAPayment
  <2>5. OnlyCheckoutsExpire'
    BY <1>1, <2>1 DEF OnlyCheckoutsExpire
  <2>6. ExpiredIsOver'
    BY <1>1, <2>1, <2>2 DEF OnlyCheckoutsExpire, ExpiredIsOver
  <2> QED
    BY <1>2, <1>3, <2>4, <2>5, <2>6
<1>5. CASE SyncSaves
  <2>1. row' = asked /\ asked \in {"PAID", "EXPIRED"} /\ asked' = "none"
    BY <1>5 DEF SyncSaves
  <2>2. RowIsTrue'
    BY <1>1, <1>2, <2>1 DEF RowIsTrue, TypeOK, RowIsOfAPayment
  <2>3. OnlyCheckoutsExpire' /\ ExpiredIsOver'
    BY <1>1, <2>1 DEF OnlyCheckoutsExpire, ExpiredIsOver
  <2> QED
    BY <1>2, <1>3, <2>2, <2>3
<1> QED
  BY <1>4, <1>5, <1>6

\* The invariant the others follow from: row, payloads under way, window and dates
\* agree in every reachable state.
THEOREM GatewayHolds == Spec => []GatewayInvariant
<1>1. GatewayInvariant /\ UNCHANGED vars => GatewayInvariant'
  BY DEF vars, GatewayInvariant, RowIsTrue, TypeOK, RowIsOfAPayment, PayloadsAreOfPayments,
         OnlyCheckoutsExpire, ExpiredIsOver, InvoiceDates, ExpiresAboutThen, Charged,
         NextCharge, Approved
<1>2. GatewayInvariant /\ [Next]_vars => GatewayInvariant'
  BY <1>1, MoveHolds, WindowHolds, NextInvoiceHolds, ResolveHolds, ApplyHolds,
     JobSavesHolds, SyncHolds
     DEF Next
<1> QED
  BY InitHolds, <1>2, PTL DEF Spec

\* A row is paid or refunded only by a payment that was approved.
THEOREM RowsAreTrue == Spec => []RowIsTrue
<1>1. GatewayInvariant => RowIsTrue
  BY DEF GatewayInvariant
<1> QED
  BY GatewayHolds, <1>1, PTL

\* A checkout expires only when nothing can be paid for it any more.
THEOREM ExpiredIsUnpayable == Spec => []ExpiredIsOver
<1>1. GatewayInvariant => ExpiredIsOver
  BY DEF GatewayInvariant
<1> QED
  BY GatewayHolds, <1>1, PTL

\* For ever, what is paid for ends when the next charge is due, give or take three days
\* and the delay of a payment.
THEOREM ExpiryFollowsTheCharge == Spec => []ExpiresNearTheCharge
<1>1. GatewayInvariant => ExpiresNearTheCharge
  <2> SUFFICES ASSUME GatewayInvariant, kind = "subscription", row \in {"PAID", "REFUNDED"}
               PROVE  /\ ~Earlier(Plus(expires, 3), NextCharge)
                      /\ ~Earlier(Plus(NextCharge, MaxDelay + 3), expires)
    BY DEF ExpiresNearTheCharge
  <2>1. InvoiceDates /\ IsDate(due) /\ IsDate(expires) /\ About(expires, NextCharge)
    BY DEF GatewayInvariant, RowIsTrue, TypeOK, ExpiresAboutThen, Charged, About
  <2> QED
    BY <2>1, AboutIsNear DEF About
<1> QED
  BY GatewayHolds, <1>1, PTL

\* A refund nobody holds a copy against is there for good.
THEOREM RefundsStay == Spec => RefundStays
<1> DEFINE Stays == (row' = "REFUNDED" /\ NoCopy') \/ row' = "ABSENT"
<1>1. ASSUME row = "REFUNDED", NoCopy, [Next]_vars
      PROVE  Stays
  <2> USE DEF NoCopy
  <2>1. CASE UNCHANGED vars
    BY <1>1, <2>1 DEF vars
  <2>2. CASE NextInvoice
    BY <2>2 DEF NextInvoice
  <2>3. ASSUME NEW p \in Payment, Move(p) \/ List(p) \/ Resolve(p)
        PROVE  Stays
    BY <1>1, <2>3 DEF Move, List, Resolve
  <2>4. CASE WindowEnds \/ SyncLists \/ SyncAsks \/ SyncSaves
    BY <1>1, <2>4 DEF WindowEnds, SyncLists, SyncAsks, SyncSaves
  <2>5. ASSUME NEW payload \in resolved, Apply(payload)
        PROVE  Stays
    BY <1>1, <2>5 DEF Apply, CheckoutPaid, Reversal, Received, Consumed, Holds
  <2>6. ASSUME NEW payload \in holding, JobSaves(payload)
        PROVE  Stays
    BY <1>1, <2>6 DEF JobSaves
  <2> QED
    BY <1>1, <2>1, <2>2, <2>3, <2>4, <2>5, <2>6 DEF Next
<1>2. [Next]_vars => [row = "REFUNDED" /\ NoCopy => Stays]_vars
  BY <1>1
<1> QED
  BY <1>2, PTL DEF Spec, RefundStays
=============================================================================
