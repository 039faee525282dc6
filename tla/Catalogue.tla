------------------------------ MODULE Catalogue ------------------------------
(***************************************************************************)
(* The product catalogue (products.py) and what CloudPayments sells and    *)
(* honours from it: an entry of PRODUCTS as it was configured, the         *)
(* checkout that offers it, and the payments that follow, each paid before *)
(* the term bought so far is over.                                         *)
(*                                                                         *)
(* A date is a month, counted from January of Year0, and a day of it.      *)
(***************************************************************************)
EXTENDS Integers, FiniteSets

CONSTANTS Entries,      \* configured entries: [kind, credits, channels, period]
          StartDates,   \* days of the first payment
          Year0,
          MaxPaid       \* bound on payments

VARIABLES entry,   \* the configured entry
          link,    \* checkout has made a payment link
          begun,   \* the day of the first payment
          until,   \* expires_at
          paid,    \* payments so far
          credited

catalogueVars == <<entry, link, begun, until, paid, credited>>

NoDate == [month |-> -1, day |-> 0]
NoPeriod == <<>>
Channels == {"apple_storekit", "adapty", "cloudpayments"}

-----------------------------------------------------------------------------
(* add_period.                                                             *)

IsLeap(y) == y % 4 = 0 /\ (y % 100 /= 0 \/ y % 400 = 0)

\* calendar.monthrange
MonthDays(m) ==
    LET month == (m % 12) + 1 IN
    CASE month \in {4, 6, 9, 11} -> 30
      [] month = 2 -> IF IsLeap(Year0 + (m \div 12)) THEN 29 ELSE 28
      [] OTHER -> 31

\* A date that exists.
IsDate(d) == /\ d \in [month: Nat, day: 1..31]
             /\ d.day <= MonthDays(d.month)

ASSUME CatalogueAssumption ==
    /\ {Year0, MaxPaid} \subseteq Nat
    \* _PERIOD_RE: a positive number of days, weeks, months or years
    /\ \A e \in Entries :
          /\ e.credits \in Int
          /\ e.period \in {NoPeriod, <<"bad">>} \cup
                           ((Nat \ {0}) \X {"D", "W", "M", "Y"})
    /\ \A d \in StartDates : IsDate(d)

DaysBefore[m \in Nat] ==
    IF m = 0 THEN 0 ELSE DaysBefore[m - 1] + MonthDays(m - 1)
DayNumber(date) == DaysBefore[date.month] + date.day

AddDays(date, n) ==
    LET number == DayNumber(date) + n
        month == CHOOSE m \in 0..number :
                     DaysBefore[m] < number /\ number <= DaysBefore[m + 1]
    IN [month |-> month, day |-> number - DaysBefore[month]]

\* Variant: a month is thirty days.
AddThirtyDays(date, period) ==
    LET n == period[1] IN
    CASE period[2] = "D" -> AddDays(date, n)
      [] period[2] = "W" -> AddDays(date, 7 * n)
      [] period[2] = "M" -> AddDays(date, 30 * n)
      [] period[2] = "Y" -> AddDays(date, 365 * n)

AddPeriod(date, period) ==
    LET n == period[1]
        AddMonths(k) ==
            LET m == date.month + k IN
            [month |-> m,
             day |-> IF date.day < MonthDays(m) THEN date.day ELSE MonthDays(m)]
    IN CASE period[2] = "D" -> AddDays(date, n)
         [] period[2] = "W" -> AddDays(date, 7 * n)
         [] period[2] = "M" -> AddMonths(n)
         [] period[2] = "Y" -> AddMonths(12 * n)

-----------------------------------------------------------------------------
(* parse_products, checkout and the payment.                               *)

\* parse_products() keeps an entry only if all of it is valid.  "bad" stands
\* for a value of the wrong type or form.
Valid(e) ==
    /\ e.kind \in {"subscription", "tokens"}
    /\ e.credits > 0
    /\ e.channels /= {} /\ e.channels \subseteq Channels
    /\ e.period /= <<"bad">>
    /\ e.kind = "subscription" /\ "cloudpayments" \in e.channels =>
           e.period /= NoPeriod

\* credits_for(): nothing for a product that is unknown or not sold here.
CreditsFor(e, channel) ==
    IF Valid(e) /\ channel \in e.channels THEN e.credits ELSE 0

\* validate() of checkout.
Checkout ==
    /\ ~link
    /\ Valid(entry) /\ "cloudpayments" \in entry.channels
    /\ link' = TRUE
    /\ UNCHANGED <<entry, begun, until, paid, credited>>

\* A payment on the link: _apply_payment() credits it, and the term of a
\* subscription starts where the paid time ends.
Pay ==
    /\ link
    /\ paid < MaxPaid
    /\ paid' = paid + 1
    /\ credited' = credited + CreditsFor(entry, "cloudpayments")
    /\ until' = IF entry.kind = "subscription"
                  THEN AddPeriod(IF until = NoDate THEN begun ELSE until,
                                 entry.period)
                  ELSE until
    /\ UNCHANGED <<entry, link, begun>>

CatalogueInit ==
    /\ entry \in Entries
    /\ begun \in StartDates
    /\ link = FALSE
    /\ until = NoDate
    /\ paid = 0
    /\ credited = 0

CatalogueNext == Checkout \/ Pay

CatalogueSpec == CatalogueInit /\ [][CatalogueNext]_catalogueVars

(***************************************************************************)
(* What checkout sells is honoured: every payment on a link is credited,   *)
(* and the term of a monthly or yearly plan is that many calendar months:  *)
(* it ends in the month it should, on a day that exists, on the day of the *)
(* first payment or on one of the last days of a shorter month; however    *)
(* often it is renewed, no more than three days are lost in all.  A plan   *)
(* in days or weeks lasts exactly that many.                               *)
(***************************************************************************)
SoldIsHonoured ==
    LET n == entry.period[1] * paid
        Unit == entry.period[2] IN
    paid > 0 =>
        /\ credited > 0 /\ credited = paid * entry.credits
        /\ entry.kind = "subscription" =>
              /\ until.day \in 1..MonthDays(until.month)
              /\ Unit \in {"M", "Y"} =>
                    /\ until.month - begun.month =
                           (IF Unit = "M" THEN n ELSE 12 * n)
                    /\ until.day <= begun.day
                    /\ until.day >= begun.day - 3
              /\ Unit \in {"D", "W"} =>
                    DayNumber(until) - DayNumber(begun) =
                        (IF Unit = "D" THEN n ELSE 7 * n)

=============================================================================
