------------------------------- MODULE Contracts -------------------------------
(***************************************************************************)
(* Which futures contract is traded on a day: the three calculations of    *)
(* src/common/futures_code.py, src/collector/historical/futures.py and     *)
(* src/collector/tick_collector.py, which do not know each other; and the  *)
(* days of trading of src/collector/historical/calendar.py.                *)
(*                                                                         *)
(* A day is a number of days since 2000, and a contract the month of its   *)
(* expiry, a number of months since the year 0.  A code is a year's last   *)
(* digit and a month; the prefix of the product is left out.               *)
(***************************************************************************)
EXTENDS Integers, FiniteSetsExt

CONSTANTS FirstYear, LastYear   \* bounds: the years the calendar runs through

ASSUME ContractsAssumption ==
    /\ {FirstYear, LastYear} \subseteq 2000..2098 /\ FirstYear \leq LastYear

VARIABLES
    date,       \* the day it is
    month       \* the month it is in

contractVars == <<date, month>>

-----------------------------------------------------------------------------
(* datetime and calendar of Python                                         *)
YearOf(n) == n \div 12
MonthOf(n) == (n % 12) + 1
MonthNumber(y, m) == 12 * y + m - 1

LeapYear(y) == y % 4 = 0
DaysBefore == <<0, 31, 59, 90, 120, 151, 181, 212, 243, 273, 304, 334>>
FirstOf(n) ==
    LET y == YearOf(n) - 2000
    IN  365 * y + (y + 3) \div 4 + DaysBefore[MonthOf(n)]
          + (IF LeapYear(y) /\ MonthOf(n) > 2 THEN 1 ELSE 0)
Weekday(d) == (d + 5) % 7       \* Monday is 0; 2000 began on a Saturday

-----------------------------------------------------------------------------
(* futures_code.py                                                         *)

(* The way to Thursday taken without the modulus.                          *)
SecondThursdayBack(n) == FirstOf(n) + (3 - Weekday(FirstOf(n))) + 7

SecondThursday(n) ==
    FirstOf(n) + ((3 - Weekday(FirstOf(n))) % 7) + 7

(* The months of this year and the next, in order.                         *)
Candidates == LET y == YearOf(month) IN MonthNumber(y, 1)..MonthNumber(y + 1, 12)
FrontMonth == Min({n \in Candidates : SecondThursday(n) >= date})
BackMonth  == Min({n \in Candidates : n > FrontMonth})

(* is_valid_futures_code() of a KRX code, which has two digits of the year. *)
KrxCode(n) == <<YearOf(n) % 100, MonthOf(n)>>
ValidCode(code) == SecondThursday(MonthNumber(2000 + code[1], code[2])) >= date

(* days_to_expiry of get_current_futures_info()                            *)
DaysToExpiry(n) == SecondThursday(n) - date

-----------------------------------------------------------------------------
(* calendar.py                                                             *)

DayOf(y, m, d) == FirstOf(MonthNumber(y, m)) + d - 1

(* KOREAN_HOLIDAYS: month and day, of three years.                         *)
HolidaysOf ==
    [y \in 2024..2026 |->
        CASE y = 2024 -> {<<1, 1>>, <<2, 9>>, <<2, 10>>, <<2, 11>>, <<2, 12>>, <<3, 1>>,
                          <<4, 10>>, <<5, 5>>, <<5, 6>>, <<5, 15>>, <<6, 6>>, <<8, 15>>,
                          <<9, 16>>, <<9, 17>>, <<9, 18>>, <<10, 3>>, <<10, 9>>, <<12, 25>>}
          [] y = 2025 -> {<<1, 1>>, <<1, 28>>, <<1, 29>>, <<1, 30>>, <<3, 1>>, <<3, 3>>,
                          <<5, 5>>, <<5, 6>>, <<6, 6>>, <<8, 15>>, <<10, 3>>, <<10, 5>>,
                          <<10, 6>>, <<10, 7>>, <<10, 8>>, <<10, 9>>, <<12, 25>>}
          [] y = 2026 -> {<<1, 1>>, <<2, 16>>, <<2, 17>>, <<2, 18>>, <<3, 1>>, <<3, 2>>,
                          <<5, 5>>, <<5, 24>>, <<6, 6>>, <<8, 15>>, <<9, 24>>, <<9, 25>>,
                          <<9, 26>>, <<10, 3>>, <<10, 9>>, <<12, 25>>}]
Holidays == UNION {{DayOf(y, h[1], h[2]) : h \in HolidaysOf[y]} : y \in DOMAIN HolidaysOf}

TradingDay(d) == Weekday(d) < 5 /\ d \notin Holidays

(* _get_weekdays_with_holidays()                                           *)
WeekdaysOf(n) == {d \in FirstOf(n)..FirstOf(n + 1) - 1 : TradingDay(d)}

(* get_trading_days_range() goes from the month first of the start to the  *)
(* month last of the end.                                                  *)
TradingDaysIn(start, first, end, last) ==
    UNION {WeekdaysOf(n) \cap start..end : n \in first..last}

(* get_past_trading_days()                                                 *)
PastTradingDays(days) ==
    LET start == date - days
        first == Max({n \in month - days..month : FirstOf(n) \leq start})
    IN  TradingDaysIn(start, first, date, month)

-----------------------------------------------------------------------------
(* historical/futures.py                                                   *)

ExpiryDate(n) ==
    LET first == Weekday(FirstOf(n))
        thursday == IF first \leq 3 THEN 3 - first ELSE 7 - first + 3
    IN  FirstOf(n) + thursday + 7

ListingMonths == 6
ListingStart(n) == FirstOf(n - ListingMonths)

ActiveMonths == {n \in month..month + 11 : date \leq ExpiryDate(n)}

(* get_all_codes_in_range() for days in the months first and last.         *)
MonthsInRange(start, first, end, last) ==
    {n \in first - 1..last + 12 : ListingStart(n) \leq end /\ ExpiryDate(n) >= start}

MakeCode(n) == <<YearOf(n) % 10, MonthOf(n)>>
ParseCode(code) == MonthNumber(2020 + code[1], code[2])

-----------------------------------------------------------------------------
(* tick_collector.py: get_current_futures_code().                          *)
DayOfMonth == date - FirstOf(month) + 1
RoughFront == IF DayOfMonth > 15 THEN month + 1 ELSE month

-----------------------------------------------------------------------------
ContractsInit ==
    /\ month = MonthNumber(FirstYear, 1)
    /\ date = FirstOf(month)

Midnight ==
    /\ date + 1 < FirstOf(MonthNumber(LastYear + 1, 1))
    /\ date' = date + 1
    /\ month' = IF date' = FirstOf(month + 1) THEN month + 1 ELSE month

ContractsSpec == ContractsInit /\ [][Midnight]_contractVars

-----------------------------------------------------------------------------
(* Properties                                                              *)

(* On every day the real-time and the historical side agree on the front   *)
(* and the back month, at the end of a year too, and on the contracts that *)
(* were listed.                                                            *)
SameContracts ==
    /\ FrontMonth = Min(ActiveMonths)
    /\ BackMonth = Min(ActiveMonths \ {FrontMonth})
    /\ LET listed == MonthsInRange(date, month, date, month)
       IN  FrontMonth \in listed /\ listed \subseteq ActiveMonths

(* The collector's rough calculation errs only in the days after an expiry *)
(* until the 15th, when it still names the contract that has expired.      *)
RoughAtMostExpired ==
    RoughFront # FrontMonth =>
        /\ RoughFront = FrontMonth - 1
        /\ SecondThursday(month) < date /\ DayOfMonth \leq 15

(* The legacy codes of the front month, and of every month after it that   *)
(* is listed, are each read back as their own month, in the twenties.      *)
(* ("A05601" is such a code, of January 2026: that it always means the     *)
(* nearest contract, as KIS_SHORT_CODES says, is left to KIS.)             *)
CodesOfTheirMonth ==
    \A n \in ActiveMonths : YearOf(n) \in 2020..2029 => ParseCode(MakeCode(n)) = n

(* The KRX codes that are valid are those of the front month and later,    *)
(* and the next two expiries are at most five and ten weeks away.          *)
ValidFromFront ==
    /\ \A n \in Candidates : ValidCode(KrxCode(n)) <=> n >= FrontMonth
    /\ DaysToExpiry(FrontMonth) \in 0..34 /\ DaysToExpiry(BackMonth) \in 28..69

(* Going back over months and years leaves no day of trading out and adds  *)
(* none.  An expiry may be put on a day without trading, as the codes know *)
(* no holidays: of the years here that of October 2025 alone.              *)
CalendarSound ==
    /\ \A days \in {0, 7, 40} :
          PastTradingDays(days) = {d \in date - days..date : TradingDay(d)}
    /\ ~TradingDay(SecondThursday(month)) => month = MonthNumber(2025, 10)

ContractsAgree ==
    SameContracts /\ RoughAtMostExpired /\ CodesOfTheirMonth /\ ValidFromFront /\ CalendarSound
=============================================================================
