------------------------ MODULE BenchmarkDataCollector ------------------------
(***************************************************************************)
(* analyzer::BenchmarkDataCollector: the total report of a sequence of     *)
(* order plan reports [status, buy, sold, start, duration].  A profit is   *)
(* the multiplier sold / buy * (1 - fee)^2; to keep it whole it is counted *)
(* in parts of One, Unit being a number that every price divides.          *)
(***************************************************************************)
EXTENDS Selection, SequencesExt, FiniteSetsExt

CONSTANT Unit

Statuses == {"kOk", "kFailedToProfitSell", "kFailedToBuy", "kPlanExpired"}

\* (1 - kPlatformFee)^2, which is 0.9985005625, taken as 0.9985: with prices as
\* small as the models' both tell the same gains from the same losses.
NetOfFees == 9985
One == 10000 * Unit

\* An average stays a fraction.
CalculateAverage(numbers) == [sum |-> Total(numbers), of |-> Len(numbers)]

\* Twice the median: the durations' is halved to a whole number, the profits'
\* is not.
CalculateMedian(numbers) ==
  LET n == Len(numbers)
      sorted == SortSeq(numbers, <)
  IN  IF n % 2 = 0 THEN sorted[n \div 2] + sorted[n \div 2 + 1] ELSE 2 * sorted[n \div 2 + 1]

WasExecuted(report) == report.status \notin {"kPlanExpired", "kFailedToBuy"}
Executed(reports) == Select(reports, WasExecuted)

Profit(report) == report.sold * (Unit \div report.buy) * NetOfFees
Profits(reports) == [k \in DOMAIN Executed(reports) |-> Profit(Executed(reports)[k])]

IsGain(profit) == profit >= One
IsLoss(profit) == profit < One
Gains(reports) == Select(Profits(reports), IsGain)
Looses(reports) == Select(Profits(reports), IsLoss)

WithStatus(reports, status) ==
  LET HasStatus(report) == report.status = status IN Select(reports, HasStatus)

\* The days from the first to the last plan of a status.
DaysCount(counted) == Last(counted).start - Head(counted).start

\* The two checks that end the program: an executed plan without a buy price,
\* a status whose last plan started before its first.
ReportExits(reports) ==
  \/ \E k \in DOMAIN Executed(reports) : Executed(reports)[k].buy <= 0
  \/ \E status \in Statuses :
       LET counted == WithStatus(reports, status)
       IN  counted # <<>> /\ DaysCount(counted) < 0

\* An average and a median are given of what there is.
Statistics(numbers) ==
  IF numbers = <<>> THEN <<>>
  ELSE <<[average |-> CalculateAverage(numbers), median |-> CalculateMedian(numbers)]>>

\* All statistics are of the reports as they came, but for the medians.  Left out
\* are the error logged when there is no report at all, and how many plans of a
\* status there were in a day, their count over DaysCount.
GetTotalReport(reports) ==
  [profit |-> Statistics(Profits(reports)),
   gain |-> Statistics(Gains(reports)),
   lose |-> Statistics(Looses(reports)),
   duration |-> Statistics([k \in DOMAIN reports |-> reports[k].duration]),
   total_count |-> [status \in Statuses |-> Len(WithStatus(reports, status))]]

-----------------------------------------------------------------------------
(* What the statistics are, over all short sequences of small numbers.     *)

MaxNumbers == 4
SmallNumbers == 0..3

\* At least half of the numbers are not above the median, and as many are not
\* below it; the average lies between the least and the greatest of them
\* (benchmark_data_collector.h:47-61).
ASSUME StatisticsAreSound ==
  \A n \in 1..MaxNumbers : \A numbers \in [1..n -> SmallNumbers] :
    LET median == CalculateMedian(numbers)
        average == CalculateAverage(numbers)
        least == Min(ToSet(numbers))
        greatest == Max(ToSet(numbers))
    IN  /\ 2 * Cardinality({k \in 1..n : 2 * numbers[k] <= median}) >= n
        /\ 2 * Cardinality({k \in 1..n : 2 * numbers[k] >= median}) >= n
        /\ least * average.of <= average.sum
        /\ average.sum <= greatest * average.of

=============================================================================
