----------------------------- MODULE Forecasting ----------------------------
(***************************************************************************)
(* The demand forecast of one product: which days of its history are used, *)
(* the pattern of its demand, and the models that may be chosen.           *)
(*                                                                         *)
(* A number is a fraction <<numerator, denominator>>, so that every model  *)
(* is exact.  The backtest picks one of the candidates of the pattern and  *)
(* is left out: what is asked here holds for each of them.                 *)
(***************************************************************************)
EXTENDS Integers, FiniteSetsExt, SequencesExt

CONSTANTS
    HistoryDays,    \* days of the window: 365 in the code
    MaxSold,        \* bound on the units of a day
    MinObserved,    \* observed days that make availability reliable: 14
    ShortMean,      \* days of mean30
    CycleDays       \* days of a week

ASSUME ForecastAssumption ==
    /\ HistoryDays \in Nat \ {0} /\ MaxSold \in Nat \ {0}
    /\ MinObserved \in Nat \ {0} /\ ShortMean \in Nat \ {0} /\ CycleDays \in Nat \ {0}

VARIABLES
    sold,         \* units of each day
    seen,         \* product_daily_availability: in stock, out of it, or not observed
    introduced    \* the first day of the product, as its profile says

historyVars == <<sold, seen, introduced>>

Window == 1 .. HistoryDays

HistoryInit ==
    /\ sold \in [Window -> 0 .. MaxSold]
    /\ seen \in [Window -> {"in", "out", "unseen"}]
    /\ introduced \in Window

\* A forecast writes nothing of the history it reads.
ForecastSpec == HistoryInit /\ [][FALSE]_historyVars

----------------------------------------------------------------------------
(* The days of the training series.                                        *)

CalendarDates == introduced .. HistoryDays
Observed == {d \in CalendarDates : seen[d] # "unseen"}
Reliable ==
    /\ Cardinality(Observed) >= MinObserved
    /\ 2 * Cardinality(Observed) >= Cardinality(CalendarDates)

\* Mutant of Trained: days without stock are left out although something was sold.
TrainedInStock(d) == ~ Reliable \/ seen[d] # "out"

Trained(d) == ~ Reliable \/ seen[d] # "out" \/ sold[d] > 0

\* A product whose days were all left out is trained on all of them.
TrainingSet ==
    LET kept == {d \in CalendarDates : Trained(d)}
    IN  IF kept = {} THEN CalendarDates ELSE kept

\* They are used in the order of the calendar: the i-th has i - 1 before it.
TrainingDays ==
    LET kept == TrainingSet
    IN  [i \in 1 .. Cardinality(kept) |->
            CHOOSE d \in kept : Cardinality({e \in kept : e < d}) = i - 1]

Series == LET days == TrainingDays IN [i \in DOMAIN days |-> sold[days[i]]]

----------------------------------------------------------------------------
(* The pattern: how often it sells and how much the sales vary.            *)

SeriesTotal(series) == MapThenSumSet(LAMBDA i : series[i], DOMAIN series)
Sales(series) == {i \in DOMAIN series : series[i] > 0}

\* adi <= 1.32 and cv2 <= 0.49, with the variance over the square of the mean.
Frequent(series) == 100 * Len(series) <= 132 * Cardinality(Sales(series))
Steady(series) ==
    LET total == SeriesTotal(series)
        squares == SeriesTotal([i \in DOMAIN series |-> series[i] * series[i]])
    IN  100 * (Cardinality(Sales(series)) * squares - total * total) <= 49 * total * total

Xyz(series) ==
    IF Frequent(series) /\ Steady(series) THEN "X"
    ELSE IF ~ Frequent(series) /\ ~ Steady(series) THEN "Z"
    ELSE "Y"

Candidates(series) ==
    IF Xyz(series) = "X" THEN {"mean30", "ewma", "weekday"} ELSE {"croston_sba", "tsb", "mean90"}

----------------------------------------------------------------------------
(* The models.                                                             *)

Plus(x, y) == <<x[1] * y[2] + y[1] * x[2], x[2] * y[2]>>
Times(x, y) == <<x[1] * y[1], x[2] * y[2]>>
AtMost(x, y) == x[1] * y[2] <= y[1] * x[2]
Unit == <<1, 1>>
Zero == <<0, 1>>

\* alpha * new + (1 - alpha) * old, for alpha = n / d.
Smooth(n, d, new, old) == Plus(Times(<<n, d>>, new), Times(<<d - n, d>>, old))

\* The mean of the days at the positions I of a series.
Mean(series, I) ==
    IF I = {} THEN Zero ELSE <<MapThenSumSet(LAMBDA i : series[i], I), Cardinality(I)>>

Recent(series, k) == {i \in DOMAIN series : i > Len(series) - k}

Ewma(series) ==
    FoldLeft(LAMBDA level, x : Smooth(3, 10, <<x, 1>>, level), <<Head(series), 1>>, Tail(series))

\* The mean of twelve weeks, over the day of the week after the last one of training.
Weekday(series) ==
    LET days == TrainingDays
        target == (Last(days) + 1) % CycleDays
    IN  Mean(series, {i \in Recent(series, 12 * CycleDays) : days[i] % CycleDays = target})

\* Demand and interval are smoothed on the days that sell, apart; the first one starts them.
CrostonStep(state, x) ==
    LET gap == state.gap + 1 IN
    IF x = 0 THEN [state EXCEPT !.gap = gap]
    ELSE IF ~ state.started
    THEN [demand |-> <<x, 1>>, interval |-> <<gap, 1>>, gap |-> 0, started |-> TRUE]
    ELSE [demand |-> Smooth(1, 5, <<x, 1>>, state.demand),
          interval |-> Smooth(1, 5, <<gap, 1>>, state.interval), gap |-> 0, started |-> TRUE]

Croston(series) ==
    LET end == FoldLeft(CrostonStep, [demand |-> Zero, interval |-> Unit, gap |-> 0, started |-> FALSE],
                        series)
    IN  IF ~ end.started THEN Zero
        ELSE Times(<<9, 10>>, Times(end.demand, <<end.interval[2], end.interval[1]>>))

TsbStep(state, x) ==
    [probability |-> Smooth(1, 5, IF x > 0 THEN Unit ELSE Zero, state.probability),
     demand |-> IF x > 0 THEN Smooth(1, 5, <<x, 1>>, state.demand) ELSE state.demand]

Tsb(series) ==
    LET end == FoldLeft(TsbStep,
                        [probability |-> IF Head(series) > 0 THEN Unit ELSE Zero,
                         demand |-> <<Head(series), 1>>], Tail(series))
    IN  Times(end.probability, end.demand)

ForecastValue(name, series) ==
    CASE name = "mean30" -> Mean(series, Recent(series, ShortMean))
      [] name = "mean90" -> Mean(series, Recent(series, 3 * ShortMean))
      [] name = "ewma" -> Ewma(series)
      [] name = "weekday" -> Weekday(series)
      [] name = "croston_sba" -> Croston(series)
      [] name = "tsb" -> Tsb(series)

----------------------------------------------------------------------------
\* No sale of the window is lost: a day without stock that sold something is trained on, and
\* a product that never sold is told from one whose days were left out (_forecast_products).
SalesAreTrained ==
    /\ SeriesTotal(Series) = SeriesTotal([i \in 1 .. Cardinality(CalendarDates) |-> sold[introduced + i - 1]])
    /\ Series # <<>>

\* Whatever the pattern, every model that may be chosen stays between nothing and the best
\* day of the history (_forecast_value, _croston, _tsb).
ForecastIsInRange ==
    LET series == Series IN
    SeriesTotal(series) > 0 =>
        \A name \in Candidates(series) :
            LET value == ForecastValue(name, series) IN
            /\ AtMost(Zero, value)
            /\ \E i \in DOMAIN series : AtMost(value, <<series[i], 1>>)

\* A forecast sees every sale and stays among them.
ForecastIsSound == SalesAreTrained /\ ForecastIsInRange
=============================================================================
