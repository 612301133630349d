------------------------------- MODULE Health -------------------------------
(* What the health models (analysis/health/models.py) take from one trip:    *)
(* the figures of a cold start, and where each residual of a control loop    *)
(* is filed.  The trip is looked at after every sample, as if it had ended   *)
(* there, because where a trip ends must not make a figure.                  *)
EXTENDS Report

CONSTANTS ColdStart, Marks,      \* cold_start_max_c, warmup_targets_c
          RampMark, LagMark,     \* 80 and 60 degrees
          Half,                  \* steady_window_s
          Lookup,                \* pairing_for(actual, "rpm").max_age_s
          MinContext,            \* steady_min_context_samples
          Spread,                \* steady_rpm_range, steady_pedal_range_pct
          Bins,                  \* rpm_bins, demand_bins_pct
          Readings,              \* what a channel may read
          MaxTs                  \* bound

VARIABLE trip   \* TripData.series

WarmChannels == {"coolant", "oil"}
Context == {"rpm", "demand"}
LoopChannels == {"act", "set"} \cup Context

\* What is steady includes both reads of a pair, and the sample that names the
\* band (contract.py:101, alignment.py:89-103).
ASSUME HealthAssumption ==
  /\ {Half, Lookup, MaxTs} \subseteq Nat
  /\ Tolerance <= Half /\ Lookup <= Half
  /\ \A key \in WarmChannels \cup LoopChannels : Readings[key] \subseteq Int
  /\ \A key \in Context : Spread[key] \in Int /\ Bins[key] \subseteq Int \X Int

SeriesOf(key) == IF key \in DOMAIN trip THEN trip[key] ELSE <<>>

-----------------------------------------------------------------------------
(* A trip goes on *)

HealthInit == trip \in {[key \in K |-> <<>>] : K \in {WarmChannels, LoopChannels}}

Latest == UNION {{trip[key][i].ts : i \in DOMAIN trip[key]} : key \in DOMAIN trip}

ReadOn ==
  \E key \in DOMAIN trip, ts \in 0..MaxTs : \E value \in Readings[key] :
    /\ \A t \in Latest : t <= ts
    /\ trip[key] # <<>> => Last(trip[key]).ts < ts
    /\ trip' = [trip EXCEPT ![key] = Append(@, [ts |-> ts, value |-> value])]

HealthSpec == HealthInit /\ [][ReadOn]_trip

-----------------------------------------------------------------------------
(* _warmup_trip() *)

\* first_crossing()
FirstCrossing(series, mark) ==
  LET hot == {i \in DOMAIN series : series[i].value >= mark}
  IN IF hot = {} THEN Unsaid ELSE Min(hot)

\* least_squares_slope(), as a fraction.
LeastSquares(points) ==
  LET Sum(Of(_)) == MapThenSumSet(LAMBDA i : Of(points[i]), DOMAIN points)
      n == Len(points)
      x == Sum(LAMBDA p : p.ts)
      below == n * Sum(LAMBDA p : p.ts * p.ts) - x * x
  IN IF below = 0 THEN Unsaid
     ELSE [over |-> n * Sum(LAMBDA p : p.ts * p.value) - x * Sum(LAMBDA p : p.value),
           below |-> below]

\* The ramp goes to the crossing, or to where the trip ended before it.
Ramp(coolant) ==
  LET end == FirstCrossing(coolant, RampMark)
  IN IF end = Unsaid THEN coolant ELSE SubSeq(coolant, 1, end)

\* The slope of whatever ramp there is.
SlopeOfAny(coolant) ==
  IF Len(Ramp(coolant)) >= 3 THEN LeastSquares(Ramp(coolant)) ELSE Unsaid

\* A ramp that was cut short has none.
SlopeWhenComplete(coolant) ==
  IF FirstCrossing(coolant, RampMark) = Unsaid THEN Unsaid ELSE SlopeOfAny(coolant)

WarmupSlope(coolant) == SlopeWhenComplete(coolant)

\* The time from the first sample, and the interval it is known to.
TimeTo(coolant, mark) ==
  LET i == FirstCrossing(coolant, mark) IN
  IF i = Unsaid THEN Unsaid
  ELSE [after |-> coolant[i].ts - coolant[1].ts,
        resolution |-> IF i > 1 THEN coolant[i].ts - coolant[i - 1].ts ELSE Unsaid]

OilLag(coolant, oil) ==
  LET c == FirstCrossing(coolant, LagMark)  o == FirstCrossing(oil, LagMark)
  IN IF c = Unsaid \/ o = Unsaid THEN Unsaid ELSE oil[o].ts - coolant[c].ts

ColdStarted == SeriesOf("coolant") # <<>> /\ Head(SeriesOf("coolant")).value < ColdStart

Figures ==
  LET coolant == SeriesOf("coolant")
      IfCold(figure) == IF ColdStarted THEN figure ELSE Unsaid
  IN [times |-> [mark \in Marks |-> IfCold(TimeTo(coolant, mark))],
      slope |-> IfCold(WarmupSlope(coolant)),
      lag |-> IfCold(OilLag(coolant, SeriesOf("oil")))]

-----------------------------------------------------------------------------
(* tracking_model() *)

Around(series, ts, from, to) ==
  {i \in DOMAIN series : ts - from <= series[i].ts /\ series[i].ts <= ts + to}

\* The window is what led up to the sample.
WindowBefore(series, ts) == Around(series, ts, Half, 0)
WindowAround(series, ts) == Around(series, ts, Half, Half)

\* _Indexed.window()
Window(series, ts) == WindowAround(series, ts)

Steady(key, window) ==
  \A i, j \in window : SeriesOf(key)[i].value - SeriesOf(key)[j].value <= Spread[key]

\* _Indexed.nearest() and _bin(): the band the engine is in, by the sample
\* nearest in time, when that is near enough.
Band(key, ts) ==
  LET series == SeriesOf(key)
      near == {i \in DOMAIN series : Distance(series[i].ts, ts) <= Lookup}
      value == series[Closest(series, near, ts)].value
      in == {b \in Bins[key] : b[1] <= value /\ value < b[2]}
  IN IF near = {} \/ in = {} THEN Unsaid ELSE CHOOSE b \in in : TRUE

Pairs == Align(SeriesOf("act"), SeriesOf("set"), Tolerance)

\* Where one aligned pair goes: to a cell, to the transients, or to neither.
Placed(pair) ==
  LET ts == pair[1].ts
      window == [key \in Context |-> Window(SeriesOf(key), ts)]
      cell == [key \in Context |-> Band(key, ts)]
      In(state) == [state |-> state, cell |-> IF state = "steady" THEN cell ELSE Unsaid]
  IN IF \E key \in Context : Cardinality(window[key]) < MinContext THEN In("unassessed")
     ELSE IF \E key \in Context : ~Steady(key, window[key]) THEN In("transient")
     ELSE IF \E key \in Context : cell[key] = Unsaid THEN In("unassessed")
     ELSE In("steady")

-----------------------------------------------------------------------------
(* Properties *)

Stands(then, later) == then # Unsaid => later = then

FiguresKept ==
  /\ \A mark \in Marks : Stands(Figures.times[mark], Figures'.times[mark])
  /\ Stands(Figures.slope, Figures'.slope)
  /\ Stands(Figures.lag, Figures'.lag)

\* Where a trip ends makes no figure of a warm-up: what is reported of a trip
\* that ends now is what is reported of it when it goes on, so that trips of
\* different length can be set against each other (models.py:357-376).
ReportedForGood == [][FiguresKept]_trip

\* A residual that is called steady is the actuator's and not the schedule's:
\* from one of its two reads to the other the engine was at one operating
\* point, and its cell is next to every one of them (models.py:436-447,
\* 497-545; contract.py:112-127).
SteadyOverBothReads ==
  \A i \in DOMAIN Pairs : Placed(Pairs[i]).state = "steady" =>
    \A key \in Context :
      LET a == Pairs[i][1].ts  s == Pairs[i][2].ts
          series == SeriesOf(key)
          between == {k \in DOMAIN series : \/ a <= series[k].ts /\ series[k].ts <= s
                                            \/ s <= series[k].ts /\ series[k].ts <= a}
          band == Placed(Pairs[i]).cell[key]
      IN /\ Steady(key, between)
         /\ \A k \in between : /\ band[1] - Spread[key] <= series[k].value
                               /\ series[k].value < band[2] + Spread[key]
=============================================================================
