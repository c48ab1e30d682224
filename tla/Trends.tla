--------------------------------- MODULE Trends ---------------------------------
(***************************************************************************)
(* The daily series of signups and registered vaults: pure functions of    *)
(* the number of rows created on each day.  Days are numbers.  A           *)
(* percentage is not computed: only its sign before rounding is kept.      *)
(***************************************************************************)
EXTENDS Integers, Sequences, Sums

CONSTANTS
  MaxDay,   \* bound: the last day that rows are created on
  MaxDaily  \* bound: rows created on a day

ASSUME TrendsAssumption == MaxDay \in Nat /\ MaxDaily \in Nat

\* _window: the first and the last day.
Window(days, today) == <<today - (days - 1), today>>

\* The SELECT, GROUP BY day: days without a row are not returned.  It may run after
\* midnight, when there are rows of a later day than the window's last.
Grouped(created, since) ==
  [d \in {e \in DOMAIN created : e >= since /\ created[e] > 0} |-> created[d]]

\* _zero_fill: each day of the window, rows of later days left out.
ZeroFill(counts, start, end) ==
  [i \in 1..(end - start + 1) |->
    IF start + i - 1 \in DOMAIN counts THEN counts[start + i - 1] ELSE 0]

\* change_pct compares the first half with the second, which has the middle day.
Change_pct(daily) ==
  LET n == Len(daily)
      first == SumOf(daily, 1..(n \div 2))
      second == SumOf(daily, (n \div 2 + 1)..n)
  IN IF n < 2 \/ (first = 0 /\ second = 0) THEN "none"
     ELSE IF second > first THEN "up" ELSE IF second < first THEN "down" ELSE "flat"

\* _build_series; the first of the days with the highest count is the peak.
BuildSeries(daily) ==
  LET days == 1..Len(daily)
      peaks == {i \in days : \A j \in days : daily[i] >= daily[j] /\ (j < i => daily[i] > daily[j])}
      peak == CHOOSE i \in peaks : TRUE
  IN [daily  |-> daily,
      total  |-> SumOf(daily, days),
      peak   |-> IF daily[peak] > 0 THEN peak ELSE 0,
      change |-> Change_pct(daily)]

Trend(created, days, today) ==
  LET w == Window(days, today) IN BuildSeries(ZeroFill(Grouped(created, w[1]), w[1], w[2]))

-----------------------------------------------------------------------------
\* A series has an entry for each day of its window and counts each row of the window,
\* whether or not the SELECT ran after midnight; it shows no change only if the window
\* is one day or has no rows (an empty first half alone is shown as growth); and read
\* backwards, a decline shows as growth and, where the halves are equally long, growth
\* as a decline.  (Of an odd window the second half has one day more.)
SeriesFilled ==
  \A created \in [0..MaxDay -> 0..MaxDaily] : \A today \in 0..MaxDay : \A days \in 1..(today + 1) :
    LET s == Trend(created, days, today)
        back == [i \in 1..days |-> s.daily[days + 1 - i]]
    IN /\ Len(s.daily) = days
       /\ s.total = SumOf(created, (today - days + 1)..today)
       /\ s.peak # 0 => created[today - days + s.peak] > 0
       /\ s.change = "none" <=> (days = 1 \/ s.total = 0)
       /\ s.change = "down" => Change_pct(back) = "up"
       /\ days % 2 = 0 => (s.change = "up" <=> Change_pct(back) = "down")
=============================================================================
