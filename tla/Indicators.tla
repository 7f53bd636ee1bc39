----------------------------- MODULE Indicators -----------------------------
(***************************************************************************)
(* The indicators of the charts (frontend/src/lib/indicators): lists as    *)
(* long as the bars, with NoValue during the warm-up and exact fractions   *)
(* <<numerator, denominator>> after it.  Bars are numbered from 1, so an   *)
(* index of the code is one less.  Bollinger bands are given by their      *)
(* middle and the square of the deviation.  They are drawn over a window   *)
(* that grows with every minute up to a cap and then slides.               *)
(***************************************************************************)
EXTENDS Integers, Sequences, FiniteSets, FiniteSetsExt

CONSTANTS
  Levels,   \* the prices
  Periods,  \* periods of an indicator
  MaxTape,  \* MAX_BARS, the cap of the window
  NoValue

ASSUME IndicatorBounds ==
  /\ Levels \subseteq Int /\ Periods \subseteq Nat \ {0} /\ MaxTape \in Nat \ {0}
  /\ NoValue \notin Int \X Int
  /\ NoValue \notin [middle : Int \X Int, variance : Int \X Int]

VARIABLES
  tape,    \* the bars of the window
  gone,    \* the bar that the last one pushed out of it: a list of at most one
  period   \* of every indicator; the slow one of macd is one longer

tapeVars == <<tape, gone, period>>

TapeBars == {b \in [low : Levels, close : Levels, high : Levels] :
               b.low <= b.close /\ b.close <= b.high}

TapeInit == tape = <<>> /\ gone = <<>> /\ period \in Periods

(* The bar of a new minute.  One that a tick changes in place is another   *)
(* last bar of the same window.                                            *)
NextBar ==
  /\ \E b \in TapeBars :
       \/ /\ Len(tape) < MaxTape
          /\ tape' = Append(tape, b) /\ gone' = <<>>
       \/ /\ Len(tape) = MaxTape
          /\ tape' = Append(Tail(tape), b) /\ gone' = <<Head(tape)>>
  /\ UNCHANGED period

TapeSpec == TapeInit /\ [][NextBar]_tapeVars

-----------------------------------------------------------------------------
Abs(n) == IF n < 0 THEN -n ELSE n

Gcd[ab \in Nat \X Nat] == IF ab[2] = 0 THEN ab[1] ELSE Gcd[<<ab[2], ab[1] % ab[2]>>]

Fraction(num, den) == LET g == Gcd[<<Abs(num), den>>] IN <<num \div g, den \div g>>
Plus(a, b) == LET g == Gcd[<<a[2], b[2]>>] IN
  Fraction(a[1] * (b[2] \div g) + b[1] * (a[2] \div g), (a[2] \div g) * b[2])
Minus(a, b) == Plus(a, <<-b[1], b[2]>>)

SumOf(raw, lo, hi) == MapThenSumSet(LAMBDA i : raw[i], lo..hi)

(* A list that has values f from index first on. *)
From(n, first, f) == [i \in 1..n |-> IF i < first THEN NoValue ELSE f[i]]

Closes(bars) == [i \in DOMAIN bars |-> <<bars[i].close, 1>>]

MeanOf(values, lo, hi) ==
  LET sum[i \in lo..hi] == IF i = lo THEN values[i] ELSE Plus(sum[i - 1], values[i])
  IN  <<sum[hi][1], sum[hi][2] * (hi - lo + 1)>>

(* A recursion over values that are defined from index first on: the mean  *)
(* of those up to the seed, then u parts of each value and w of the last.  *)
Blended(values, first, seed, u, w) ==
  LET f[i \in seed..Len(values)] ==
        IF i = seed THEN MeanOf(values, first, seed)
        ELSE LET prev == f[i - 1]
             IN  Plus(<<u * values[i][1], (u + w) * values[i][2]>>,
                      <<w * prev[1], (u + w) * prev[2]>>)
  IN  From(Len(values), seed, f)

(* The recursion of ema and of macd's signal; k is 2 / (p + 1). *)
Smoothed(values, first, p) == Blended(values, first, first + p - 1, 2, p - 1)

Ema(bars, p) == Smoothed(Closes(bars), 1, p)

\* Mutant of Wilder: new values weigh as much as those of an exponential average.
WilderAsEma(raw, p) ==
  LET n == Len(raw)
      f[i \in p + 1..n] ==
        IF i = p + 1 THEN <<SumOf(raw, 2, p + 1), p>>
        ELSE LET prev == f[i - 1]
             IN  <<prev[1] * (p - 1) + 2 * raw[i] * prev[2], (p + 1) * prev[2]>>
  IN  From(n, p + 1, f)

(* Wilder's smoothing of whole raw values, seeded with the mean of those   *)
(* at the indices 2..p + 1.                                                *)
Wilder(raw, p) ==
  LET n == Len(raw)
      f[i \in p + 1..n] ==
        IF i = p + 1 THEN <<SumOf(raw, 2, p + 1), p>>
        ELSE LET prev == f[i - 1] IN <<prev[1] * (p - 1) + raw[i] * prev[2], p * prev[2]>>
  IN  From(n, p + 1, f)

Changes(bars, sign) ==
  [i \in DOMAIN bars |->
    LET change == IF i = 1 THEN 0 ELSE sign * (bars[i].close - bars[i - 1].close)
    IN  IF change > 0 THEN change ELSE 0]

\* Both averages have the same denominator.
RsiFrom(gain, loss) ==
  IF loss[1] = 0 /\ gain[1] = 0 THEN <<50, 1>> ELSE <<100 * gain[1], gain[1] + loss[1]>>

Rsi(bars, p) ==
  LET gain == Wilder(Changes(bars, 1), p)
      loss == Wilder(Changes(bars, -1), p)
  IN  From(Len(bars), p + 1, [i \in p + 1..Len(bars) |-> RsiFrom(gain[i], loss[i])])

TrueRange(bars, i) ==
  Max({bars[i].high - bars[i].low,
       Abs(bars[i].high - bars[i - 1].close), Abs(bars[i].low - bars[i - 1].close)})

TrueRanges(bars) == [i \in DOMAIN bars |-> IF i = 1 THEN 0 ELSE TrueRange(bars, i)]

Atr(bars, p) == Wilder(TrueRanges(bars), p)

-----------------------------------------------------------------------------
(* macd: the signal smooths the values of the line that are defined. *)
MacdLine(bars, fast, slow) ==
  LET f == Ema(bars, fast)
      s == Ema(bars, slow)
  IN  [i \in DOMAIN bars |-> IF f[i] # NoValue /\ s[i] # NoValue THEN Minus(f[i], s[i])
                                                                 ELSE NoValue]

Macd(bars, fast, slow, p) ==
  LET line == MacdLine(bars, fast, slow)
      signal == Smoothed(line, Max({fast, slow}), p)
  IN  [macd |-> line, signal |-> signal,
       hist |-> [i \in DOMAIN bars |-> IF line[i] # NoValue /\ signal[i] # NoValue
                                         THEN Minus(line[i], signal[i]) ELSE NoValue]]

Bbands(bars, p) ==
  LET close == [i \in DOMAIN bars |-> bars[i].close]
      square == [i \in DOMAIN bars |-> close[i] * close[i]]
      at(i) == LET sum == SumOf(close, i - p + 1, i)
               IN  [middle |-> <<sum, p>>,
                    variance |-> <<p * SumOf(square, i - p + 1, i) - sum * sum, p * p>>]
  IN  From(Len(bars), p, [i \in p..Len(bars) |-> at(i)])

-----------------------------------------------------------------------------
(* adx: directional moves, ... *)
DirectionalMoves(bars) ==
  [i \in DOMAIN bars |->
    LET up == IF i = 1 THEN 0 ELSE bars[i].high - bars[i - 1].high
        down == IF i = 1 THEN 0 ELSE bars[i - 1].low - bars[i].low
    IN  [plus |-> IF up > down /\ up > 0 THEN up ELSE 0,
         minus |-> IF down > up /\ down > 0 THEN down ELSE 0]]

(* ... their smoothed sums, over one denominator that cancels, ... *)
SmoothedMoves(bars, p) ==
  LET n == Len(bars)
      move == DirectionalMoves(bars)
      range == TrueRanges(bars)
      raw == [i \in 1..n |-> <<range[i], move[i].plus, move[i].minus>>]
      sums(j) == SumOf([i \in 1..n |-> raw[i][j]], 2, p + 1)
      f[i \in p + 1..n] ==
        IF i = p + 1 THEN [sum |-> [j \in 1..3 |-> sums(j)], den |-> 1]
        ELSE LET prev == f[i - 1]
             IN  [sum |-> [j \in 1..3 |-> prev.sum[j] * (p - 1) + raw[i][j] * p * prev.den],
                  den |-> p * prev.den]
  IN  f

DI(sum, j) == IF sum[1] = 0 THEN <<0, 1>> ELSE <<100 * sum[j], sum[1]>>
DX(sum) == IF sum[1] = 0 \/ sum[2] + sum[3] = 0 THEN <<0, 1>>
           ELSE <<100 * Abs(sum[2] - sum[3]), sum[2] + sum[3]>>

Adx(bars, p) ==
  LET n == Len(bars)
      moves == SmoothedMoves(bars, p)
      dx == [i \in 1..n |-> IF i < p + 1 THEN NoValue ELSE DX(moves[i].sum)]
  IN  [adx |-> Blended(dx, p + 1, 2 * p, 1, p - 1),
       plusDI |-> From(n, p + 1, [i \in p + 1..n |-> DI(moves[i].sum, 2)]),
       minusDI |-> From(n, p + 1, [i \in p + 1..n |-> DI(moves[i].sum, 3)])]

-----------------------------------------------------------------------------
(* Every list that is drawn, with the first index that has a value. *)
Drawn(bars, p) ==
  LET m == Macd(bars, p, p + 1, p)
      a == Adx(bars, p)
  IN  {<<"ema", p, Ema(bars, p)>>, <<"rsi", p + 1, Rsi(bars, p)>>,
       <<"atr", p + 1, Atr(bars, p)>>, <<"bbands", p, Bbands(bars, p)>>,
       <<"macd", p + 1, m.macd>>, <<"signal", 2 * p, m.signal>>, <<"hist", 2 * p, m.hist>>,
       <<"plusDI", p + 1, a.plusDI>>, <<"minusDI", p + 1, a.minusDI>>,
       <<"adx", 2 * p, a.adx>>}

(* Each line has exactly the warm-up its documentation names, and a value  *)
(* for every bar after it. *)
Aligned ==
  \A line \in Drawn(tape, period) :
    /\ Len(line[3]) = Len(tape)
    /\ \A i \in DOMAIN tape : line[3][i] # NoValue <=> i >= line[2]

Within(f, lo, hi) == lo * f[2] <= f[1] /\ f[1] <= hi * f[2]

(* RSI, ADX and the directional indicators stay between 0 and 100, however *)
(* the smoothing recursions are seeded and whatever is zero; the averages  *)
(* stay between the lowest and the highest of what they average.           *)
InRange ==
  LET close == {tape[i].close : i \in DOMAIN tape}
      range == {TrueRanges(tape)[i] : i \in DOMAIN tape}
  IN  \A line \in Drawn(tape, period), i \in DOMAIN tape :
        line[3][i] # NoValue =>
          /\ line[1] \in {"rsi", "adx", "plusDI", "minusDI"} => Within(line[3][i], 0, 100)
          /\ line[1] = "ema" => Within(line[3][i], Min(close), Max(close))
          /\ line[1] = "atr" => Within(line[3][i], 0, Max(range))
          /\ line[1] = "bbands" => /\ Within(line[3][i].middle, Min(close), Max(close))
                                   /\ line[3][i].variance[1] >= 0

LastWindow == gone \o SubSeq(tape, 1, Len(tape) - 1)

(* While the window grows, the newest bar changes no value that was drawn  *)
(* before it. *)
NeverRepaints ==
  \A now \in Drawn(tape, period), before \in Drawn(LastWindow, period) :
    now[1] = before[1] => before[3] = SubSeq(now[3], 1, Len(tape) - 1)

Gap(a, b) == <<a[1] * b[2] - b[1] * a[2], a[2] * b[2]>>

(* How far the values of a bar are from those that were drawn of it: w / d *)
(* of how far those of the bar before are, at the index i.                 *)
Fades(now, old, i, w, d) ==
  LET after == Gap(now[i], old[i + 1])
      before == Gap(now[i - 1], old[i])
  IN  d * after[1] * before[2] = w * before[1] * after[2]

(* Once it slides, the bands stay, and each recursion starts from another  *)
(* seed: what it changes of the values that were drawn fades with every    *)
(* bar by the weight that the smoothing gives to the past.                 *)
ChangesFade ==
  LET n == Len(tape) - 1
      p == period
      old == LastWindow
      smoothed(now, before) ==
        \A i \in p + 2..n : Fades(Wilder(now, p), Wilder(before, p), i, p - 1, p)
  IN  /\ \A i \in p..n : Bbands(tape, p)[i] = Bbands(old, p)[i + 1]
      /\ \A i \in p + 1..n : Fades(Ema(tape, p), Ema(old, p), i, p - 1, p + 1)
      /\ smoothed(TrueRanges(tape), TrueRanges(old))
      /\ \A sign \in {1, -1} : smoothed(Changes(tape, sign), Changes(old, sign))

(* What is drawn can be read off the chart: every line starts at the bar   *)
(* its documentation names and stays where the indicator lives; no line    *)
(* looks ahead, so a bar that is appended changes nothing to its left; and *)
(* when it pushes the oldest one out, which moves every seed, the averages *)
(* (of RSI the two it divides) change less and less to the right.          *)
(* ema.ts:6-10, rsi.ts:6-18, atr.ts:19-22, macd.ts:18-22, adx.ts:24-34,    *)
(* SpotChart.tsx:116,148-152,201-203.                                      *)
IndicatorsReadRight ==
  tape # <<>> =>
    /\ Aligned /\ InRange
    /\ IF gone = <<>> THEN NeverRepaints ELSE ChangesFade

=============================================================================
