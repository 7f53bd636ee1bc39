----------------------------- MODULE SpotChart -----------------------------
(***************************************************************************)
(* The candle chart (components/SpotChart.tsx) and the panel that          *)
(* configures its indicators (components/indicators/IndicatorPanel.tsx):   *)
(* the bars seeded from the history and extended by the live close, the    *)
(* configuration, and the series and panes the effects draw from them.     *)
(* The values of the indicators are module Indicators; here a line is the  *)
(* set of the times it has a point for.                                    *)
(*                                                                         *)
(* What is typed for a period is in halves: the number input accepts 1.5.  *)
(***************************************************************************)
EXTENDS Integers, Sequences, SequencesExt, FiniteSets

CONSTANTS
  Prices,
  MaxBars,       \* 360 in the code
  Throttle,      \* one second in the code
  MinuteLength,
  MaxTime,       \* bound on the clock
  DefaultParams, \* [indicator -> its numbers, in halves]; 20, 50, 14... in the code
  Typed,         \* the numbers typed, in halves
  MaxEdits       \* bound on the changes of the configuration

ASSUME ChartBounds ==
  /\ {MaxBars, MinuteLength} \subseteq Nat \ {0} /\ MaxEdits \in Nat
  /\ MaxTime \in Nat /\ Throttle \in 0..MaxTime
ASSUME NumbersTyped == Prices \subseteq Int /\ Prices # {} /\ Typed \subseteq Nat

VARIABLES
  bars, chartSeeded,
  liveClose,  \* the close the effect last ran for, 0 for none
  lastTick,   \* lastTickRef
  time,
  config,     \* [indicator -> [enabled, params]]
  edits,
  stale,      \* bars or config changed since the last render
  overlays,   \* overlayRef: line series of the main chart -> times drawn
  panes,      \* mounted OscillatorPanes: key -> number of its lines
  dead        \* an exception took the page down

chartVars == <<bars, chartSeeded, liveClose, lastTick, time, config, edits, stale,
               overlays, panes, dead>>

IndicatorKinds == {"ema", "bbands", "rsi", "macd", "atr", "adx"}
OverlayKinds == {"ema", "bbands"}

Bar == [time : 0..MaxTime + 1, open : Prices, high : Prices, low : Prices, close : Prices]

\* Every indicator has a number, the moving averages some periods.
ASSUME ParamsTyped ==
  /\ DefaultParams \in [IndicatorKinds -> Seq(Nat)]
  /\ \A k \in IndicatorKinds : DefaultParams[k] # <<>>

IndicatorConfig == [IndicatorKinds -> [enabled : BOOLEAN, params : Seq(Nat)]]

\* defaultIndicatorConfig: ADX is the one that is on.
DefaultIndicatorConfig ==
  [k \in IndicatorKinds |-> [enabled |-> k = "adx", params |-> DefaultParams[k]]]

ChartTypeOK ==
  /\ bars \in Seq(Bar) /\ chartSeeded \in BOOLEAN
  /\ liveClose \in Prices \cup {0}
  /\ lastTick \in 0..time /\ time \in 0..MaxTime
  /\ config \in IndicatorConfig /\ edits \in 0..MaxEdits
  /\ stale \in BOOLEAN /\ dead \in BOOLEAN

ChartInit ==
  /\ bars = <<>> /\ chartSeeded = FALSE /\ liveClose = 0 /\ lastTick = 0
  /\ time = Throttle
  /\ config = DefaultIndicatorConfig /\ edits = 0
  /\ stale = TRUE /\ overlays = <<>> /\ panes = <<>> /\ dead = FALSE

Minute == time \div MinuteLength

-----------------------------------------------------------------------------
(* Candles of the history, with the field that does not parse, or none.    *)
(* The server's clock may be ahead: a candle of the next minute.           *)
RawCandles == [time : 0..Minute + 1, broken : BOOLEAN]
Flat(t, p) == [time |-> t, open |-> p, high |-> p, low |-> p, close |-> p]

\* The times of a set in order: each has as many before it as its place says.
InOrder(times) ==
  [i \in 1..Cardinality(times) |->
     CHOOSE t \in times : Cardinality({u \in times : u < t}) = i - 1]

\* rawToBar of the whole ones, sorted, the last MaxBars of them.  Two of one time would both
\* stay in the code, which sorts but does not compare; here the exchange sends no such two.
Parsed(candles) ==
  LET times == {c.time : c \in {r \in candles : ~r.broken}}
      kept == {t \in times : Cardinality({u \in times : u > t}) < MaxBars}
  IN  [i \in 1..Cardinality(kept) |-> Flat(InOrder(kept)[i], CHOOSE p \in Prices : TRUE)]

(* The query answers: once, and instead of the live bars so far. *)
CandlesArrive ==
  /\ ~dead /\ ~chartSeeded
  /\ chartSeeded' = TRUE
  /\ \E candles \in SUBSET RawCandles :
       /\ \A c, d \in candles : c.time = d.time => c = d
       /\ bars' = Parsed(candles)
  /\ stale' = TRUE
  /\ UNCHANGED <<liveClose, lastTick, time, config, edits, overlays, panes, dead>>

Higher(p, q) == IF p > q THEN p ELSE q
Lower(p, q) == IF p < q THEN p ELSE q

\* Mutant of WithTick: a bar of an earlier minute is not refused.
UnguardedTick(p) ==
  LET new == Flat(Minute, p) IN
  IF bars = <<>> THEN <<new>>
  ELSE IF Last(bars).time = Minute
    THEN Append(Front(bars), [Last(bars) EXCEPT !.high = Higher(@, p), !.low = Lower(@, p),
                                                !.close = p])
  ELSE IF Len(bars) = MaxBars THEN Append(Tail(bars), new) ELSE Append(bars, new)

(* setBars of a live close. *)
WithTick(p) ==
  LET new == Flat(Minute, p) IN
  IF bars = <<>> THEN <<new>>
  ELSE IF Last(bars).time = Minute
    THEN Append(Front(bars), [Last(bars) EXCEPT !.high = Higher(@, p), !.low = Lower(@, p),
                                                !.close = p])
  ELSE IF Minute < Last(bars).time THEN bars
  ELSE IF Len(bars) = MaxBars THEN Append(Tail(bars), new) ELSE Append(bars, new)

(* The effect on a new live close, at most once per Throttle. *)
LiveClose(p) ==
  /\ ~dead /\ p # liveClose
  /\ liveClose' = p
  /\ IF time - lastTick < Throttle THEN UNCHANGED <<bars, lastTick, stale>>
     ELSE lastTick' = time /\ bars' = WithTick(p) /\ stale' = TRUE
  /\ UNCHANGED <<chartSeeded, time, config, edits, overlays, panes, dead>>

TimePasses ==
  /\ time < MaxTime
  /\ time' = time + 1
  /\ UNCHANGED <<bars, chartSeeded, liveClose, lastTick, config, edits, stale, overlays,
                 panes, dead>>

-----------------------------------------------------------------------------
(* patch: the panel's toggles and, of an enabled indicator, its inputs. *)
Patch(k, c) ==
  /\ ~dead /\ edits < MaxEdits
  /\ edits' = edits + 1
  /\ config' = [config EXCEPT ![k] = c]
  /\ stale' = TRUE
  /\ UNCHANGED <<bars, chartSeeded, liveClose, lastTick, time, overlays, panes, dead>>

Toggle(k) == Patch(k, [config[k] EXCEPT !.enabled = ~@])

\* min = 1, max = 500; steps are not enforced.
Accepted(v) == 2 <= v /\ v <= 1000

NumberInput(k, i, v) ==
  /\ config[k].enabled /\ Accepted(v) /\ v # config[k].params[i]
  /\ Patch(k, [config[k] EXCEPT !.params[i] = v])

-----------------------------------------------------------------------------
WholeNumber(v) == v % 2 = 0

(* toLineData: times of the bars with at least n - 1 bars before them.  An *)
(* indicator over a fraction of a bar has no value at any bar.             *)
LineData(n) ==
  IF WholeNumber(n) THEN {bars[i].time : i \in {j \in DOMAIN bars : 2 * j >= n}} ELSE {}

Param(k, i) == config[k].params[i]

(* The series of the main chart: one per distinct period of the EMA, and   *)
(* three bands.                                                            *)
Wanted ==
  [key \in (IF config["ema"].enabled
              THEN {<<"ema", Param("ema", i)>> : i \in DOMAIN config["ema"].params} ELSE {})
           \cup (IF config["bbands"].enabled
                   THEN {"bb-upper", "bb-middle", "bb-lower"} \X {0} ELSE {})
     |-> LineData(IF key[1] = "ema" THEN key[2] ELSE Param("bbands", 1))]

(* The loops of ema, rsi and atr start after the seed at the index of the  *)
(* period, and read past a list that has no such index.                    *)
ReadsNoBar(period, seed) == ~WholeNumber(period) /\ 2 * Len(bars) > period + seed

Throws ==
  \/ config["ema"].enabled /\ \E i \in {1, 2} : ReadsNoBar(Param("ema", i), 0)
  \/ config["macd"].enabled /\ \E i \in {1, 2} : ReadsNoBar(Param("macd", i), 0)
  \/ config["rsi"].enabled /\ ReadsNoBar(Param("rsi", 1), 2)
  \/ config["atr"].enabled /\ ReadsNoBar(Param("atr", 1), 2)

(* The oscillators wanted, and how many lines each has. *)
Oscillators ==
  [k \in {j \in IndicatorKinds \ OverlayKinds : config[j].enabled} |->
    IF k \in {"adx", "macd"} THEN 3 ELSE 1]

\* Mutant of Reconciled: a series is never removed.
NeverRemoved ==
  [key \in DOMAIN overlays \cup DOMAIN Wanted |->
     IF key \in DOMAIN Wanted THEN Wanted[key] ELSE overlays[key]]

(* Series no longer wanted are removed, the others get the new data. *)
Reconciled ==
  LET gone == DOMAIN overlays \ DOMAIN Wanted
  IN  [key \in (DOMAIN overlays \ gone) \cup DOMAIN Wanted |-> Wanted[key]]

(* A render and its effects. *)
Redraw ==
  /\ ~dead /\ stale
  /\ stale' = FALSE
  /\ dead' = Throws
  /\ overlays' = IF Throws THEN <<>> ELSE Reconciled
  /\ panes' = IF Throws THEN <<>> ELSE Oscillators
  /\ UNCHANGED <<bars, chartSeeded, liveClose, lastTick, time, config, edits>>

ChartNext ==
  \/ CandlesArrive \/ TimePasses \/ Redraw
  \/ \E p \in Prices : LiveClose(p)
  \/ \E k \in IndicatorKinds :
       \/ Toggle(k)
       \/ \E i \in DOMAIN config[k].params, v \in Typed : NumberInput(k, i, v)

ChartSpec == ChartInit /\ [][ChartNext]_chartVars

-----------------------------------------------------------------------------
(* The bars stay what the chart library demands of its data: strictly      *)
(* ascending in time, at most MaxBars, each with its low below and its     *)
(* high above the rest, whatever the clocks say and however history,       *)
(* throttled ticks and minutes interleave.  SpotChart.tsx:108-154, 216.    *)
BarsOrdered ==
  /\ Len(bars) <= MaxBars
  /\ \A i, j \in DOMAIN bars : i < j => bars[i].time < bars[j].time
  /\ \A i \in DOMAIN bars : /\ bars[i].low <= Lower(bars[i].open, bars[i].close)
                            /\ Higher(bars[i].open, bars[i].close) <= bars[i].high

(* After a render the chart shows the lines of the configuration and no    *)
(* others, up to the newest bar: none of an old period or of an indicator  *)
(* switched off is left behind, also where two periods were the same.      *)
(* SpotChart.tsx:204-255.                                                  *)
OverlaysMatchConfig ==
  ~stale /\ ~dead =>
    /\ config["ema"].enabled <=> \E key \in DOMAIN overlays : key[1] = "ema"
    /\ \A key \in DOMAIN overlays :
         key[1] = "ema" => \E i \in DOMAIN config["ema"].params : config["ema"].params[i] = key[2]
    /\ config["bbands"].enabled <=> <<"bb-upper", 0>> \in DOMAIN overlays
    /\ \A key \in DOMAIN overlays :
         bars # <<>> /\ overlays[key] # {} => Last(bars).time \in overlays[key]
    /\ DOMAIN panes = {k \in IndicatorKinds \ OverlayKinds : config[k].enabled}

=============================================================================
