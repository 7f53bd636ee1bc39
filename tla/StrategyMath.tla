---------------------------- MODULE StrategyMath ----------------------------
(***************************************************************************)
(* The payoff arithmetic of the builder's footer                           *)
(* (frontend/src/lib/strategy-math.ts).  Spots are in half units, so that  *)
(* the midpoints of the grid are whole, and money is in half units too; an *)
(* interpolated crossing is an exact fraction <<numerator, denominator>>.  *)
(* All legs have the same contract size, which scales everything and is    *)
(* left out.                                                               *)
(***************************************************************************)
EXTENDS Integers, Sequences, FiniteSets, FiniteSetsExt

CONSTANT NoMark   \* the chain has no mark for a row

(* A leg is [side, qty, strike, right, mark]; only priced legs count.  The *)
(* legs left out leave a gap: nothing depends on their places.             *)
OptionLegs(mathLegs) == Restrict(mathLegs, {i \in DOMAIN mathLegs : mathLegs[i].mark # NoMark})

SignedQty(side, qty) == IF side = "buy" THEN qty ELSE -qty

AtLeastZero(n) == IF n > 0 THEN n ELSE 0

(* legPayoff at the spot num/den (half units), times den. *)
LegPayoff(leg, num, den) ==
  AtLeastZero(IF leg.right = "C" THEN num - 2 * leg.strike * den
                                 ELSE 2 * leg.strike * den - num)

NetEntryCredit(legs) ==
  SumFunction([i \in DOMAIN legs |->
                 -2 * SignedQty(legs[i].side, legs[i].qty) * legs[i].mark])

(* payoffAt, times den. *)
PayoffAtFraction(legs, num, den) ==
  den * NetEntryCredit(legs)
  + SumFunction([i \in DOMAIN legs |->
                   SignedQty(legs[i].side, legs[i].qty) * LegPayoff(legs[i], num, den)])

PayoffAt(legs, spot) == PayoffAtFraction(legs, spot, 1)

StrikesOf(legs) == {legs[i].strike : i \in DOMAIN legs}

NextStrike(legs, k) == Min({j \in StrikesOf(legs) : j > k})
Midpoints(legs) == {k + NextStrike(legs, k) : k \in StrikesOf(legs) \ {Max(StrikesOf(legs))}}

\* Mutant of StrikeGrid: the grid ends at the highest strike.
GridToLastStrike(legs) == {0} \cup {2 * k : k \in StrikesOf(legs)} \cup Midpoints(legs)

(* strikeGrid: 0, the strikes and the midpoints between neighbours, and    *)
(* twice the highest strike.                                               *)
StrikeGrid(legs) == {0, 4 * Max(StrikesOf(legs))} \cup {2 * k : k \in StrikesOf(legs)}
                    \cup Midpoints(legs)

(* maxProfitLoss of priced legs. *)
GridPayoffs(legs) == {PayoffAt(legs, s) : s \in StrikeGrid(legs)}
MaxProfit(legs) == Max(GridPayoffs(legs))
MaxLoss(legs) == Min(GridPayoffs(legs))

Opposite(p, q) == (p < 0 /\ q > 0) \/ (p > 0 /\ q < 0)

\* Mutant of Crossing: the payoff at the left end has the wrong sign.
CrossingMirrored(legs, s0, s1) ==
  LET p0 == PayoffAt(legs, s0)
      p1 == PayoffAt(legs, s1)
      span == p1 - p0
      num == s0 * span + (s1 - s0) * p0
  IN  IF p0 = 0 THEN {<<s0, 1>>}
      ELSE IF Opposite(p0, p1) THEN {IF span > 0 THEN <<num, span>> ELSE <<-num, -span>>}
      ELSE {}

(* The crossing between two neighbours of the grid, if there is one. *)
Crossing(legs, s0, s1) ==
  LET p0 == PayoffAt(legs, s0)
      p1 == PayoffAt(legs, s1)
      span == p1 - p0
      num == s0 * span - (s1 - s0) * p0
  IN  IF p0 = 0 THEN {<<s0, 1>>}
      ELSE IF Opposite(p0, p1) THEN {IF span > 0 THEN <<num, span>> ELSE <<-num, -span>>}
      ELSE {}

(* Less than half a unit of spot apart. *)
Near(a, b) == LET d == a[1] * b[2] - b[1] * a[2]
              IN  (IF d < 0 THEN -d ELSE d) < a[2] * b[2]

(* breakevens: the crossings from left to right, without the near          *)
(* duplicates of one already reported.                                     *)
Breakevens(legs) ==
  LET grid == StrikeGrid(legs)
      before(s) == Max({r \in grid : r < s})
      upTo[s \in grid] ==
        IF s = 0 THEN {}
        ELSE LET found == upTo[before(s)]
             IN  found \cup {b \in Crossing(legs, before(s), s) : \A a \in found : ~Near(a, b)}
  IN  upTo[Max(grid)]

=============================================================================
