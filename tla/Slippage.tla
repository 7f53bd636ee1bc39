------------------------------ MODULE Slippage ------------------------------
(***************************************************************************)
(* The price of a paper fill (quant/slippage.py): the walk of one side of  *)
(* the order book and the linear impact on top.  Decimals that a division  *)
(* makes are fractions <<numerator, denominator>>, so nothing is rounded.  *)
(***************************************************************************)
EXTENDS Integers, FiniteSets, Functions

CONSTANTS
  LevelPrices, LevelSizes, MaxLevels,  \* the books
  MaxOrder,                            \* the quantities ordered
  ContractSize,
  Volumes,                             \* of 24 hours; 0 is also an unknown one
  ImpactPart, FloorPart                \* k and illiquid_floor are 1 over these

ASSUME SlippageBounds ==
  /\ LevelPrices \subseteq Nat \ {0} /\ LevelSizes \subseteq Nat \ {0} /\ Volumes \subseteq Nat
  /\ {ContractSize, ImpactPart, FloorPart} \subseteq Nat \ {0} /\ MaxOrder \in Nat

VARIABLES
  levels,    \* one side of the book
  volume     \* vol_24h

slippageVars == <<levels, volume>>

Level == [price : LevelPrices, size : LevelSizes]

SlippageInit == levels = {} /\ volume \in Volumes

(* The book as the request for it found it. *)
LevelListed ==
  /\ Cardinality(levels) < MaxLevels
  /\ \E l \in Level \ levels : levels' = levels \cup {l}
  /\ UNCHANGED volume

SlippageSpec == SlippageInit /\ [][LevelListed]_slippageVars

-----------------------------------------------------------------------------
\* Mutant of Behind: both sides are walked from the lowest price.
BehindUpwards(side, a, b) == a.price >= b.price

(* The side is sorted from its best price on. *)
Behind(side, a, b) == IF side = "buy" THEN a.price >= b.price ELSE a.price <= b.price

LastOf(side, part) == CHOOSE l \in part : \A m \in part : Behind(side, l, m)

Taken(level, wanted) == IF level.size < wanted THEN level.size ELSE wanted

Start(qty) == [cost |-> 0, remaining |-> qty]

AfterLevel(walk, level) ==
  LET take == Taken(level, walk.remaining)
  IN  [cost |-> walk.cost + level.price * take, remaining |-> walk.remaining - take]

(* walk_book: what it costs, and what is left when the levels are used up; *)
(* of a part of the side the last level is walked last.                    *)
WalkBook(side, qty) ==
  LET walk[part \in SUBSET levels] ==
        IF part = {} THEN Start(qty)
        ELSE AfterLevel(walk[part \ {LastOf(side, part)}], LastOf(side, part))
  IN  walk[levels]

InsufficientDepth(side, qty) == WalkBook(side, qty).remaining > 0

Less(a, b) == a[1] * b[2] < b[1] * a[2]

ImpactFraction(notional) ==
  LET floor == <<1, FloorPart>>
      frac == <<notional, ImpactPart * volume>>
  IN  IF volume = 0 \/ Less(floor, frac) THEN floor ELSE frac

FillPrice(side, qty) ==
  LET cost == WalkBook(side, qty).cost
      frac == ImpactFraction(cost * ContractSize)
      change == IF side = "buy" THEN frac[1] ELSE -frac[1]
      price == <<cost * (frac[2] + change), qty * frac[2]>>
  IN  IF price[1] < 0 THEN <<0, 1>> ELSE price

-----------------------------------------------------------------------------
(* What is taken from the levels, and what it costs. *)
Cost(take) == SumFunction([l \in levels |-> take[l] * l.price])

(* Every way to take a quantity from the book. *)
Ways(qty) == {take \in [levels -> 0..qty] :
                (\A l \in levels : take[l] <= l.size) /\ SumFunction(take) = qty}

(* A fill takes the best prices there are, and is refused only when the    *)
(* book is too small; a larger order never gets a better price, and the    *)
(* impact is never in the trader's favour, at the floor as below it.       *)
(* slippage.py:50-115.                                                     *)
FillsArePriced ==
  \A side \in {"buy", "sell"}, qty \in 1..MaxOrder :
    LET ways == Ways(qty)
        costs == {Cost(take) : take \in ways}
        price == FillPrice(side, qty)
        vwap == <<WalkBook(side, qty).cost, qty>>
        Better(a, b) == IF side = "buy" THEN Less(a, b) ELSE Less(b, a)
    IN  /\ InsufficientDepth(side, qty) <=> ways = {}
        /\ ways # {} =>
             /\ vwap[1] \in costs
             /\ \A c \in costs : ~Better(<<c, qty>>, vwap)
             /\ ~Better(price, vwap)
             /\ \A q \in 1..(qty - 1) : ~Better(price, FillPrice(side, q))

=============================================================================
