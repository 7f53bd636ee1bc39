-------------------------- MODULE StrategyBuilder --------------------------
(***************************************************************************)
(* The builder of a strategy (components/paper/StrategyBuilder.tsx): the   *)
(* expiry selector, the legs and their inputs, the footer computed from    *)
(* them, and the spec handed to the preview modal (module StrategyDesk).   *)
(* The legs are left alone while a preview is open, although they can be   *)
(* edited behind it: an open preview keeps its spec.  The list of expiries *)
(* is one answer of its query.                                             *)
(***************************************************************************)
EXTENDS StrategyMath, SequencesExt

CONSTANTS
  Expiries,     \* the expiry codes, nearest first
  Marks,        \* [expiry -> [listed <<right, strike>> -> mark or NoMark]]
  Sides, Rights,
  QtyOf,        \* [typed quantity -> the number it parses to, or NoQty]
  MaxLegs,      \* bound on the legs
  NoQty, Nothing

ASSUME BuilderBounds == MaxLegs \in Nat /\ "sell" \in Sides /\ "C" \in Rights
ASSUME QuantitiesTyped == "1" \in DOMAIN QtyOf /\ \A q \in DOMAIN QtyOf : QtyOf[q] \in Int \cup {NoQty}
ASSUME ChainsTyped ==
  /\ 1 \in DOMAIN Expiries /\ DOMAIN Marks = {Expiries[i] : i \in DOMAIN Expiries}
  /\ \A e \in DOMAIN Marks : /\ DOMAIN Marks[e] \subseteq Rights \X (Nat \ {0})
                             /\ \A r \in DOMAIN Marks[e] : Marks[e][r] \in Int \cup {NoMark}

VARIABLES
  chosen,   \* defaultExpiry: the expiry picked in the selector, or null
  chains,   \* the expiries whose chain has arrived
  legs,     \* the legs
  spec      \* previewSpec: what the modal was opened with, or null

builderVars == <<chosen, chains, legs, spec>>

Codes == DOMAIN Marks

BuilderInit == chosen = Nothing /\ chains = {} /\ legs = <<>> /\ spec = Nothing

(* effectiveDefault. *)
EffectiveDefault == IF chosen # Nothing THEN chosen ELSE Expiries[1]

(* The one chain the builder loads; none of its rows before it arrives. *)
Rows == IF EffectiveDefault \in chains THEN DOMAIN Marks[EffectiveDefault] ELSE {}

(* symbolFor and rowFor find a leg's row by its right and strike. *)
RowFor(leg) == <<leg.right, leg.strike>>
SymbolFor(leg) == [right |-> leg.right, strike |-> leg.strike, expiry |-> EffectiveDefault]

(* toDecimal of what was typed. *)
Quantity(leg) == QtyOf[leg.qty]

Complete(leg) == /\ RowFor(leg) \in Rows
                 /\ Quantity(leg) # NoQty
                 /\ Quantity(leg) > 0

(* mathLegs: the footer's legs; incomplete ones are left out. *)
MathLegs ==
  [i \in {j \in DOMAIN legs : Complete(legs[j])} |->
     [side |-> legs[i].side, qty |-> Quantity(legs[i]), right |-> legs[i].right,
      strike |-> legs[i].strike, mark |-> Marks[EffectiveDefault][RowFor(legs[i])]]]

(* The Preview button. *)
ValidLegs == legs # <<>> /\ DOMAIN MathLegs = DOMAIN legs

-----------------------------------------------------------------------------
(* The selector. *)
ChooseExpiry(e) ==
  /\ spec = Nothing /\ e # EffectiveDefault
  /\ chosen' = e
  /\ UNCHANGED <<chains, legs, spec>>

(* The query of the builder's chain, or its first live frame. *)
ChainArrives ==
  /\ EffectiveDefault \notin chains
  /\ chains' = chains \cup {EffectiveDefault}
  /\ UNCHANGED <<chosen, legs, spec>>

(* newLeg. *)
NewLeg == [side |-> "sell", qty |-> "1", expiry |-> EffectiveDefault,
           strike |-> Nothing, right |-> "C"]

AddLeg ==
  /\ spec = Nothing /\ Len(legs) < MaxLegs
  /\ legs' = Append(legs, NewLeg)
  /\ UNCHANGED <<chosen, chains, spec>>

RemoveLeg(i) ==
  /\ spec = Nothing
  /\ legs' = RemoveAt(legs, i)
  /\ UNCHANGED <<chosen, chains, spec>>

(* The inputs of a leg's row; the strikes offered are those of the rows. *)
PatchLeg(i) ==
  /\ spec = Nothing
  /\ \/ \E s \in Sides : legs' = [legs EXCEPT ![i].side = s]
     \/ \E q \in DOMAIN QtyOf : legs' = [legs EXCEPT ![i].qty = q]
     \/ \E k \in {r[2] : r \in Rows} \cup {Nothing} : legs' = [legs EXCEPT ![i].strike = k]
     \/ \E r \in Rights : legs' = [legs EXCEPT ![i].right = r]
  /\ UNCHANGED <<chosen, chains, spec>>

(* buildSpec and openPreview. *)
BuildSpec ==
  [i \in DOMAIN legs |-> [symbol |-> SymbolFor(legs[i]), side |-> legs[i].side,
                          qty |-> Quantity(legs[i])]]

PreviewSpec ==
  /\ spec = Nothing /\ ValidLegs
  /\ spec' = BuildSpec
  /\ UNCHANGED <<chosen, chains, legs>>

(* The modal's onClose. *)
ModalCloses ==
  /\ spec # Nothing
  /\ spec' = Nothing
  /\ UNCHANGED <<chosen, chains, legs>>

BuilderNext ==
  \/ \E e \in Codes : ChooseExpiry(e)
  \/ ChainArrives \/ AddLeg \/ PreviewSpec \/ ModalCloses
  \/ \E i \in DOMAIN legs : RemoveLeg(i) \/ PatchLeg(i)

BuilderSpec == BuilderInit /\ [][BuilderNext]_builderVars

-----------------------------------------------------------------------------
(* The footer's maximum profit and loss bound the payoff of the structure  *)
(* at every spot up to twice its highest strike, not only on the grid.     *)
(* strategy-math.ts:147-190.                                               *)
ExtremesBoundPayoff ==
  LET opt == OptionLegs(MathLegs) IN
  opt # <<>> =>
    \A s \in 0..4 * Max(StrikesOf(opt)) : PayoffAt(opt, s) \in MaxLoss(opt)..MaxProfit(opt)

(* Every breakeven reported is exactly a zero of the payoff, and between   *)
(* any two spots in that range where the payoff has opposite signs one is  *)
(* reported, up to the half unit the duplicates are merged by.             *)
(* strategy-math.ts:192-229.                                               *)
BreakevensExact ==
  LET opt == OptionLegs(MathLegs)
      found == Breakevens(opt)
      payoff == [s \in 0..4 * Max(StrikesOf(opt)) |-> PayoffAt(opt, s)]
  IN  opt # <<>> =>
        /\ \A b \in found : PayoffAtFraction(opt, b[1], b[2]) = 0
        /\ \A s, t \in DOMAIN payoff :
             s < t /\ Opposite(payoff[s], payoff[t]) =>
               \E b \in found : (s - 1) * b[2] <= b[1] /\ b[1] <= (t + 1) * b[2]

(* What is previewed for a leg is an instrument of the expiry the leg was  *)
(* built for.  StrategyBuilder.tsx:26, 45, 92-93.                          *)
LegsKeepTheirExpiry ==
  spec # Nothing => \A i \in DOMAIN spec : spec[i].symbol.expiry = legs[i].expiry
=============================================================================
