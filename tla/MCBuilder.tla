----------------------------- MODULE MCBuilder -----------------------------
(* Two small chains for the strategy builder. *)
EXTENDS StrategyBuilder, TLC

(* Two expiries whose chains differ in marks and in what they list; a      *)
(* quantity that does not parse.                                           *)
TwoExpiries == <<"near", "far">>
TwoChains ==
  [near |-> (<<"C", 2>> :> 2 @@ <<"P", 2>> :> 1 @@ <<"C", 3>> :> 1 @@ <<"P", 3>> :> NoMark),
   far |-> (<<"C", 2>> :> 3 @@ <<"P", 3>> :> 2)]
Quantities == ("1" :> 1 @@ "2" :> 2 @@ "" :> NoQty)
=============================================================================
