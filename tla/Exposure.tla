------------------------------ MODULE Exposure -------------------------------
(***************************************************************************)
(* What the live section promises about real money.  A position moves      *)
(* either because somebody trades on the account, or because the program   *)
(* reduces it: strictly toward zero and never across it, only while the    *)
(* settings permit orders, and only a leg of a strategy for which somebody *)
(* once asked for a stop-loss, which takes the same permission.            *)
(***************************************************************************)
EXTENDS Integers

CONSTANTS Symbols, Sizes, MaxTrades, Strategies, Legs

VARIABLES
    position,   \* signed lots, by symbol
    trades,     \* trades done by somebody else
    permitted,  \* keys are present and live trading is enabled
    consent     \* strategies somebody asked a stop-loss for

vars == <<position, trades, permitted, consent>>

Init ==
    /\ position \in [Symbols -> Sizes]
    /\ trades = 0
    /\ permitted \in BOOLEAN
    /\ consent = {}

\* q lies strictly between p and zero, or is zero: p was reduced, not flipped.
Reduced(p, q) == \/ 0 <= q /\ q < p
                 \/ p < q /\ q <= 0

Trade ==
    /\ trades < MaxTrades
    /\ trades' = trades + 1
    /\ \E x \in Symbols, n \in Sizes :
          position' = [position EXCEPT ![x] = n]
    /\ UNCHANGED <<permitted, consent>>

Reduce ==
    /\ permitted
    /\ \E s \in consent, n \in Sizes : \E x \in Legs[s] :
          /\ Reduced(position[x], n)
          /\ position' = [position EXCEPT ![x] = n]
    /\ UNCHANGED <<trades, permitted, consent>>

Consent ==
    /\ permitted
    /\ \E s \in Strategies : consent' = consent \cup {s}
    /\ UNCHANGED <<position, trades, permitted>>

Restart ==
    /\ permitted' \in BOOLEAN
    /\ UNCHANGED <<position, trades, consent>>

Next == Trade \/ Reduce \/ Consent \/ Restart

Spec == Init /\ [][Next]_vars

=============================================================================
