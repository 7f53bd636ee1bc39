------------------------------ MODULE PaperDocs ------------------------------
(***************************************************************************)
(* What the documents and comments say of the paper book and the code does *)
(* not do.                                                                 *)
(***************************************************************************)
EXTENDS PaperBook

\* ADR 0003, 217-219: "realized_pnl += sum of (exit_fill - entry_fill) *
\* signed_qty_closed * contract_size" per closed slice, and engine.py 235-236,
\* "a concurrent close can't ... double-count realized PnL".  The row the sum is
\* added to is read before the lock, so of two closes that overlap the second
\* one writes a total without the first one's slices.
RealizedIsSum == \A p \in Positions : realized[p] = Gain(p)

=============================================================================
