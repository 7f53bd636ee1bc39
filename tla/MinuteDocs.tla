----------------------------- MODULE MinuteDocs ------------------------------
(***************************************************************************)
(* What the documents say of the minute bars and the code does not do.     *)
(***************************************************************************)
EXTENDS MinuteBars

\* ADR 0002, 157: "OHLC is built from mark_price per bucket", and
\* minute_aggregator.py 4-5: "ON CONFLICT (symbol, ts) DO UPDATE for idempotency
\* on replays/late ticks".  A row of ticks_minute only gains ticks.  A tick that
\* arrives after its minute was flushed opens a new accumulator, whose upsert
\* replaces the row.
RowsOnlyGain ==
    [][\A k \in Held(table) :
          /\ table'[k].open = table[k].open \/ table[k].open = NoValue
          /\ table'[k].high = Higher(table'[k].high, table[k].high)
          /\ table'[k].low = Lower(table'[k].low, table[k].low)]_table

=============================================================================
