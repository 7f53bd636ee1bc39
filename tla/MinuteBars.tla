----------------------------- MODULE MinuteBars ------------------------------
(***************************************************************************)
(* From ticks to the bars of ticks_minute.  TickNormalizer adds ticks to a *)
(* buffer in memory, one accumulator for each symbol and minute;           *)
(* MinuteAggregator drains the accumulators of closed minutes, upserts     *)
(* them in one transaction, and puts them back when that raises.  Both run *)
(* on one event loop, so ticks arrive while a flush waits for Postgres.    *)
(***************************************************************************)
EXTENDS Integers, Sequences

CONSTANTS
    Symbols,     \* the products of the feed
    LastMinute,  \* bound: the clock stops there
    Marks,       \* mark prices a tick may carry
    Ivs,         \* volatilities; they stand for every field of which a bar keeps the last
    NoValue,     \* a field that is absent
    NoBar,       \* a symbol and minute without an accumulator, or without a row
    MaxTicks,    \* bound: ticks of one minute
    MaxFaults,   \* bound: flushes that raise
    MaxRestarts  \* bound: restarts of the process

\* What accumulators and rows are for: a symbol and the start of a minute.
Keys == Symbols \X (1 .. LastMinute)

Ticks == [mark : Marks \cup {NoValue}, iv : Ivs \cup {NoValue}]

Bars == [open : Marks \cup {NoValue}, high : Marks \cup {NoValue},
         low : Marks \cup {NoValue}, close : Marks \cup {NoValue},
         iv : Ivs \cup {NoValue}]

ASSUME BarsAssumption ==
    /\ LastMinute \in Nat
    /\ Marks \subseteq Int
    /\ NoValue \notin Int \cup Ivs
    /\ NoBar \notin Bars
    /\ {MaxTicks, MaxFaults, MaxRestarts} \subseteq Nat

VARIABLES
    now,      \* the current minute
    buffer,   \* MinuteBuffer._buckets
    flush,    \* the MinuteAggregator task: program counter and what it drained
    table,    \* ticks_minute
    used,     \* how much of each bound is used
    \* Observers: no action of the program reads them.
    seen,     \* the ticks of each symbol and minute, in the order they arrived
    saved,    \* bars whose upsert has been confirmed
    torn      \* bars of which a part was lost with the process, or came after
              \* the rest was saved

vars == <<now, buffer, flush, table, used, seen, saved, torn>>

-----------------------------------------------------------------------------
(* MinuteAccumulator *)

EmptyBar == [open |-> NoValue, high |-> NoValue, low |-> NoValue, close |-> NoValue,
             iv |-> NoValue]

\* a, unless it is absent.
Else(a, b) == IF a = NoValue THEN b ELSE a

Higher(a, b) ==
    IF a = NoValue \/ b = NoValue THEN Else(a, b) ELSE IF a >= b THEN a ELSE b

Lower(a, b) ==
    IF a = NoValue \/ b = NoValue THEN Else(a, b) ELSE IF a <= b THEN a ELSE b

\* update, whose price is the close of a tick and else its mark.  The bars of an option
\* get frames of the ticker alone, which carry no close; the spot's and the candles', which
\* SpotIndexer adds to the same buffer (spot_indexer.py:57), are bars of other symbols.
Update(bar, tick) ==
    [open  |-> Else(bar.open, tick.mark),
     high  |-> Higher(bar.high, tick.mark),
     low   |-> Lower(bar.low, tick.mark),
     close |-> Else(tick.mark, bar.close),
     iv    |-> Else(tick.iv, bar.iv)]

\* Mutant of MergeOlder: the older bar fills gaps only.
MergeGaps(bar, older) ==
    [open  |-> Else(bar.open, older.open),
     high  |-> Higher(bar.high, older.high),
     low   |-> Lower(bar.low, older.low),
     close |-> Else(bar.close, older.close),
     iv    |-> Else(bar.iv, older.iv)]

MergeOlder(bar, older) ==
    [open  |-> Else(older.open, bar.open),
     high  |-> Higher(bar.high, older.high),
     low   |-> Lower(bar.low, older.low),
     close |-> Else(bar.close, older.close),
     iv    |-> Else(bar.iv, older.iv)]

-----------------------------------------------------------------------------
(* State *)

\* Mutant of Closed: the current minute is taken for a closed one.
ClosedTooEarly(k) == k[2] <= now

Closed(k) == k[2] < now

Held(bars) == {k \in Keys : bars[k] # NoBar}

Idle == [pc |-> "sleep", drained |-> [k \in Keys |-> NoBar]]

TypeOK ==
    /\ now \in 1 .. LastMinute + 1
    /\ buffer \in [Keys -> Bars \cup {NoBar}]
    /\ flush \in [pc : {"sleep", "write", "close"}, drained : [Keys -> Bars \cup {NoBar}]]
    /\ \A k \in Held(flush.drained) : k[2] < now
    /\ table \in [Keys -> Bars \cup {NoBar}]
    /\ used \in [faults : 0 .. MaxFaults, restarts : 0 .. MaxRestarts]
    /\ seen \in [Keys -> Seq(Ticks)]
    /\ saved \subseteq Keys
    /\ torn \subseteq Keys

Init ==
    /\ now = 1
    /\ buffer = [k \in Keys |-> NoBar]
    /\ flush = Idle
    /\ table = [k \in Keys |-> NoBar]
    /\ used = [faults |-> 0, restarts |-> 0]
    /\ seen = [k \in Keys |-> <<>>]
    /\ saved = {}
    /\ torn = {}

-----------------------------------------------------------------------------
(* The feed *)

\* MinuteBuffer.add.  The minute is that of the exchange's timestamp, which may
\* be over when the tick arrives, or not have begun by this machine's clock.
Add(k, tick) ==
    /\ Len(seen[k]) < MaxTicks
    /\ buffer' = [buffer EXCEPT ![k] = Update(IF @ = NoBar THEN EmptyBar ELSE @, tick)]
    /\ seen' = [seen EXCEPT ![k] = Append(@, tick)]
    /\ torn' = IF k \in saved THEN torn \cup {k} ELSE torn
    /\ UNCHANGED <<now, flush, table, used, saved>>

NextMinute ==
    /\ now <= LastMinute
    /\ now' = now + 1
    /\ UNCHANGED <<buffer, flush, table, used, seen, saved, torn>>

-----------------------------------------------------------------------------
(* MinuteAggregator.flush_once *)

\* Mutant of Drained: only the minute that has just ended is looked at.
LastDrained == {k \in Held(buffer) : k[2] = now - 1}

Drained == {k \in Held(buffer) : Closed(k)}

\* drain_closed, up to the wait for the connection.
Drain ==
    /\ flush.pc = "sleep"
    /\ Drained # {}
    /\ flush' = [pc |-> "write",
                 drained |-> [k \in Keys |-> IF k \in Drained THEN buffer[k] ELSE NoBar]]
    /\ buffer' = [k \in Keys |-> IF k \in Drained THEN NoBar ELSE buffer[k]]
    /\ UNCHANGED <<now, table, used, seen, saved, torn>>

\* The transaction of _write commits: every row it has is replaced.
Write ==
    /\ flush.pc = "write"
    /\ table' = [k \in Keys |-> IF flush.drained[k] # NoBar THEN flush.drained[k] ELSE table[k]]
    /\ flush' = [flush EXCEPT !.pc = "close"]
    /\ UNCHANGED <<now, buffer, used, seen, saved, torn>>

\* The connection is closed, flush_once returns and forgets what it drained.
Saved ==
    /\ flush.pc = "close"
    /\ flush' = Idle
    /\ saved' = saved \cup Held(flush.drained)
    /\ torn' = torn \cup (Held(flush.drained) \cap Held(buffer))
    /\ UNCHANGED <<now, buffer, table, used, seen>>

\* Mutant of Readded: what was drained replaces what has come since.
PutBack(k) == IF flush.drained[k] = NoBar THEN buffer[k] ELSE flush.drained[k]

\* MinuteBuffer.readd.
Readded(k) ==
    IF flush.drained[k] = NoBar THEN buffer[k]
    ELSE IF buffer[k] = NoBar THEN flush.drained[k]
    ELSE MergeOlder(buffer[k], flush.drained[k])

\* asyncpg raises: before the commit, or after it (the answer is lost, or
\* closing fails).  What was drained goes back and run sleeps.
FlushFails ==
    /\ flush.pc # "sleep"
    /\ used.faults < MaxFaults
    /\ used' = [used EXCEPT !.faults = @ + 1]
    /\ buffer' = [k \in Keys |-> Readded(k)]
    /\ flush' = Idle
    /\ UNCHANGED <<now, table, seen, saved, torn>>

-----------------------------------------------------------------------------
\* The process stops (nothing is flushed then) and starts with an empty buffer.
Restart ==
    /\ used.restarts < MaxRestarts
    /\ used' = [used EXCEPT !.restarts = @ + 1]
    /\ buffer' = [k \in Keys |-> NoBar]
    /\ flush' = Idle
    /\ torn' = torn \cup Held(buffer) \cup Held(flush.drained)
    /\ UNCHANGED <<now, table, seen, saved>>

Aggregate == Drain \/ Write \/ Saved

Next ==
    \/ \E k \in Keys, tick \in Ticks : Add(k, tick)
    \/ NextMinute
    \/ Aggregate
    \/ FlushFails
    \/ Restart

Spec == Init /\ [][Next]_vars

\* The event loop keeps running the aggregator; the feed, the clock and the
\* failures owe nothing.
FairSpec == Spec /\ WF_vars(Aggregate)

-----------------------------------------------------------------------------
(* Properties *)

Marked(s) == {i \in DOMAIN s : s[i].mark # NoValue}
Rated(s) == {i \in DOMAIN s : s[i].iv # NoValue}

\* What the bar of a sequence of ticks is: its open is the first mark, its close
\* the last one, its high and low the extremes, its volatility the last one.
IsBarOf(bar, s) ==
    /\ IF Marked(s) = {}
       THEN bar.open = NoValue /\ bar.close = NoValue /\ bar.high = NoValue /\ bar.low = NoValue
       ELSE /\ \E i \in Marked(s) : bar.open = s[i].mark /\ \A j \in Marked(s) : i <= j
            /\ \E i \in Marked(s) : bar.close = s[i].mark /\ \A j \in Marked(s) : j <= i
            /\ \E i \in Marked(s) : bar.high = s[i].mark /\ \A j \in Marked(s) : s[j].mark <= s[i].mark
            /\ \E i \in Marked(s) : bar.low = s[i].mark /\ \A j \in Marked(s) : s[i].mark <= s[j].mark
    /\ IF Rated(s) = {}
       THEN bar.iv = NoValue
       ELSE \E i \in Rated(s) : bar.iv = s[i].iv /\ \A j \in Rated(s) : j <= i

\* Where the bar of a symbol and minute is: in memory (merged from what is being
\* flushed and what came since), or else in the table.
Whole(k) == IF Readded(k) # NoBar THEN Readded(k) ELSE table[k]

\* However flushes fail, before or after their commit, and whatever ticks arrive
\* while one is waiting, a bar is exactly that of the ticks of its minute
\* (readd, merge_older), as long as no part of it came after the rest was saved
\* or was lost with the process.
BarsAreWhole ==
    \A k \in Keys \ torn :
        IF seen[k] = <<>> THEN Whole(k) = NoBar
        ELSE Whole(k) # NoBar /\ IsBarOf(Whole(k), seen[k])

\* A row that has been confirmed and not been added to since is the whole bar.
SavedRowsAreWhole ==
    \A k \in saved \ torn : table[k] # NoBar /\ IsBarOf(table[k], seen[k])

\* The bar of a closed minute does not stay in memory for ever: failures delay
\* it, the clock moving on does not strand it.
BacklogDrains ==
    \A k \in Keys :
        k \in Held(buffer) /\ Closed(k) ~> k \notin Held(buffer) \cup Held(flush.drained)

=============================================================================
