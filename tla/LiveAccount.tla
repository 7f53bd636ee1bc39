----------------------------- MODULE LiveAccount -----------------------------
(***************************************************************************)
(* The real account as the backend sees it.  The exchange holds the signed *)
(* positions; PositionSync copies them into Redis (live:position:<symbol>, *)
(* a hash with a TTL) every ten seconds; the ticker feed keeps the mark of *)
(* each symbol in latest:<symbol>.  The stop-loss of module StopLoss only  *)
(* ever reads the copies.                                                  *)
(***************************************************************************)
EXTENDS Integers

CONSTANTS
    Symbols,    \* the products the account may hold
    MaxLong,    \* bound: lots of a long position
    MaxShort,   \* bound: lots of a short position
    MaxTrades,  \* bound: trades done on the account by anybody but this program
    Marks,      \* the mark prices the ticker feed publishes
    RowMarks,   \* the mark prices a row of /v2/positions/margined carries
    NoMark,     \* a mark_price field that is absent
    Settings,   \* what a start of the process may find in its environment
    NoRow       \* a live:position hash that is absent

Sizes == -MaxShort .. MaxLong
Rows  == [size : Sizes, mark : RowMarks]

ASSUME AccountAssumption ==
    /\ MaxLong \in Nat
    /\ MaxShort \in Nat
    /\ MaxTrades \in Nat
    /\ Marks \subseteq Nat
    /\ NoMark \notin Nat
    /\ RowMarks \subseteq Nat \cup {NoMark}
    /\ NoRow \notin Rows
    /\ Settings \subseteq [keys : BOOLEAN, live : BOOLEAN]

VARIABLES
    position,   \* exchange: signed lots held, by symbol
    trades,     \* trades done so far (bounded by MaxTrades)
    settings,   \* the process settings: API keys present, live_trading_enabled
    latest,     \* Redis latest:<symbol>, its mark_price
    snap,       \* Redis live:position:<symbol>
    posIndex,   \* Redis live:positions, the set of symbols
    sync,       \* the PositionSync task
    missed      \* symbols that the last sync rounds did not refresh: their
                \* hash is running out of its TTL

accountVars == <<position, trades, settings, latest, snap, posIndex, sync, missed>>

SyncIdle == [pc |-> "idle", rows |-> [x \in Symbols |-> NoRow], todo |-> {}]

\* The symbols of the response a sync round is writing.
Listed == {x \in Symbols : sync.rows[x] # NoRow}

AccountTypeOK ==
    /\ position \in [Symbols -> Sizes]
    /\ trades \in 0 .. MaxTrades
    /\ settings \in Settings
    /\ latest \in [Symbols -> Marks \cup {NoMark}]
    /\ snap \in [Symbols -> Rows \cup {NoRow}]
    /\ posIndex \subseteq Symbols
    /\ sync \in [pc : {"idle", "write"}, rows : [Symbols -> Rows \cup {NoRow}],
                 todo : SUBSET Symbols]
    /\ sync.todo \subseteq Listed
    /\ missed \subseteq Symbols

AccountInit ==
    /\ position \in [Symbols -> Sizes]
    /\ trades = 0
    /\ settings \in Settings
    /\ latest = [x \in Symbols |-> NoMark]
    /\ snap = [x \in Symbols |-> NoRow]
    /\ posIndex = {}
    /\ sync = SyncIdle
    /\ missed = Symbols

-----------------------------------------------------------------------------
(* The exchange *)

\* A trade on the account by its owner, or the expiry of an option.
Trade(x, n) ==
    /\ trades < MaxTrades
    /\ n # position[x]
    /\ position' = [position EXCEPT ![x] = n]
    /\ trades' = trades + 1
    /\ UNCHANGED <<settings, latest, snap, posIndex, sync, missed>>

\* The ticker feed stores a mark, or the hash reaches the end of its TTL.
PriceMoves(x, m) ==
    /\ m # latest[x]
    /\ latest' = [latest EXCEPT ![x] = m]
    /\ UNCHANGED <<position, trades, settings, snap, posIndex, sync, missed>>

-----------------------------------------------------------------------------
(* PositionSync.sync_once *)

\* get_positions answers.  Open positions are listed; a flat one may be
\* listed with size 0 or left out.
SyncFetch ==
    /\ sync.pc = "idle"
    /\ settings.keys
    /\ \E listed \in SUBSET Symbols, mark \in [Symbols -> RowMarks] :
          /\ \A x \in Symbols \ listed : position[x] = 0
          /\ sync' = [pc   |-> "write",
                      rows |-> [x \in Symbols |->
                                  IF x \in listed
                                  THEN [size |-> position[x], mark |-> mark[x]]
                                  ELSE NoRow],
                      todo |-> listed]
    /\ UNCHANGED <<position, trades, settings, latest, snap, posIndex, missed>>

\* HSET merges: a row without a mark leaves the mark of the older hash.
Merged(old, new) ==
    IF new.mark = NoMark /\ old # NoRow THEN [new EXCEPT !.mark = old.mark] ELSE new

\* set_latest of one position, which also renews its TTL.
SyncWrite(x) ==
    /\ sync.pc = "write"
    /\ x \in sync.todo
    /\ snap' = [snap EXCEPT ![x] = Merged(snap[x], sync.rows[x])]
    /\ sync' = [sync EXCEPT !.todo = @ \ {x}]
    /\ missed' = missed \ {x}
    /\ UNCHANGED <<position, trades, settings, latest, posIndex>>

\* The round ends with the SADD of the symbols it wrote.
SyncDone ==
    /\ sync.pc = "write"
    /\ sync.todo = {}
    /\ posIndex' = posIndex \cup Listed
    /\ missed' = Symbols \ Listed
    /\ sync' = SyncIdle
    /\ UNCHANGED <<position, trades, settings, latest, snap>>

\* get_positions or Redis raises: run swallows it and sleeps.
SyncFails ==
    /\ settings.keys
    /\ missed' = IF sync.pc = "idle" THEN Symbols ELSE Symbols \ (Listed \ sync.todo)
    /\ sync' = SyncIdle
    /\ UNCHANGED <<position, trades, settings, latest, snap, posIndex>>

\* The TTL of a hash nobody refreshes runs out.
Expire(x) ==
    /\ x \in missed
    /\ snap[x] # NoRow
    /\ snap' = [snap EXCEPT ![x] = NoRow]
    /\ UNCHANGED <<position, trades, settings, latest, posIndex, sync, missed>>

AccountNext ==
    \/ \E x \in Symbols, n \in Sizes : Trade(x, n)
    \/ \E x \in Symbols, m \in Marks \cup {NoMark} : PriceMoves(x, m)
    \/ SyncFetch
    \/ \E x \in Symbols : SyncWrite(x)
    \/ SyncDone
    \/ SyncFails
    \/ \E x \in Symbols : Expire(x)

=============================================================================
