------------------------------ MODULE StopLoss -------------------------------
(***************************************************************************)
(* The whole-strategy stop-loss: the arm and disarm requests of the API,   *)
(* the SLMonitor task with the aggregate it computes, and the LiveCloser   *)
(* it calls.  Everything runs on one event loop, so an action is what      *)
(* happens between two awaits; state lives in Redis and survives a restart *)
(* of the process, the monitor's and the requests' local variables do not. *)
(***************************************************************************)
EXTENDS LiveAccount, FiniteSets

CONSTANTS
    Strategies,     \* ids of live_strategies
    Calls,          \* stop-loss requests the API may be serving at once
    Legs,           \* the symbols tagged to each strategy; one strategy per symbol
    Entry,          \* entry price of a position, by symbol (a lot is one contract unit)
    LotMargin,      \* margin the exchange reports for one lot
    AbsThresholds,  \* values a request may give for threshold_abs
    PctThresholds,  \* values a request may give for threshold_pct
    NoThreshold,    \* a threshold that is not given, or absent from the hash
    NoStrategy,     \* the monitor is not looking at any strategy
    NoCall,         \* no request of a strategy has taken effect yet
    Debounce,       \* settings.sl_debounce_ticks
    HttpAttempts,   \* attempts tenacity makes in one call of _request
    PartialFills,   \* whether the exchange may fill less than it could
    MaxArms, MaxDisarms, MaxRestarts, MaxFaults  \* bounds on the environment

ASSUME StopLossAssumption ==
    /\ Legs \in [Strategies -> SUBSET Symbols]
    /\ \A s, t \in Strategies : s # t => Legs[s] \cap Legs[t] = {}
    /\ Entry \in [Symbols -> Nat]
    /\ LotMargin \in Nat
    /\ AbsThresholds \subseteq Int
    /\ PctThresholds \subseteq Int
    /\ NoThreshold \notin Int
    /\ NoStrategy \notin Strategies
    /\ NoCall \notin Calls
    /\ Debounce \in Nat \ {0}
    /\ HttpAttempts \in Nat \ {0}
    /\ PartialFills \in BOOLEAN
    /\ {MaxArms, MaxDisarms, MaxRestarts, MaxFaults} \subseteq Nat

VARIABLES
    hash,     \* Redis live:sl:<id>; a hash that is absent is NoHash
    index,    \* Redis live:sl:index
    mon,      \* the SLMonitor task: program counter and local variables
    req,      \* the stop-loss requests in flight; nothing keeps two of a strategy apart
    used,     \* how much of each bound the environment has used
    \* Observers: no action of the program reads them.
    reply,    \* whether the request that took effect last on a strategy was confirmed
    last,     \* the request that took effect last on a strategy
    streak,   \* consecutive evaluations of a strategy that found it breaching
    asked     \* the thresholds of the last arm request accepted for a strategy

slVars == <<hash, index, mon, req, used, reply, last, streak, asked>>
vars == <<accountVars, slVars>>

-----------------------------------------------------------------------------
(* Values *)

SLStates == {"ARMED", "TRIGGERED", "CLOSING", "CLOSED", "FAILED"}

AbsValues == AbsThresholds \cup {NoThreshold}
PctValues == PctThresholds \cup {NoThreshold}

\* A hash without a field reads as the default the code gives it: "none" for
\* a missing state, 0 for a missing counter.
Hash == [state : SLStates \cup {"none"}, abs : AbsValues, pct : PctValues,
         breach : Nat, attempts : Nat]

NoHash == [state |-> "none", abs |-> NoThreshold, pct |-> NoThreshold,
           breach |-> 0, attempts |-> 0]

\* What a request asked for; an accepted one gives at least one threshold.
Asked == [abs : AbsValues, pct : PctValues]

NotAsked == [abs |-> NoThreshold, pct |-> NoThreshold]

\* One leg of a close: the signed size of the snapshot its payload was built
\* from (0: no order), the attempts used up, and whether one was accepted.
Order == [size : Sizes, tries : 0 .. 2 * HttpAttempts, ok : BOOLEAN]

NoOrder == [size |-> 0, tries |-> 0, ok |-> FALSE]

Aggregate == [loss : Int, margin : Int, stale : BOOLEAN]

EmptyAggregate == [loss |-> 0, margin |-> 0, stale |-> FALSE]

MonitorPcs == {"sleep", "next", "legs", "count", "closing", "announce", "gate",
               "load", "place", "finish", "deindex", "record"}

Monitor == [pc : MonitorPcs, queue : SUBSET Strategies,
            sid : Strategies \cup {NoStrategy}, st : Hash, todo : SUBSET Symbols,
            agg : Aggregate, orders : [Symbols -> Order], raised : BOOLEAN]

Asleep == [pc |-> "sleep", queue |-> {}, sid |-> NoStrategy, st |-> NoHash, todo |-> {},
           agg |-> EmptyAggregate, orders |-> [x \in Symbols |-> NoOrder],
           raised |-> FALSE]

\* Back at the top of the for loop over the copied index.
LoopTop == [Asleep EXCEPT !.pc = "next", !.queue = mon.queue]

RequestSteps == {"none", "arm:hash", "arm:index", "disarm:read", "disarm:deleted",
                 "disarm:unindexed"}

Requests == [sid : Strategies \cup {NoStrategy}, step : RequestSteps]

NoRequest == [sid |-> NoStrategy, step |-> "none"]

OrdersPermitted == settings.keys /\ settings.live

TypeOK ==
    /\ AccountTypeOK
    /\ hash \in [Strategies -> Hash]
    /\ index \subseteq Strategies
    /\ mon \in Monitor
    /\ mon.pc \notin {"sleep", "next"} => mon.sid \in Strategies
    /\ req \in [Calls -> Requests]
    /\ \A c \in Calls : req[c].step # "none" => req[c].sid \in Strategies
    /\ used \in [arms : 0 .. MaxArms, disarms : 0 .. MaxDisarms,
                 restarts : 0 .. MaxRestarts, faults : 0 .. MaxFaults]
    /\ reply \in [Strategies -> {"none", "armed", "disarmed"}]
    /\ last \in [Strategies -> Calls \cup {NoCall}]
    /\ streak \in [Strategies -> Nat]
    /\ asked \in [Strategies -> Asked]

Init ==
    /\ AccountInit
    /\ hash = [s \in Strategies |-> NoHash]
    /\ index = {}
    /\ mon = Asleep
    /\ req = [c \in Calls |-> NoRequest]
    /\ used = [arms |-> 0, disarms |-> 0, restarts |-> 0, faults |-> 0]
    /\ reply = [s \in Strategies |-> "none"]
    /\ last = [s \in Strategies |-> NoCall]
    /\ streak = [s \in Strategies |-> 0]
    /\ asked = [s \in Strategies |-> NotAsked]

-----------------------------------------------------------------------------
(* The API: POST and DELETE /live/strategies/{id}/stop-loss *)

Given(new, old) == IF new = NoThreshold THEN old ELSE new

\* Request c is at a step, for strategy s.  Several requests of one strategy may
\* be under way: neither the API nor sl_monitor takes a lock.
At(c, s, step) == req[c] = [sid |-> s, step |-> step]

\* Whose answer tells the state of s from now on: request c has just taken effect.
TakesEffect(c, s) ==
    /\ reply' = [reply EXCEPT ![s] = "none"]
    /\ last' = [last EXCEPT ![s] = c]

\* Request c is answered.  The answer of a request that another one overtook says
\* nothing of the strategy any more.
Answered(c, s, answer) ==
    /\ req' = [req EXCEPT ![c] = NoRequest]
    /\ reply' = [reply EXCEPT ![s] = IF last[s] = c THEN answer ELSE @]
    /\ UNCHANGED last

\* set_stop_loss passes the gate; arm writes the hash.  HSET merges: a
\* threshold that is not given keeps the value an earlier arm left.
Arm(c, s, abs, pct) ==
    /\ req[c] = NoRequest
    /\ used.arms < MaxArms
    /\ OrdersPermitted
    /\ abs # NoThreshold \/ pct # NoThreshold
    /\ hash' = [hash EXCEPT ![s] = [state |-> "ARMED", breach |-> 0, attempts |-> 0,
                                    abs |-> Given(abs, @.abs), pct |-> Given(pct, @.pct)]]
    /\ req' = [req EXCEPT ![c] = [sid |-> s, step |-> "arm:hash"]]
    /\ used' = [used EXCEPT !.arms = @ + 1]
    /\ TakesEffect(c, s)
    /\ asked' = [asked EXCEPT ![s] = [abs |-> abs, pct |-> pct]]
    /\ UNCHANGED <<accountVars, index, mon, streak>>

ArmIndex(c, s) ==
    /\ At(c, s, "arm:hash")
    /\ index' = index \cup {s}
    /\ req' = [req EXCEPT ![c].step = "arm:index"]
    /\ UNCHANGED <<accountVars, hash, mon, used, reply, last, streak, asked>>

\* The event row is inserted and published, and the user sees ARMED.
ArmDone(c, s) ==
    /\ At(c, s, "arm:index")
    /\ Answered(c, s, "armed")
    /\ UNCHANGED <<accountVars, hash, index, mon, used, streak, asked>>

\* clear_stop_loss needs keys only.  disarm answers 409 when the hash it
\* reads is not ARMED; that request changes nothing.
Disarm(c, s) ==
    /\ req[c] = NoRequest
    /\ used.disarms < MaxDisarms
    /\ settings.keys
    /\ hash[s].state = "ARMED"
    /\ req' = [req EXCEPT ![c] = [sid |-> s, step |-> "disarm:read"]]
    /\ used' = [used EXCEPT !.disarms = @ + 1]
    /\ UNCHANGED <<accountVars, hash, index, mon, reply, last, streak, asked>>

\* Mutant of DisarmDelete: the hash is left for the SREM alone to retire.
DisarmKeepsHash(c, s) ==
    /\ At(c, s, "disarm:read")
    /\ req' = [req EXCEPT ![c].step = "disarm:deleted"]
    /\ TakesEffect(c, s)
    /\ UNCHANGED <<accountVars, hash, index, mon, used, streak, asked>>

DisarmDelete(c, s) ==
    /\ At(c, s, "disarm:read")
    /\ hash' = [hash EXCEPT ![s] = NoHash]
    /\ req' = [req EXCEPT ![c].step = "disarm:deleted"]
    /\ TakesEffect(c, s)
    /\ UNCHANGED <<accountVars, index, mon, used, streak, asked>>

DisarmUnindex(c, s) ==
    /\ At(c, s, "disarm:deleted")
    /\ index' = index \ {s}
    /\ req' = [req EXCEPT ![c].step = "disarm:unindexed"]
    /\ UNCHANGED <<accountVars, hash, mon, used, reply, last, streak, asked>>

DisarmDone(c, s) ==
    /\ At(c, s, "disarm:unindexed")
    /\ Answered(c, s, "disarmed")
    /\ UNCHANGED <<accountVars, hash, index, mon, used, streak, asked>>

\* Redis or the database raises in a request: the user gets an error.
RequestFails(c) ==
    /\ req[c] # NoRequest
    /\ used.faults < MaxFaults
    /\ used' = [used EXCEPT !.faults = @ + 1]
    /\ req' = [req EXCEPT ![c] = NoRequest]
    /\ UNCHANGED <<accountVars, hash, index, mon, reply, last, streak, asked>>

Request(c, s) ==
    \/ \E abs \in AbsValues, pct \in PctValues : Arm(c, s, abs, pct)
    \/ ArmIndex(c, s)
    \/ ArmDone(c, s)
    \/ Disarm(c, s)
    \/ DisarmDelete(c, s)
    \/ DisarmUnindex(c, s)
    \/ DisarmDone(c, s)

-----------------------------------------------------------------------------
(* SLMonitor._tick and _check_armed *)

\* run wakes up; _tick copies the index, because _do_close removes from it.
TickStart ==
    /\ mon.pc = "sleep"
    /\ mon' = [Asleep EXCEPT !.pc = "next", !.queue = index]
    /\ UNCHANGED <<accountVars, hash, index, req, used, reply, last, streak, asked>>

TickEnd ==
    /\ mon.pc = "next"
    /\ mon.queue = {}
    /\ mon' = Asleep
    /\ UNCHANGED <<accountVars, hash, index, req, used, reply, last, streak, asked>>

\* Mutants of Dispatch: whatever is not ARMED is resumed; nothing is resumed.
ResumeAll(state) == IF state = "ARMED" THEN "legs" ELSE "closing"
ResumeNone(state) == IF state = "ARMED" THEN "legs" ELSE "next"

\* What the monitor does with a strategy whose hash it has just read.
Dispatch(state) ==
    CASE state \in {"CLOSING", "TRIGGERED"} -> "closing"
      [] state = "ARMED"                    -> "legs"
      [] OTHER                              -> "next"

\* get_latest of the next strategy; the set has no order.
NextStrategy(s) ==
    /\ mon.pc = "next"
    /\ s \in mon.queue
    /\ LET rest == [LoopTop EXCEPT !.queue = mon.queue \ {s}]
           to   == Dispatch(hash[s].state)
       IN  mon' = IF to = "next"
                  THEN rest
                  ELSE [rest EXCEPT !.pc = to, !.sid = s, !.st = hash[s],
                                    !.todo = IF to = "legs" THEN Legs[s] ELSE {}]
    /\ UNCHANGED <<accountVars, hash, index, req, used, reply, last, streak, asked>>

\* A Decimal zero is false: a ticker mark of 0 gives way to the row's mark,
\* and if that one is absent the leg has no mark.
MarkOf(tick, row) == IF tick \notin {NoMark, 0} THEN tick ELSE row

Lots(n) == IF n < 0 THEN -n ELSE n

\* aggregate's loop body for one leg.  No hash or size 0: the leg is left
\* out.  A leg without a mark makes the aggregate stale and adds no loss.
WithLeg(agg, x, row, tick) ==
    IF row = NoRow THEN agg
    ELSE IF row.size = 0 THEN agg
    ELSE LET mark == MarkOf(tick, row.mark) IN
         [loss   |-> agg.loss + (IF mark = NoMark THEN 0 ELSE row.size * (Entry[x] - mark)),
          margin |-> agg.margin + Lots(row.size) * LotMargin,
          stale  |-> agg.stale \/ mark = NoMark]

AggregateLeg(x) ==
    /\ mon.pc = "legs"
    /\ x \in mon.todo
    /\ mon' = [mon EXCEPT !.agg = WithLeg(@, x, snap[x], latest[x]), !.todo = @ \ {x}]
    /\ UNCHANGED <<accountVars, hash, index, req, used, reply, last, streak, asked>>

AggregateDone ==
    /\ mon.pc = "legs"
    /\ mon.todo = {}
    /\ mon' = [mon EXCEPT !.pc = "count"]
    /\ UNCHANGED <<accountVars, hash, index, req, used, reply, last, streak, asked>>

\* SLMonitor._breaches; threshold_pct counts percent of the margin.
Breaches(agg, st) ==
    \/ /\ st.abs # NoThreshold
       /\ agg.loss >= st.abs
    \/ /\ st.pct # NoThreshold
       /\ agg.margin > 0
       /\ 100 * agg.loss >= st.pct * agg.margin

Breaching(agg, st) == ~agg.stale /\ Breaches(agg, st)

\* Mutant of CountAfter: a tick that does not breach leaves the count.
CountKept(agg, st) == IF Breaching(agg, st) THEN st.breach + 1 ELSE st.breach

\* The count goes up from the value read before the legs were aggregated.
CountAfter(agg, st) == IF Breaching(agg, st) THEN st.breach + 1 ELSE 0

\* The count is written to whatever the hash has become meanwhile.
CountBreach ==
    /\ mon.pc = "count"
    /\ LET s == mon.sid
           n == CountAfter(mon.agg, mon.st)
       IN  /\ hash' = [hash EXCEPT ![s].breach = n]
           /\ streak' = [streak EXCEPT ![s] = IF Breaching(mon.agg, mon.st) THEN @ + 1 ELSE 0]
           /\ mon' = IF n >= Debounce
                     THEN [mon EXCEPT !.pc = "closing", !.agg = EmptyAggregate]
                     ELSE LoopTop
    /\ UNCHANGED <<accountVars, index, req, used, reply, last, asked>>

-----------------------------------------------------------------------------
(* SLMonitor._do_close around LiveCloser.close_strategy *)

\* Mutant of MarkClosing: the strategy leaves the index when its close starts.
MarkClosingDeindexes ==
    /\ mon.pc = "closing"
    /\ hash' = [hash EXCEPT ![mon.sid].state = "CLOSING"]
    /\ index' = index \ {mon.sid}
    /\ mon' = [mon EXCEPT !.pc = "announce"]
    /\ UNCHANGED <<accountVars, req, used, reply, last, streak, asked>>

MarkClosing ==
    /\ mon.pc = "closing"
    /\ hash' = [hash EXCEPT ![mon.sid].state = "CLOSING"]
    /\ mon' = [mon EXCEPT !.pc = "announce"]
    /\ UNCHANGED <<accountVars, index, req, used, reply, last, streak, asked>>

\* Mutant of Announce: the gate is left to the request that armed.
AnnounceUngated ==
    /\ mon.pc = "announce"
    /\ mon' = [mon EXCEPT !.pc = "load", !.todo = Legs[mon.sid]]
    /\ UNCHANGED <<accountVars, hash, index, req, used, reply, last, streak, asked>>

\* The event row goes in, then the closer checks the gate before anything else.
Announce ==
    /\ mon.pc = "announce"
    /\ mon' = IF OrdersPermitted
              THEN [mon EXCEPT !.pc = "load", !.todo = Legs[mon.sid]]
              ELSE [mon EXCEPT !.pc = "finish", !.raised = TRUE]
    /\ UNCHANGED <<accountVars, hash, index, req, used, reply, last, streak, asked>>

\* A leg with a snapshot of nonzero size gets a payload; any other is skipped.
ClosingSize(row) == IF row = NoRow THEN 0 ELSE row.size

LoadLeg(x) ==
    /\ mon.pc = "load"
    /\ x \in mon.todo
    /\ mon' = [mon EXCEPT !.orders[x].size = ClosingSize(snap[x]), !.todo = @ \ {x}]
    /\ UNCHANGED <<accountVars, hash, index, req, used, reply, last, streak, asked>>

LoadDone ==
    /\ mon.pc = "load"
    /\ mon.todo = {}
    /\ mon' = [mon EXCEPT !.pc = "place"]
    /\ UNCHANGED <<accountVars, hash, index, req, used, reply, last, streak, asked>>

\* strategy_symbols or Redis raises inside close_strategy.
CloseRaises ==
    /\ mon.pc = "load"
    /\ used.faults < MaxFaults
    /\ used' = [used EXCEPT !.faults = @ + 1]
    /\ mon' = [mon EXCEPT !.pc = "finish", !.todo = {}, !.raised = TRUE,
                          !.orders = [x \in Symbols |-> NoOrder]]
    /\ UNCHANGED <<accountVars, hash, index, req, reply, last, streak, asked>>

\* The legs of the payloads, those whose coroutine has not ended, and those
\* that ended with an exception.
Ordered == {x \in Symbols : mon.orders[x].size # 0}
Pending == {x \in Ordered : ~mon.orders[x].ok /\ mon.orders[x].tries < 2 * HttpAttempts}
Errored == {x \in Ordered : ~mon.orders[x].ok /\ mon.orders[x].tries = 2 * HttpAttempts}

\* What the exchange may leave of position p when it executes a reduce-only,
\* immediate-or-cancel order built from a snapshot of size n: it fills toward
\* zero, at most n lots and never past zero, and nothing if p is flat or on the
\* other side.
Executed(p, n) ==
    {q \in Sizes :
        \/ q = p /\ (PartialFills \/ n * p <= 0)
        \/ n > 0 /\ p > 0 /\ 0 <= q /\ q < p /\ p - q <= n
              /\ (PartialFills \/ q = 0 \/ p - q = n)
        \/ n < 0 /\ p < 0 /\ p < q /\ q <= 0 /\ q - p <= -n
              /\ (PartialFills \/ q = 0 \/ q - p = -n)}

\* The answer of an order came back, or the attempt raised.
Accepted(o) == [o EXCEPT !.ok = TRUE]
Raised(o)   == [o EXCEPT !.tries = @ + 1]

\* One HTTP attempt for leg x.  The exchange executes the order and the answer
\* arrives; or the attempt raises, whether the order was executed or not.  An attempt
\* looks at the settings again before it is sent; they are those of the gate as long
\* as the process lives.
Attempt(x) ==
    /\ mon.pc = "place"
    /\ x \in Pending
    /\ \/ /\ \E q \in Executed(position[x], mon.orders[x].size) :
                position' = [position EXCEPT ![x] = q]
          /\ mon' = [mon EXCEPT !.orders[x] = Accepted(@)]
       \/ /\ \E q \in Executed(position[x], mon.orders[x].size) \cup {position[x]} :
                position' = [position EXCEPT ![x] = q]
          /\ mon' = [mon EXCEPT !.orders[x] = Raised(@)]
    /\ UNCHANGED <<trades, settings, latest, snap, posIndex, sync, missed,
                   hash, index, req, used, reply, last, streak, asked>>

\* Mutant of RateLimited: a refused token is charged as a whole call.
RateLimitedChargesCall(x) ==
    /\ mon.pc = "place"
    /\ x \in Pending
    /\ mon' = [mon EXCEPT !.orders[x].tries = @ + HttpAttempts]
    /\ UNCHANGED <<accountVars, hash, index, req, used, reply, last, streak, asked>>

\* The token bucket is empty: RateLimitError ends this call of place_order at
\* once, so what is left of it is only the second call of _place_with_retry.
RateLimited(x) ==
    /\ mon.pc = "place"
    /\ x \in Pending
    /\ mon' = [mon EXCEPT !.orders[x].tries =
                  IF @ < HttpAttempts THEN HttpAttempts ELSE 2 * HttpAttempts]
    /\ UNCHANGED <<accountVars, hash, index, req, used, reply, last, streak, asked>>

\* gather returns when every leg's coroutine has ended.
PlaceDone ==
    /\ mon.pc = "place"
    /\ Pending = {}
    /\ mon' = [mon EXCEPT !.pc = "finish"]
    /\ UNCHANGED <<accountVars, hash, index, req, used, reply, last, streak, asked>>

\* Mutant of AllClosed: legs that failed twice are not looked at.
AnyOrdered == Ordered # {}

AllClosed == Ordered # {} /\ Errored = {}

Verdict == IF ~mon.raised /\ AllClosed THEN "CLOSED" ELSE "FAILED"

Finish ==
    /\ mon.pc = "finish"
    /\ hash' = [hash EXCEPT ![mon.sid].state = Verdict,
                            ![mon.sid].attempts = mon.st.attempts + 1]
    /\ mon' = [mon EXCEPT !.pc = "deindex"]
    /\ UNCHANGED <<accountVars, index, req, used, reply, last, streak, asked>>

Deindex ==
    /\ mon.pc = "deindex"
    /\ index' = index \ {mon.sid}
    /\ mon' = [mon EXCEPT !.pc = "record"]
    /\ UNCHANGED <<accountVars, hash, req, used, reply, last, streak, asked>>

RecordEvent ==
    /\ mon.pc = "record"
    /\ mon' = LoopTop
    /\ UNCHANGED <<accountVars, hash, index, req, used, reply, last, streak, asked>>

-----------------------------------------------------------------------------
(* Failures of the process and of what it calls *)

\* Mutant of TickFails: nothing catches the exception, and the task is over.
TickFailureEndsRun ==
    /\ mon.pc \in MonitorPcs \ {"sleep", "load", "place"}
    /\ used.faults < MaxFaults
    /\ used' = [used EXCEPT !.faults = @ + 1]
    /\ mon' = [Asleep EXCEPT !.pc = "ended"]
    /\ UNCHANGED <<accountVars, hash, index, req, reply, last, streak, asked>>

\* Redis or the database raises outside close_strategy: run logs it and the
\* rest of the tick is skipped.
TickFails ==
    /\ mon.pc \in MonitorPcs \ {"sleep", "load", "place"}
    /\ used.faults < MaxFaults
    /\ used' = [used EXCEPT !.faults = @ + 1]
    /\ mon' = Asleep
    /\ UNCHANGED <<accountVars, hash, index, req, reply, last, streak, asked>>

\* The process stops anywhere and starts again, perhaps with other settings.
Restart(new) ==
    /\ used.restarts < MaxRestarts
    /\ used' = [used EXCEPT !.restarts = @ + 1]
    /\ settings' = new
    /\ mon' = Asleep
    /\ req' = [c \in Calls |-> NoRequest]
    /\ sync' = SyncIdle
    /\ missed' = Symbols
    /\ UNCHANGED <<position, trades, latest, snap, posIndex,
                   hash, index, reply, last, streak, asked>>

MonitorStep ==
    \/ TickStart
    \/ TickEnd
    \/ \E s \in Strategies : NextStrategy(s)
    \/ \E x \in Symbols : AggregateLeg(x)
    \/ AggregateDone
    \/ CountBreach
    \/ MarkClosing
    \/ Announce
    \/ \E x \in Symbols : LoadLeg(x)
    \/ LoadDone
    \/ \E x \in Symbols : Attempt(x)
    \/ PlaceDone
    \/ Finish
    \/ Deindex
    \/ RecordEvent

Next ==
    \/ AccountNext /\ UNCHANGED slVars
    \/ \E c \in Calls, s \in Strategies : Request(c, s)
    \/ \E c \in Calls : RequestFails(c)
    \/ MonitorStep
    \/ CloseRaises
    \/ \E x \in Symbols : RateLimited(x)
    \/ TickFails
    \/ \E new \in Settings : Restart(new)

Spec == Init /\ [][Next]_vars

-----------------------------------------------------------------------------
(* Safety *)

\* The program moves real positions only as Exposure allows: toward zero,
\* while the settings permit orders, for a strategy somebody armed
\* (close_strategy's gate, build_close_payload's reduce_only, set_stop_loss).
E == INSTANCE Exposure WITH
        permitted <- OrdersPermitted,
        consent <- {s \in Strategies : asked[s] # NotAsked}

ExposureHeld == E!Spec

\* A close that does not resume an older one was preceded by Debounce
\* evaluations in a row that found the strategy breaching, none of them
\* stale, however arming, disarming and restarts fall between them
\* (_check_armed's breach_count).
Firing == mon.pc \notin {"sleep", "next", "legs", "count"} /\ mon.st.state = "ARMED"

FiresOnlyAfterDebounce == Firing => streak[mon.sid] >= Debounce

\* A stop-loss whose arming was confirmed stays under watch until it is
\* disarmed or has run: a restart or a failure between any two writes never
\* leaves it ARMED or CLOSING but out of the index _tick walks over.
ConfirmedStopIsWatched ==
    \A s \in Strategies :
        reply[s] = "armed" /\ hash[s].state \in {"ARMED", "CLOSING"} => s \in index

\* When a close ends CLOSED, every leg it had an order for is flat.  True of an
\* account nobody else trades on and an exchange that fills in full.
ClosedLegsAreFlat ==
    mon.pc = "finish" /\ Verdict = "CLOSED" => \A x \in Ordered : position[x] = 0

\* In this step arm request c takes effect on s.
ArmsNow(c, s) == req[c] = NoRequest /\ req'[c] = [sid |-> s, step |-> "arm:hash"]

\* A finished stop-loss stays finished until it is armed again: a restart
\* between the write of the final state and the removal from the index does
\* not close a second time.
FinishedIsFinal ==
    [][\A s \in Strategies :
          hash[s].state \in {"CLOSED", "FAILED"} /\ hash'[s].state # hash[s].state
             => \E c \in Calls : ArmsNow(c, s)]_<<hash, req>>

\* The monitor does not take up a strategy whose disarming was confirmed, even
\* one it still has in its copy of the index.
DisarmedIsNotTakenUp ==
    [][\A s \in Strategies :
          mon.pc = "next" /\ mon'.sid = s => reply[s] # "disarmed"]_mon

=============================================================================
