--------------------------- MODULE StopLossProofs ----------------------------
(***************************************************************************)
(* Theorems about StopLoss that hold for every number of symbols,          *)
(* strategies, requests, restarts and failures.                            *)
(***************************************************************************)
EXTENDS StopLoss, TLAPS

USE AccountAssumption, StopLossAssumption

-----------------------------------------------------------------------------
(* Types *)

LEMMA InitType == Init => TypeOK
  <1> SUFFICES ASSUME Init PROVE TypeOK
    OBVIOUS
  <1>1. AccountTypeOK
    BY DEF Init, AccountInit, AccountTypeOK, SyncIdle, Listed
  <1>2. NoHash \in Hash
    BY DEF NoHash, Hash, AbsValues, PctValues
  <1>3. Asleep \in Monitor
    BY <1>2 DEF Asleep, Monitor, MonitorPcs, EmptyAggregate, Aggregate, NoOrder, Order, Sizes
  <1>4. QED
    BY <1>1, <1>2, <1>3
    DEF Init, TypeOK, Asleep, Requests, RequestSteps, NoRequest, Asked, NotAsked, AbsValues,
        PctValues

LEMMA AccountStepType ==
  ASSUME AccountTypeOK, AccountNext
  PROVE  AccountTypeOK'
  <1> USE DEF AccountTypeOK
  <1>1. ASSUME NEW x \in Symbols, NEW n \in Sizes, Trade(x, n)
        PROVE  AccountTypeOK'
    BY <1>1 DEF Trade, Listed
  <1>2. ASSUME NEW x \in Symbols, NEW m \in Marks \cup {NoMark}, PriceMoves(x, m)
        PROVE  AccountTypeOK'
    BY <1>2 DEF PriceMoves, Listed
  <1>3. CASE SyncFetch
    BY <1>3 DEF SyncFetch, Listed, Rows
  <1>4. ASSUME NEW x \in Symbols, SyncWrite(x)
        PROVE  AccountTypeOK'
    <2>1. sync.rows[x] \in Rows
      BY <1>4 DEF SyncWrite, Listed
    <2>2. Merged(snap[x], sync.rows[x]) \in Rows
      BY <2>1 DEF Merged, Rows
    <2>3. QED
      BY <1>4, <2>2 DEF SyncWrite, Listed
  <1>5. CASE SyncDone
    BY <1>5 DEF SyncDone, SyncIdle, Listed
  <1>6. CASE SyncFails
    BY <1>6 DEF SyncFails, SyncIdle, Listed
  <1>7. ASSUME NEW x \in Symbols, Expire(x)
        PROVE  AccountTypeOK'
    BY <1>7 DEF Expire, Listed
  <1>8. QED
    BY <1>1, <1>2, <1>3, <1>4, <1>5, <1>6, <1>7 DEF AccountNext


LEMMA FinishedHashType ==
  ASSUME NEW h \in Hash, NEW v \in SLStates, NEW n \in Nat
  PROVE  [h EXCEPT !.state = v, !.attempts = n] \in Hash
  BY DEF Hash

\* A request is at a step for a strategy, or it is none.
LEMMA RequestsType ==
  /\ NoRequest \in Requests
  /\ \A s \in Strategies, step \in RequestSteps : [sid |-> s, step |-> step] \in Requests
  BY DEF Requests, RequestSteps, NoRequest

\* A request goes on to its next step.
LEMMA RequestGoesOn ==
  ASSUME TypeOK, NEW c \in Calls, NEW s \in Strategies, req[c].sid = s,
         NEW step \in RequestSteps, req' = [req EXCEPT ![c].step = step]
  PROVE  /\ req' \in [Calls -> Requests]
         /\ \A d \in Calls : req'[d].step # "none" => req'[d].sid \in Strategies
         /\ At(c, s, step)' /\ req'[c].sid = s /\ req'[c].step = step
         /\ \A d \in Calls \ {c} : req'[d] = req[d]
  <1>1. req \in [Calls -> Requests] /\ req[c] \in Requests
    BY DEF TypeOK
  <1>2. [req[c] EXCEPT !.step = step] = [sid |-> s, step |-> step]
    BY <1>1 DEF Requests
  <1>3. req' = [req EXCEPT ![c] = [sid |-> s, step |-> step]]
    BY <1>2
  <1>a. [sid |-> s, step |-> step] \in Requests
    BY RequestsType
  <1>4. /\ req'[c] = [sid |-> s, step |-> step]
        /\ \A d \in Calls \ {c} : req'[d] = req[d]
        /\ req' \in [Calls -> Requests]
    BY <1>1, <1>3, <1>a
  <1>5. \A d \in Calls : req'[d].step # "none" => req'[d].sid \in Strategies
    BY <1>4 DEF TypeOK
  <1>6. QED
    BY <1>4, <1>5 DEF At

LEMMA AtOneStep ==
  ASSUME NEW c, NEW s, NEW t, NEW x, NEW y
  PROVE  /\ At(c, s, x) /\ At(c, t, y) => s = t /\ x = y
         /\ At(c, s, x)' /\ At(c, t, y)' => s = t /\ x = y
  BY DEF At

LEMMA IndexMoves ==
  ASSUME TypeOK, NEW c \in Calls, NEW s \in Strategies
  PROVE  /\ ArmIndex(c, s) => At(c, s, "arm:hash") /\ At(c, s, "arm:index")'
         /\ DisarmUnindex(c, s) => At(c, s, "disarm:deleted") /\ At(c, s, "disarm:unindexed")'
  <1>1. ASSUME ArmIndex(c, s)
        PROVE  At(c, s, "arm:hash") /\ At(c, s, "arm:index")'
    <2>1. req[c].sid = s /\ req' = [req EXCEPT ![c].step = "arm:index"]
      BY <1>1 DEF ArmIndex, At
    <2>2. "arm:index" \in RequestSteps
      BY DEF RequestSteps
    <2>3. QED
      BY <1>1, <2>1, <2>2, RequestGoesOn DEF ArmIndex
  <1>2. ASSUME DisarmUnindex(c, s)
        PROVE  At(c, s, "disarm:deleted") /\ At(c, s, "disarm:unindexed")'
    <2>1. req[c].sid = s /\ req' = [req EXCEPT ![c].step = "disarm:unindexed"]
      BY <1>2 DEF DisarmUnindex, At
    <2>2. "disarm:unindexed" \in RequestSteps
      BY DEF RequestSteps
    <2>3. QED
      BY <1>2, <2>1, <2>2, RequestGoesOn DEF DisarmUnindex
  <1>3. QED
    BY <1>1, <1>2

LEMMA DeleteMoves ==
  ASSUME TypeOK, NEW c \in Calls, NEW s \in Strategies, DisarmDelete(c, s)
  PROVE  /\ At(c, s, "disarm:read") /\ At(c, s, "disarm:deleted")'
         /\ req'[c].step = "disarm:deleted" /\ req'[c].sid = s
         /\ \A d \in Calls \ {c} : req'[d] = req[d]
         /\ hash'[s] = NoHash /\ reply'[s] = "none" /\ last'[s] = c /\ index' = index
  <1>1. req[c].sid = s /\ req' = [req EXCEPT ![c].step = "disarm:deleted"]
    BY DEF DisarmDelete, At
  <1>2. "disarm:deleted" \in RequestSteps
    BY DEF RequestSteps
  <1>3. At(c, s, "disarm:deleted")' /\ \A d \in Calls \ {c} : req'[d] = req[d]
    BY <1>1, <1>2, RequestGoesOn
  <1>4. req'[c].step = "disarm:deleted" /\ req'[c].sid = s
    BY <1>3 DEF At
  <1>5. QED
    BY <1>3, <1>4 DEF DisarmDelete, TakesEffect, TypeOK

\* The steps of the requests keep the types.
LEMMA RequestType ==
  ASSUME TypeOK, NEW c \in Calls, NEW s \in Strategies, Request(c, s)
  PROVE  TypeOK'
  <1> USE RequestsType DEF TypeOK, accountVars, AccountTypeOK, Listed
  <1>a. {"arm:hash", "arm:index", "disarm:read", "disarm:deleted", "disarm:unindexed"}
           \subseteq RequestSteps /\ NoRequest.step = "none"
    BY DEF RequestSteps, NoRequest
  <1>b. ASSUME NEW answer \in {"armed", "disarmed"}, Answered(c, s, answer)
        PROVE  /\ req' \in [Calls -> Requests]
               /\ \A d \in Calls : req'[d].step # "none" => req'[d].sid \in Strategies
               /\ reply' \in [Strategies -> {"none", "armed", "disarmed"}]
               /\ last' = last
    BY <1>a, <1>b DEF Answered
  <1>c. ASSUME TakesEffect(c, s)
        PROVE  /\ reply' \in [Strategies -> {"none", "armed", "disarmed"}]
               /\ last' \in [Strategies -> Calls \cup {NoCall}]
    BY <1>c DEF TakesEffect
  <1>1. ASSUME NEW abs \in AbsValues, NEW pct \in PctValues, Arm(c, s, abs, pct)
        PROVE  TypeOK'
    <2>1. [state |-> "ARMED", breach |-> 0, attempts |-> 0,
           abs |-> Given(abs, hash[s].abs), pct |-> Given(pct, hash[s].pct)] \in Hash
      BY DEF Hash, Given, SLStates
    <2>2. [abs |-> abs, pct |-> pct] \in Asked
      BY DEF Asked
    <2>3. hash' \in [Strategies -> Hash] /\ asked' \in [Strategies -> Asked]
      BY <1>1, <2>1, <2>2 DEF Arm
    <2>4. /\ req' \in [Calls -> Requests]
          /\ \A d \in Calls : req'[d].step # "none" => req'[d].sid \in Strategies
          /\ used' \in [arms : 0 .. MaxArms, disarms : 0 .. MaxDisarms,
                       restarts : 0 .. MaxRestarts, faults : 0 .. MaxFaults]
      BY <1>1, <1>a DEF Arm
    <2>5. UNCHANGED <<accountVars, index, mon, streak>> /\ TakesEffect(c, s)
      BY <1>1 DEF Arm
    <2>6. QED
      BY <1>c, <2>3, <2>4, <2>5
  <1>2. CASE ArmIndex(c, s)
    BY <1>2, <1>a, RequestGoesOn DEF ArmIndex, At
  <1>3. CASE ArmDone(c, s)
    BY <1>3, <1>b DEF ArmDone
  <1>4. CASE Disarm(c, s)
    BY <1>4, <1>a DEF Disarm
  <1>5. CASE DisarmDelete(c, s)
    <2>1. NoHash \in Hash
      BY DEF NoHash, Hash, AbsValues, PctValues
    <2>2. QED
      BY <1>5, <1>a, <2>1, RequestGoesOn DEF DisarmDelete, TakesEffect, At
  <1>6. CASE DisarmUnindex(c, s)
    BY <1>6, <1>a, RequestGoesOn DEF DisarmUnindex, At
  <1>7. CASE DisarmDone(c, s)
    BY <1>7, <1>b DEF DisarmDone
  <1>8. QED
    BY <1>1, <1>2, <1>3, <1>4, <1>5, <1>6, <1>7 DEF Request

\* A request that fails leaves everything to whoever comes next.
LEMMA FailType ==
  ASSUME TypeOK, NEW c \in Calls, RequestFails(c)
  PROVE  TypeOK'
  BY RequestsType DEF RequestFails, NoRequest, TypeOK, accountVars, AccountTypeOK, Listed

\* The local variables the monitor starts a strategy with.
LEMMA AsleepType == Asleep \in Monitor
  BY DEF Asleep, Monitor, MonitorPcs, EmptyAggregate, Aggregate,
         NoOrder, Order, Sizes, NoHash, Hash, AbsValues, PctValues

LEMMA LoopTopType == TypeOK => LoopTop \in Monitor
  BY AsleepType DEF TypeOK, LoopTop, Monitor, MonitorPcs

\* Writing one of the states into a hash leaves the rest of it alone.
LEMMA StateType ==
  ASSUME NEW h \in Hash, NEW state \in SLStates
  PROVE  [h EXCEPT !.state = state] \in Hash
  BY DEF Hash

\* Writing one leg of the close leaves the other local variables alone.
LEMMA OrdersType ==
  ASSUME NEW m \in Monitor, NEW x \in Symbols, NEW o \in Order
  PROVE  LET n == [m EXCEPT !.orders[x] = o]
         IN  n \in Monitor /\ n.sid = m.sid /\ n.pc = m.pc
  BY DEF Monitor

\* A leg adds integers to the aggregate.
LEMMA WithLegType ==
  ASSUME NEW agg \in Aggregate, NEW x \in Symbols, NEW row \in Rows \cup {NoRow},
         NEW tick \in Marks \cup {NoMark}
  PROVE  WithLeg(agg, x, row, tick) \in Aggregate
  <1>1. CASE row = NoRow
    BY <1>1 DEF WithLeg
  <1>2. CASE row \in Rows
    <2> DEFINE mark == MarkOf(tick, row.mark)
    <2>a. row.size \in Sizes /\ row.mark \in RowMarks
      BY <1>2 DEF Rows
    <2>b. row.size \in Int
      BY <2>a DEF Sizes
    <2>c. mark \in Nat \cup {NoMark}
      BY <2>a DEF MarkOf
    <2>1. row.size \in Int /\ mark \in Nat \cup {NoMark}
      BY <2>b, <2>c
    <2>2. Lots(row.size) \in Int
      BY <2>1 DEF Lots
    <2>3. agg.margin + Lots(row.size) * LotMargin \in Int
      BY <2>2 DEF Aggregate
    <2>4. ASSUME mark # NoMark PROVE agg.loss + row.size * (Entry[x] - mark) \in Int
      BY <2>1, <2>4 DEF Aggregate
    <2>5. agg.loss + (IF mark = NoMark THEN 0 ELSE row.size * (Entry[x] - mark)) \in Int
      BY <2>4 DEF Aggregate
    <2>6. (agg.stale \/ mark = NoMark) \in BOOLEAN
      BY DEF Aggregate
    <2>7. QED
      BY <1>2, <2>3, <2>5, <2>6 DEF WithLeg, Aggregate
  <1>3. QED
    BY <1>1, <1>2

\* The steps of the monitor keep the types.
LEMMA MonitorType ==
  ASSUME TypeOK, MonitorStep
  PROVE  TypeOK'
  <1> USE LoopTopType, AsleepType DEF TypeOK
  <1>1. CASE TickStart
    <2>1. mon' \in Monitor /\ mon'.pc = "next"
      BY <1>1 DEF TickStart, Monitor, MonitorPcs
    <2>2. QED
      BY <1>1, <2>1 DEF TickStart, accountVars, AccountTypeOK, Listed
  <1>2. CASE TickEnd
    BY <1>2 DEF TickEnd, Asleep, accountVars, AccountTypeOK, Listed
  <1>3. ASSUME NEW s \in Strategies, NextStrategy(s)
        PROVE  TypeOK'
    <2> DEFINE to == Dispatch(hash[s].state)
               rest == [LoopTop EXCEPT !.queue = mon.queue \ {s}]
               begun == [rest EXCEPT !.pc = to, !.sid = s, !.st = hash[s],
                                     !.todo = IF to = "legs" THEN Legs[s] ELSE {}]
    <2>1. to \in {"closing", "legs", "next"}
      BY DEF Dispatch
    <2>2. rest \in Monitor /\ rest.pc = "next"
      BY DEF Monitor, LoopTop
    <2>3. begun \in Monitor /\ begun.sid = s
      BY <2>1, <2>2 DEF Monitor, MonitorPcs
    <2>4. mon' = IF to = "next" THEN rest ELSE begun
      BY <1>3 DEF NextStrategy
    <2>5. mon' \in Monitor /\ (mon'.pc \notin {"sleep", "next"} => mon'.sid \in Strategies)
      BY <2>2, <2>3, <2>4
    <2>6. QED
      BY <1>3, <2>5 DEF NextStrategy, accountVars, AccountTypeOK, Listed
  <1>4. ASSUME NEW x \in Symbols, AggregateLeg(x)
        PROVE  TypeOK'
    <2>1. mon.agg \in Aggregate /\ snap[x] \in Rows \cup {NoRow} /\ latest[x] \in Marks \cup {NoMark}
      BY DEF Monitor, AccountTypeOK
    <2>2. WithLeg(mon.agg, x, snap[x], latest[x]) \in Aggregate
      BY <2>1, WithLegType
    <2>3. mon' \in Monitor /\ mon'.pc = mon.pc /\ mon'.sid = mon.sid
      BY <1>4, <2>2 DEF AggregateLeg, Monitor
    <2>4. QED
      BY <1>4, <2>3 DEF AggregateLeg, accountVars, AccountTypeOK, Listed
  <1>5. CASE AggregateDone
    <2>1. mon' \in Monitor /\ mon'.sid = mon.sid /\ mon.sid \in Strategies
      BY <1>5 DEF AggregateDone, Monitor, MonitorPcs
    <2>2. QED
      BY <1>5, <2>1 DEF AggregateDone, accountVars, AccountTypeOK, Listed
  <1>6. CASE CountBreach
    <2>1. mon.sid \in Strategies /\ mon.st \in Hash
      BY <1>6 DEF CountBreach, Monitor
    <2>2. CountAfter(mon.agg, mon.st) \in Nat
      BY <2>1 DEF CountAfter, Hash
    <2>3. hash' \in [Strategies -> Hash]
      <3>1. \A n \in Nat : [hash[mon.sid] EXCEPT !.breach = n] \in Hash
        BY <2>1 DEF Hash
      <3>2. hash' = [hash EXCEPT ![mon.sid] =
                        [hash[mon.sid] EXCEPT !.breach = CountAfter(mon.agg, mon.st)]]
        BY <1>6 DEF CountBreach
      <3>3. QED
        BY <2>2, <3>1, <3>2
    <2>4. streak' \in [Strategies -> Nat]
      BY <1>6 DEF CountBreach
    <2>e. EmptyAggregate \in Aggregate
      BY DEF EmptyAggregate, Aggregate
    <2>5. [mon EXCEPT !.pc = "closing", !.agg = EmptyAggregate] \in Monitor
      BY <2>e DEF Monitor, MonitorPcs
    <2>6. mon' \in Monitor /\ (mon'.pc \notin {"sleep", "next"} => mon'.sid \in Strategies)
      BY <1>6, <2>1, <2>5 DEF CountBreach, LoopTop, Monitor
    <2>7. QED
      BY <1>6, <2>3, <2>4, <2>6 DEF CountBreach, accountVars, AccountTypeOK, Listed
  <1>7. CASE MarkClosing
    <2>1. mon' \in Monitor /\ mon'.sid = mon.sid /\ mon.sid \in Strategies
      BY <1>7 DEF MarkClosing, Monitor, MonitorPcs
    <2>2. hash' \in [Strategies -> Hash]
      BY <1>7, <2>1, StateType DEF MarkClosing, SLStates
    <2>3. QED
      BY <1>7, <2>1, <2>2 DEF MarkClosing, accountVars, AccountTypeOK, Listed
  <1>8. CASE Announce
    <2>1. mon.sid \in Strategies /\ Legs[mon.sid] \subseteq Symbols
      BY <1>8 DEF Announce, Monitor
    <2>2. mon' \in Monitor /\ mon'.sid = mon.sid
      BY <1>8, <2>1 DEF Announce, Monitor, MonitorPcs
    <2>3. QED
      BY <1>8, <2>1, <2>2 DEF Announce, accountVars, AccountTypeOK, Listed
  <1>9. ASSUME NEW x \in Symbols, LoadLeg(x)
        PROVE  TypeOK'
    <2>1. ClosingSize(snap[x]) \in Sizes
      BY DEF ClosingSize, AccountTypeOK, Rows, Sizes
    <2>2. mon' \in Monitor /\ mon'.sid = mon.sid /\ mon'.pc = mon.pc
      <3>1. mon.orders[x] \in Order
        BY DEF Monitor
      <3>2. [mon.orders[x] EXCEPT !.size = ClosingSize(snap[x])] \in Order
        BY <2>1, <3>1 DEF Order
      <3>3. QED
        BY <1>9, <3>2 DEF LoadLeg, Monitor
    <2>3. QED
      BY <1>9, <2>2 DEF LoadLeg, accountVars, AccountTypeOK, Listed
  <1>10. CASE LoadDone
    <2>1. mon' \in Monitor /\ mon'.sid = mon.sid /\ mon.sid \in Strategies
      BY <1>10 DEF LoadDone, Monitor, MonitorPcs
    <2>2. QED
      BY <1>10, <2>1 DEF LoadDone, accountVars, AccountTypeOK, Listed
  <1>11. ASSUME NEW x \in Symbols, Attempt(x)
        PROVE  TypeOK'
    <2>1. mon.orders[x] \in Order /\ mon.orders[x].tries < 2 * HttpAttempts
      BY <1>11 DEF Attempt, Pending, Ordered, Monitor
    <2>a. mon.orders[x].tries + 1 \in 0 .. 2 * HttpAttempts
      BY <2>1 DEF Order
    <2>2. Accepted(mon.orders[x]) \in Order /\ Raised(mon.orders[x]) \in Order
      BY <2>1, <2>a DEF Order, Accepted, Raised
    <2>3. mon' \in Monitor /\ mon'.sid = mon.sid /\ mon'.pc = mon.pc
      <3>1. CASE mon' = [mon EXCEPT !.orders[x] = Accepted(@)]
        BY <2>2, <3>1, OrdersType
      <3>2. CASE mon' = [mon EXCEPT !.orders[x] = Raised(@)]
        BY <2>2, <3>2, OrdersType
      <3>3. QED
        BY <1>11, <3>1, <3>2 DEF Attempt
    <2>4. position' \in [Symbols -> Sizes]
      <3>1. Executed(position[x], mon.orders[x].size) \subseteq Sizes
        BY DEF Executed
      <3>2. position[x] \in Sizes /\ position \in [Symbols -> Sizes]
        BY DEF AccountTypeOK
      <3>3. QED
        BY <1>11, <3>1, <3>2 DEF Attempt
    <2>5. QED
      BY <1>11, <2>3, <2>4 DEF Attempt, AccountTypeOK, Listed
  <1>12. CASE PlaceDone
    <2>1. mon' \in Monitor /\ mon'.sid = mon.sid /\ mon.sid \in Strategies
      BY <1>12 DEF PlaceDone, Monitor, MonitorPcs
    <2>2. QED
      BY <1>12, <2>1 DEF PlaceDone, accountVars, AccountTypeOK, Listed
  <1>13. CASE Finish
    <2>1. mon' \in Monitor /\ mon'.sid = mon.sid /\ mon.sid \in Strategies
      BY <1>13 DEF Finish, Monitor, MonitorPcs
    <2>2. Verdict \in SLStates /\ mon.st.attempts + 1 \in Nat
      BY DEF Verdict, SLStates, Monitor, Hash
    <2>3. hash' \in [Strategies -> Hash]
      <3>1. [hash[mon.sid] EXCEPT !.state = Verdict, !.attempts = mon.st.attempts + 1] \in Hash
        BY <2>1, <2>2, FinishedHashType
      <3>2. hash' = [hash EXCEPT ![mon.sid] =
                        [hash[mon.sid] EXCEPT !.state = Verdict,
                                              !.attempts = mon.st.attempts + 1]]
        BY <1>13, <2>1 DEF Finish
      <3>3. QED
        BY <3>1, <3>2
    <2>4. QED
      BY <1>13, <2>1, <2>3 DEF Finish, accountVars, AccountTypeOK, Listed
  <1>14. CASE Deindex
    <2>1. mon' \in Monitor /\ mon'.sid = mon.sid /\ mon.sid \in Strategies
      BY <1>14 DEF Deindex, Monitor, MonitorPcs
    <2>2. QED
      BY <1>14, <2>1 DEF Deindex, accountVars, AccountTypeOK, Listed
  <1>15. CASE RecordEvent
    <2>1. mon' \in Monitor /\ mon'.pc = "next"
      BY <1>15 DEF RecordEvent, LoopTop, Asleep
    <2>2. QED
      BY <1>15, <2>1 DEF RecordEvent, accountVars, AccountTypeOK, Listed
  <1>16. QED
    BY <1>1, <1>2, <1>3, <1>4, <1>5, <1>6, <1>7, <1>8, <1>9, <1>10, <1>11, <1>12,
       <1>13, <1>14, <1>15 DEF MonitorStep

\* So do failures and restarts, and the steps that only fault: with the steps
\* above they are all of Next.
LEMMA NextType ==
  ASSUME TypeOK, [Next]_vars
  PROVE  TypeOK'
  <1>1. CASE AccountNext /\ UNCHANGED slVars
    <2>1. AccountTypeOK'
      BY <1>1, AccountStepType DEF TypeOK
    <2>2. QED
      BY <1>1, <2>1 DEF TypeOK, slVars
  <1>2. ASSUME NEW c \in Calls, NEW s \in Strategies, Request(c, s)
        PROVE  TypeOK'
    BY <1>2, RequestType
  <1>a. ASSUME NEW c \in Calls, RequestFails(c)
        PROVE  TypeOK'
    BY <1>a, FailType
  <1>3. CASE MonitorStep
    BY <1>3, MonitorType
  <1>4. CASE CloseRaises
    <2>1. NoOrder \in Order
      BY DEF NoOrder, Order, Sizes
    <2>2. [x \in Symbols |-> NoOrder] \in [Symbols -> Order]
      BY <2>1
    <2>3. mon' \in Monitor /\ mon'.sid = mon.sid /\ mon.sid \in Strategies
      BY <1>4, <2>2 DEF CloseRaises, TypeOK, Monitor, MonitorPcs
    <2>4. QED
      BY <1>4, <2>3 DEF CloseRaises, TypeOK, accountVars, AccountTypeOK, Listed
  <1>5. ASSUME NEW x \in Symbols, RateLimited(x)
        PROVE  TypeOK'
    <2>1. mon.orders[x] \in Order
      BY DEF TypeOK, Monitor
    <2> DEFINE n == IF mon.orders[x].tries < HttpAttempts
                    THEN HttpAttempts ELSE 2 * HttpAttempts
               limited == [mon.orders[x] EXCEPT !.tries = n]
    <2>2. mon' = [mon EXCEPT !.orders[x] = limited]
      BY <1>5 DEF RateLimited
    <2>3. n \in 0 .. 2 * HttpAttempts
      OBVIOUS
    <2>a. limited \in Order
      <3> HIDE DEF n
      <3>1. QED
        BY <2>1, <2>3 DEF Order
    <2>4. mon' \in Monitor /\ mon'.sid = mon.sid /\ mon'.pc = mon.pc
      <3> HIDE DEF limited
      <3>1. QED
        BY <2>2, <2>a, OrdersType DEF TypeOK
    <2>5. QED
      BY <1>5, <2>4 DEF RateLimited, TypeOK, accountVars, AccountTypeOK, Listed
  <1>6. CASE TickFails
    <2>1. mon' \in Monitor /\ mon'.pc = "sleep"
      BY <1>6, AsleepType DEF TickFails, Asleep
    <2>2. QED
      BY <1>6, <2>1 DEF TickFails, TypeOK, accountVars, AccountTypeOK, Listed
  <1>7. ASSUME NEW new \in Settings, Restart(new)
        PROVE  TypeOK'
    <2>1. mon' \in Monitor /\ mon'.pc = "sleep"
      BY <1>7, AsleepType DEF Restart, Asleep
    <2>2. AccountTypeOK'
      BY <1>7 DEF Restart, TypeOK, AccountTypeOK, SyncIdle, Listed
    <2>3. QED
      BY <1>7, <2>1, <2>2, RequestsType DEF Restart, TypeOK, NoRequest
  <1>8. CASE UNCHANGED vars
    BY <1>8 DEF vars, slVars, accountVars, TypeOK, AccountTypeOK, Listed
  <1>9. QED
    BY <1>1, <1>2, <1>a, <1>3, <1>4, <1>5, <1>6, <1>7, <1>8 DEF Next

\* Every variable keeps its type: in particular no write leaves Redis with a
\* count below zero or a state the code does not name (arm, _check_armed,
\* _do_close), and no order is tried more than twice HttpAttempts times
\* (_place_with_retry around _request).
THEOREM TypeCorrect == Spec => []TypeOK
  BY InitType, NextType, PTL DEF Spec

-----------------------------------------------------------------------------
(* Firing is earned *)

\* A count the program keeps, in Redis or in the monitor's copy of the hash,
\* is never ahead of the evaluations it stands for.
Earned ==
    /\ \A s \in Strategies : hash[s].breach <= streak[s]
    /\ mon.pc \in {"legs", "count"} => mon.st.breach <= streak[mon.sid]
    /\ FiresOnlyAfterDebounce

LEMMA EarnedInit == Init => Earned
  BY DEF Init, Earned, FiresOnlyAfterDebounce, Firing, NoHash, Asleep

\* A step that leaves the counts and the monitor alone.
LEMMA EarnedElsewhere ==
  ASSUME TypeOK, Earned, UNCHANGED <<mon, streak>>,
         \A s \in Strategies : hash'[s].breach = hash[s].breach \/ hash'[s].breach = 0
  PROVE  Earned'
  BY DEF Earned, FiresOnlyAfterDebounce, Firing, TypeOK

\* A step of the monitor on the strategy it has taken up.
LEMMA EarnedOnward ==
  ASSUME TypeOK, Earned, UNCHANGED streak, mon'.sid = mon.sid, mon'.st = mon.st,
         Firing' => Firing,
         mon'.pc \in {"legs", "count"} => mon.pc \in {"legs", "count"},
         \A s \in Strategies : hash'[s].breach = hash[s].breach
  PROVE  Earned'
  BY DEF Earned, FiresOnlyAfterDebounce

\* A step that ends with no strategy taken up.
LEMMA EarnedIdle ==
  ASSUME TypeOK, Earned, UNCHANGED streak, mon'.pc \in {"sleep", "next"},
         \A s \in Strategies : hash'[s].breach = hash[s].breach
  PROVE  Earned'
  BY DEF Earned, FiresOnlyAfterDebounce, Firing

LEMMA EarnedRequest ==
  ASSUME TypeOK, Earned, NEW c \in Calls, NEW s \in Strategies, Request(c, s)
  PROVE  Earned'
  <1>1. UNCHANGED <<mon, streak>>
    BY DEF Request, Arm, ArmIndex, ArmDone, Disarm, DisarmDelete, DisarmUnindex, DisarmDone
  <1>2. \A t \in Strategies : hash'[t].breach = hash[t].breach \/ hash'[t].breach = 0
    BY DEF Request, Arm, ArmIndex, ArmDone, Disarm, DisarmDelete, DisarmUnindex, DisarmDone,
           TypeOK, NoHash
  <1>3. QED
    BY <1>1, <1>2, EarnedElsewhere

\* The step that counts: the new count is one more than a count that was
\* earned, or zero.
LEMMA EarnedCount ==
  ASSUME TypeOK, Earned, CountBreach
  PROVE  Earned'
  <1> DEFINE s == mon.sid
             n == CountAfter(mon.agg, mon.st)
  <1>1. s \in Strategies /\ mon.pc = "count" /\ mon.st.breach \in Nat /\ streak[s] \in Nat
    BY DEF CountBreach, TypeOK, Monitor, Hash
  <1>2. n \in Nat /\ n <= streak'[s]
    <2>1. CASE Breaching(mon.agg, mon.st)
      <3>1. n = mon.st.breach + 1 /\ streak'[s] = streak[s] + 1
        BY <1>1, <2>1 DEF CountBreach, CountAfter, TypeOK
      <3>2. QED
        BY <1>1, <3>1 DEF Earned
    <2>2. CASE ~Breaching(mon.agg, mon.st)
      BY <1>1, <2>2 DEF CountBreach, CountAfter, TypeOK
    <2>3. QED
      BY <2>1, <2>2
  <1>3. hash'[s].breach = n
    BY <1>1 DEF CountBreach, TypeOK, Hash
  <1>4. \A t \in Strategies \ {s} : hash'[t] = hash[t] /\ streak'[t] = streak[t]
    BY <1>1 DEF CountBreach, TypeOK
  <1>5. \A t \in Strategies : hash'[t].breach <= streak'[t]
    BY <1>1, <1>2, <1>3, <1>4 DEF Earned
  <1>6. CASE n >= Debounce
    <2>1. mon'.pc = "closing" /\ mon'.sid = s
      BY <1>1, <1>6 DEF CountBreach, TypeOK, Monitor
    <2>2. streak'[s] >= Debounce
      BY <1>1, <1>2, <1>6 DEF CountBreach, TypeOK
    <2>3. QED
      BY <1>5, <2>1, <2>2 DEF Earned, FiresOnlyAfterDebounce
  <1>7. CASE ~(n >= Debounce)
    <2>1. mon'.pc = "next"
      BY <1>7 DEF CountBreach, LoopTop, Asleep
    <2>2. QED
      BY <1>5, <2>1 DEF Earned, FiresOnlyAfterDebounce, Firing
  <1>8. QED
    BY <1>6, <1>7

LEMMA EarnedMonitor ==
  ASSUME TypeOK, Earned, MonitorStep
  PROVE  Earned'
  <1>1. CASE TickStart \/ TickEnd \/ RecordEvent
    <2>1. mon'.pc \in {"sleep", "next"}
      <3>1. CASE TickStart
        BY <3>1 DEF TickStart, Asleep
      <3>2. CASE TickEnd
        BY <3>2 DEF TickEnd, Asleep
      <3>3. CASE RecordEvent
        BY <3>3 DEF RecordEvent, LoopTop, Asleep
      <3>4. QED
        BY <1>1, <3>1, <3>2, <3>3
    <2>2. UNCHANGED <<hash, streak>>
      BY <1>1 DEF TickStart, TickEnd, RecordEvent
    <2>3. QED
      BY <2>1, <2>2, EarnedIdle
  <1>2. ASSUME NEW s \in Strategies, NextStrategy(s)
        PROVE  Earned'
    <2> DEFINE to == Dispatch(hash[s].state)
               rest == [LoopTop EXCEPT !.queue = mon.queue \ {s}]
    <2>1. CASE to = "next"
      BY <1>2, <2>1, EarnedIdle DEF NextStrategy, LoopTop, Asleep
    <2>2. CASE to # "next"
      <3>1. mon'.pc = to /\ mon'.sid = s /\ mon'.st = hash[s]
        BY <1>2, <2>2 DEF NextStrategy, LoopTop, Asleep
      <3>2. to = "legs" \/ hash[s].state # "ARMED"
        BY DEF Dispatch
      <3>3. QED
        BY <1>2, <3>1, <3>2 DEF NextStrategy, Earned, FiresOnlyAfterDebounce, Firing
    <2>3. QED
      BY <2>1, <2>2
  <1>3. ASSUME NEW x \in Symbols, AggregateLeg(x)
        PROVE  Earned'
    BY <1>3, EarnedOnward DEF AggregateLeg, TypeOK, Monitor, Firing
  <1>4. CASE AggregateDone
    BY <1>4, EarnedOnward DEF AggregateDone, TypeOK, Monitor, Firing
  <1>5. CASE CountBreach
    BY <1>5, EarnedCount
  <1>6. CASE MarkClosing
    <2>1. \A s \in Strategies : hash'[s].breach = hash[s].breach
      BY <1>6 DEF MarkClosing, TypeOK, Hash
    <2>2. QED
      BY <1>6, <2>1, EarnedOnward DEF MarkClosing, TypeOK, Monitor, Firing
  <1>7. CASE Announce
    BY <1>7, EarnedOnward DEF Announce, TypeOK, Monitor, Firing
  <1>8. ASSUME NEW x \in Symbols, LoadLeg(x)
        PROVE  Earned'
    BY <1>8, EarnedOnward DEF LoadLeg, TypeOK, Monitor, Firing
  <1>9. CASE LoadDone
    BY <1>9, EarnedOnward DEF LoadDone, TypeOK, Monitor, Firing
  <1>10. ASSUME NEW x \in Symbols, Attempt(x)
         PROVE  Earned'
    BY <1>10, EarnedOnward DEF Attempt, TypeOK, Monitor, Firing
  <1>11. CASE PlaceDone
    BY <1>11, EarnedOnward DEF PlaceDone, TypeOK, Monitor, Firing
  <1>12. CASE Finish
    <2>1. \A s \in Strategies : hash'[s].breach = hash[s].breach
      BY <1>12 DEF Finish, TypeOK, Hash
    <2>2. QED
      BY <1>12, <2>1, EarnedOnward DEF Finish, TypeOK, Monitor, Firing
  <1>13. CASE Deindex
    BY <1>13, EarnedOnward DEF Deindex, TypeOK, Monitor, Firing
  <1>14. QED
    BY <1>1, <1>2, <1>3, <1>4, <1>5, <1>6, <1>7, <1>8, <1>9, <1>10, <1>11, <1>12,
       <1>13 DEF MonitorStep

LEMMA EarnedNext ==
  ASSUME TypeOK, Earned, [Next]_vars
  PROVE  Earned'
  <1>1. CASE AccountNext /\ UNCHANGED slVars
    BY <1>1, EarnedElsewhere DEF slVars
  <1>2. ASSUME NEW c \in Calls, NEW s \in Strategies, Request(c, s)
        PROVE  Earned'
    BY <1>2, EarnedRequest
  <1>a. ASSUME NEW c \in Calls, RequestFails(c)
        PROVE  Earned'
    BY <1>a, EarnedElsewhere DEF RequestFails
  <1>3. CASE MonitorStep
    BY <1>3, EarnedMonitor
  <1>4. CASE CloseRaises
    BY <1>4, EarnedOnward DEF CloseRaises, TypeOK, Monitor, Firing
  <1>5. ASSUME NEW x \in Symbols, RateLimited(x)
        PROVE  Earned'
    BY <1>5, EarnedOnward DEF RateLimited, TypeOK, Monitor, Firing
  <1>6. CASE TickFails
    BY <1>6, EarnedIdle DEF TickFails, Asleep
  <1>7. ASSUME NEW new \in Settings, Restart(new)
        PROVE  Earned'
    BY <1>7, EarnedIdle DEF Restart, Asleep
  <1>8. CASE UNCHANGED vars
    BY <1>8, EarnedElsewhere DEF vars, slVars
  <1>9. QED
    BY <1>1, <1>2, <1>a, <1>3, <1>4, <1>5, <1>6, <1>7, <1>8 DEF Next

\* The monitor starts a close only after Debounce evaluations in a row found
\* the strategy breaching, for any number of strategies and any interleaving
\* of requests, restarts and failures with the ticks (_check_armed's
\* breach_count, which arm resets and disarm deletes).
THEOREM FiringIsEarned == Spec => []FiresOnlyAfterDebounce
  <1>1. Earned => FiresOnlyAfterDebounce
    BY DEF Earned
  <1>2. QED
    BY <1>1, InitType, NextType, EarnedInit, EarnedNext, PTL DEF Spec

-----------------------------------------------------------------------------
(* StopLoss implements Exposure *)

\* Whatever leads to an order was asked for: a hash with a state and the
\* strategy taken up belong to somebody's arm request, an order is for a leg of
\* that strategy, and between the gate and the last order the settings permit.
Consented ==
    /\ \A s \in Strategies : hash[s].state # "none" => asked[s] # NotAsked
    /\ mon.pc \notin {"sleep", "next"} => asked[mon.sid] # NotAsked
    /\ mon.pc = "load" => mon.todo \subseteq Legs[mon.sid]
    /\ mon.pc \in {"load", "place"} => OrdersPermitted
    /\ \A x \in Symbols :
          mon.orders[x].size # 0 => mon.pc \notin {"sleep", "next"} /\ x \in Legs[mon.sid]

LEMMA ConsentedInit == Init => Consented
  BY DEF Init, Consented, NoHash, Asleep, NoOrder

\* A step that leaves the monitor and the settings alone.
LEMMA ConsentedElsewhere ==
  ASSUME TypeOK, Consented, UNCHANGED <<mon, settings>>,
         \A s \in Strategies :
            /\ asked[s] # NotAsked => asked'[s] # NotAsked
            /\ hash'[s].state # "none" => hash[s].state # "none" \/ asked'[s] # NotAsked
  PROVE  Consented'
  BY DEF Consented, OrdersPermitted, TypeOK

\* A step that ends with no strategy taken up.
LEMMA ConsentedIdle ==
  ASSUME Consented, UNCHANGED asked, mon'.pc \in {"sleep", "next"},
         \A s \in Strategies : hash'[s].state = hash[s].state,
         \A x \in Symbols : mon'.orders[x].size = 0
  PROVE  Consented'
  BY DEF Consented

\* A step of the monitor on the strategy it has taken up that makes no order.
LEMMA ConsentedOnward ==
  ASSUME Consented, UNCHANGED <<asked, settings>>,
         mon.pc \notin {"sleep", "next"}, mon'.sid = mon.sid,
         mon'.pc = "load" => mon'.todo \subseteq Legs[mon'.sid],
         mon'.pc \in {"load", "place"} => OrdersPermitted,
         \A s \in Strategies : hash'[s].state = hash[s].state \/ s = mon.sid,
         \A x \in Symbols : mon'.orders[x].size \in {0, mon.orders[x].size},
         mon'.pc \notin {"sleep", "next"}
  PROVE  Consented'
  BY DEF Consented, OrdersPermitted

LEMMA ConsentedRequest ==
  ASSUME TypeOK, Consented, NEW c \in Calls, NEW s \in Strategies, Request(c, s)
  PROVE  Consented'
  <1>1. CASE \E abs \in AbsValues, pct \in PctValues : Arm(c, s, abs, pct)
    <2>1. PICK abs \in AbsValues, pct \in PctValues : Arm(c, s, abs, pct)
      BY <1>1
    <2>2. asked' = [asked EXCEPT ![s] = [abs |-> abs, pct |-> pct]]
      BY <2>1 DEF Arm
    <2>3. [abs |-> abs, pct |-> pct] # NotAsked
      BY <2>1 DEF Arm, NotAsked
    <2>4. asked'[s] # NotAsked /\ \A t \in Strategies \ {s} : asked'[t] = asked[t]
      BY <2>2, <2>3 DEF TypeOK
    <2>5. \A t \in Strategies \ {s} : hash'[t] = hash[t]
      BY <2>1 DEF Arm, TypeOK
    <2>6. UNCHANGED <<mon, settings>>
      BY <2>1 DEF Arm, accountVars
    <2>7. QED
      BY <2>4, <2>5, <2>6, ConsentedElsewhere
  <1>2. CASE ~ \E abs \in AbsValues, pct \in PctValues : Arm(c, s, abs, pct)
    <2>1. UNCHANGED <<mon, settings, asked>>
      BY <1>2 DEF Request, ArmIndex, ArmDone, Disarm, DisarmDelete, DisarmUnindex,
             DisarmDone, accountVars
    <2>2. \A t \in Strategies : hash'[t].state \in {hash[t].state, "none"}
      BY <1>2 DEF Request, ArmIndex, ArmDone, Disarm, DisarmDelete, DisarmUnindex,
             DisarmDone, TypeOK, NoHash
    <2>3. QED
      BY <2>1, <2>2, ConsentedElsewhere
  <1>3. QED
    BY <1>1, <1>2

LEMMA ConsentedMonitor ==
  ASSUME TypeOK, Consented, MonitorStep
  PROVE  Consented'
  <1>0. \A x \in Symbols : Asleep.orders[x].size = 0 /\ LoopTop.orders[x].size = 0
    BY DEF Asleep, LoopTop, NoOrder
  <1>1. CASE TickStart \/ TickEnd \/ RecordEvent
    <2>1. mon'.pc \in {"sleep", "next"} /\ \A x \in Symbols : mon'.orders[x].size = 0
      <3>1. CASE TickStart
        BY <3>1, <1>0 DEF TickStart, Asleep
      <3>2. CASE TickEnd
        BY <3>2, <1>0 DEF TickEnd, Asleep
      <3>3. CASE RecordEvent
        BY <3>3, <1>0 DEF RecordEvent, LoopTop, Asleep
      <3>4. QED
        BY <1>1, <3>1, <3>2, <3>3
    <2>2. UNCHANGED <<hash, asked>>
      BY <1>1 DEF TickStart, TickEnd, RecordEvent
    <2>3. QED
      BY <2>1, <2>2, ConsentedIdle
  <1>2. ASSUME NEW s \in Strategies, NextStrategy(s)
        PROVE  Consented'
    <2> DEFINE to == Dispatch(hash[s].state)
               rest == [LoopTop EXCEPT !.queue = mon.queue \ {s}]
    <2>1. UNCHANGED <<hash, asked>> /\ \A x \in Symbols : mon'.orders[x].size = 0
      BY <1>2, <1>0 DEF NextStrategy, LoopTop, Asleep
    <2>2. CASE to = "next"
      BY <1>2, <2>1, <2>2, ConsentedIdle DEF NextStrategy, LoopTop, Asleep
    <2>3. CASE to # "next"
      <3>1. mon'.pc = to /\ mon'.sid = s
        BY <1>2, <2>3 DEF NextStrategy, LoopTop, Asleep
      <3>2. to \in {"legs", "closing"} /\ hash[s].state # "none"
        BY <2>3 DEF Dispatch
      <3>3. QED
        BY <2>1, <3>1, <3>2 DEF Consented
    <2>4. QED
      BY <2>2, <2>3
  <1>3. ASSUME NEW x \in Symbols, AggregateLeg(x)
        PROVE  Consented'
    BY <1>3, ConsentedOnward DEF AggregateLeg, TypeOK, Monitor, accountVars
  <1>4. CASE AggregateDone
    BY <1>4, ConsentedOnward DEF AggregateDone, TypeOK, Monitor, accountVars
  <1>5. CASE CountBreach
    <2>1. \A s \in Strategies : hash'[s].state = hash[s].state
      BY <1>5 DEF CountBreach, TypeOK, Hash
    <2>2. CASE CountAfter(mon.agg, mon.st) >= Debounce
      BY <1>5, <2>1, <2>2, ConsentedOnward DEF CountBreach, TypeOK, Monitor, accountVars
    <2>3. CASE ~(CountAfter(mon.agg, mon.st) >= Debounce)
      <3>1. mon' = LoopTop
        BY <1>5, <2>3 DEF CountBreach
      <3>2. mon'.pc = "next"
        BY <3>1 DEF LoopTop, Asleep
      <3>3. QED
        BY <1>5, <1>0, <2>1, <3>1, <3>2, ConsentedIdle DEF CountBreach
    <2>4. QED
      BY <2>2, <2>3
  <1>6. CASE MarkClosing
    <2>1. \A s \in Strategies : hash'[s].state = hash[s].state \/ s = mon.sid
      BY <1>6 DEF MarkClosing, TypeOK
    <2>2. QED
      BY <1>6, <2>1, ConsentedOnward DEF MarkClosing, TypeOK, Monitor, accountVars
  <1>7. CASE Announce
    BY <1>7, ConsentedOnward DEF Announce, TypeOK, Monitor, accountVars
  <1>8. ASSUME NEW x \in Symbols, LoadLeg(x)
        PROVE  Consented'
    <2> DEFINE n == ClosingSize(snap[x])
    <2>1. mon.pc = "load" /\ mon'.pc = "load" /\ mon'.sid = mon.sid /\ mon'.todo = mon.todo \ {x}
      BY <1>8 DEF LoadLeg, TypeOK, Monitor
    <2>2. x \in Legs[mon.sid]
      BY <1>8 DEF LoadLeg, Consented
    <2>3. \A y \in Symbols \ {x} : mon'.orders[y] = mon.orders[y]
      BY <1>8 DEF LoadLeg, TypeOK, Monitor
    <2>4. UNCHANGED <<hash, asked, settings>>
      BY <1>8 DEF LoadLeg, accountVars
    <2>5. QED
      BY <2>1, <2>2, <2>3, <2>4 DEF Consented, OrdersPermitted
  <1>9. CASE LoadDone
    <2>1. OrdersPermitted
      BY <1>9 DEF LoadDone, Consented
    <2>2. QED
      BY <1>9, <2>1, ConsentedOnward DEF LoadDone, TypeOK, Monitor, accountVars
  <1>10. ASSUME NEW x \in Symbols, Attempt(x)
         PROVE  Consented'
    <2>1. \A o \in Order : Accepted(o).size = o.size /\ Raised(o).size = o.size
      BY DEF Accepted, Raised, Order
    <2>2. OrdersPermitted
      BY <1>10 DEF Attempt, Consented
    <2>3. mon'.pc = mon.pc /\ mon'.sid = mon.sid /\ mon'.todo = mon.todo
          /\ \A y \in Symbols : mon'.orders[y].size = mon.orders[y].size
      <3>1. CASE mon' = [mon EXCEPT !.orders[x] = Accepted(@)]
        BY <2>1, <3>1 DEF TypeOK, Monitor
      <3>2. CASE mon' = [mon EXCEPT !.orders[x] = Raised(@)]
        BY <2>1, <3>2 DEF TypeOK, Monitor
      <3>3. QED
        BY <1>10, <3>1, <3>2 DEF Attempt
    <2>4. QED
      BY <1>10, <2>2, <2>3, ConsentedOnward DEF Attempt
  <1>11. CASE PlaceDone
    BY <1>11, ConsentedOnward DEF PlaceDone, TypeOK, Monitor, accountVars
  <1>12. CASE Finish
    <2>1. \A s \in Strategies : hash'[s].state = hash[s].state \/ s = mon.sid
      BY <1>12 DEF Finish, TypeOK
    <2>2. QED
      BY <1>12, <2>1, ConsentedOnward DEF Finish, TypeOK, Monitor, accountVars
  <1>13. CASE Deindex
    BY <1>13, ConsentedOnward DEF Deindex, TypeOK, Monitor, accountVars
  <1>14. QED
    BY <1>1, <1>2, <1>3, <1>4, <1>5, <1>6, <1>7, <1>8, <1>9, <1>10, <1>11, <1>12,
       <1>13 DEF MonitorStep

LEMMA ConsentedNext ==
  ASSUME TypeOK, Consented, [Next]_vars
  PROVE  Consented'
  <1>1. CASE AccountNext /\ UNCHANGED slVars
    <2>1. UNCHANGED settings
      BY <1>1 DEF AccountNext, Trade, PriceMoves, SyncFetch, SyncWrite, SyncDone,
             SyncFails, Expire
    <2>2. QED
      BY <1>1, <2>1, ConsentedElsewhere DEF slVars
  <1>2. ASSUME NEW c \in Calls, NEW s \in Strategies, Request(c, s)
        PROVE  Consented'
    BY <1>2, ConsentedRequest
  <1>a. ASSUME NEW c \in Calls, RequestFails(c)
        PROVE  Consented'
    BY <1>a, ConsentedElsewhere DEF RequestFails, accountVars
  <1>3. CASE MonitorStep
    BY <1>3, ConsentedMonitor
  <1>4. CASE CloseRaises
    BY <1>4, ConsentedOnward DEF CloseRaises, TypeOK, Monitor, NoOrder, accountVars
  <1>5. ASSUME NEW x \in Symbols, RateLimited(x)
        PROVE  Consented'
    <2>1. OrdersPermitted
      BY <1>5 DEF RateLimited, Consented
    <2>2. mon'.pc = mon.pc /\ mon'.sid = mon.sid /\ mon'.todo = mon.todo
          /\ \A y \in Symbols : mon'.orders[y].size = mon.orders[y].size
      BY <1>5 DEF RateLimited, TypeOK, Monitor, Order
    <2>3. QED
      BY <1>5, <2>1, <2>2, ConsentedOnward DEF RateLimited, accountVars
  <1>6. CASE TickFails \/ \E new \in Settings : Restart(new)
    <2>1. mon' = Asleep /\ UNCHANGED <<hash, asked>>
      BY <1>6 DEF TickFails, Restart
    <2>2. QED
      BY <2>1, ConsentedIdle DEF Asleep, NoOrder
  <1>7. CASE UNCHANGED vars
    BY <1>7, ConsentedElsewhere DEF vars, slVars, accountVars
  <1>8. QED
    BY <1>1, <1>2, <1>a, <1>3, <1>4, <1>5, <1>6, <1>7 DEF Next

\* The strategies Exposure calls consent.
Consents == {s \in Strategies : asked[s] # NotAsked}

LEMMA ExposureInit == Init => E!Init
  <1> SUFFICES ASSUME Init PROVE E!Init
    OBVIOUS
  <1>1. Consents = {}
    BY DEF Init, Consents
  <1>2. OrdersPermitted \in BOOLEAN
    BY DEF OrdersPermitted
  <1>3. QED
    BY <1>1, <1>2 DEF Init, AccountInit, E!Init, Consents

\* A step that moves neither a position nor a permission is no step of Exposure.
LEMMA ExposureStutter ==
  ASSUME UNCHANGED <<position, trades, settings, asked>>
  PROVE  UNCHANGED E!vars
  BY DEF E!vars, OrdersPermitted

LEMMA ExposureRequest ==
  ASSUME TypeOK, NEW c \in Calls, NEW s \in Strategies, Request(c, s)
  PROVE  [E!Next]_E!vars
  <1>1. CASE \E abs \in AbsValues, pct \in PctValues : Arm(c, s, abs, pct)
    <2>1. PICK abs \in AbsValues, pct \in PctValues : Arm(c, s, abs, pct)
      BY <1>1
    <2>2. [abs |-> abs, pct |-> pct] # NotAsked
      BY <2>1 DEF Arm, NotAsked
    <2>3. asked' = [asked EXCEPT ![s] = [abs |-> abs, pct |-> pct]]
      BY <2>1 DEF Arm
    <2>4. Consents' = Consents \cup {s}
      BY <2>2, <2>3 DEF Consents, TypeOK
    <2>5. OrdersPermitted /\ UNCHANGED <<position, trades, settings>>
      BY <2>1 DEF Arm, accountVars
    <2>6. E!Consent
      BY <2>4, <2>5 DEF E!Consent, Consents, OrdersPermitted
    <2>7. QED
      BY <2>6 DEF E!Next
  <1>2. CASE ~ \E abs \in AbsValues, pct \in PctValues : Arm(c, s, abs, pct)
    <2>1. UNCHANGED <<position, trades, settings, asked>>
      BY <1>2 DEF Request, ArmIndex, ArmDone, Disarm, DisarmDelete, DisarmUnindex,
             DisarmDone, accountVars
    <2>2. QED
      BY <2>1, ExposureStutter
  <1>3. QED
    BY <1>1, <1>2

\* The one step of the program that moves a position: an order that executes
\* reduces it, because its size has the sign of the position it was built from.
LEMMA ExposureAttempt ==
  ASSUME TypeOK, Consented, NEW x \in Symbols, Attempt(x)
  PROVE  [E!Next]_E!vars
  <1> DEFINE p == position[x]
             n == mon.orders[x].size
  <1>1. mon.sid \in Consents /\ x \in Legs[mon.sid] /\ OrdersPermitted
    BY DEF Attempt, Pending, Ordered, Consented, Consents, TypeOK
  <1>2. PICK q \in Executed(p, n) \cup {p} : position' = [position EXCEPT ![x] = q]
    BY DEF Attempt
  <1>3. p \in Int /\ n \in Int /\ q \in Sizes
    BY DEF TypeOK, AccountTypeOK, Monitor, Order, Sizes, Executed
  <1>4. UNCHANGED <<trades, settings, asked>>
    BY DEF Attempt
  <1>5. CASE q = p
    <2>1. UNCHANGED position
      BY <1>2, <1>5 DEF TypeOK, AccountTypeOK
    <2>2. QED
      BY <1>4, <2>1, ExposureStutter
  <1>6. CASE q # p
    <2>1. E!Reduced(p, q)
      BY <1>2, <1>3, <1>6 DEF Executed, E!Reduced
    <2>2. E!Reduce
      BY <1>1, <1>2, <1>3, <1>4, <2>1 DEF E!Reduce, OrdersPermitted, Consents
    <2>3. QED
      BY <2>2 DEF E!Next
  <1>7. QED
    BY <1>5, <1>6

LEMMA ExposureStep ==
  ASSUME TypeOK, Consented, [Next]_vars
  PROVE  [E!Next]_E!vars
  <1>1. ASSUME NEW x \in Symbols, NEW n \in Sizes, Trade(x, n), UNCHANGED slVars
        PROVE  [E!Next]_E!vars
    <2>1. UNCHANGED <<settings, asked>>
      BY <1>1 DEF Trade, slVars
    <2>2. E!Trade
      BY <1>1, <2>1 DEF Trade, E!Trade, OrdersPermitted, TypeOK, AccountTypeOK
    <2>3. QED
      BY <2>2 DEF E!Next
  <1>2. CASE /\ AccountNext /\ UNCHANGED slVars
             /\ ~ \E x \in Symbols, n \in Sizes : Trade(x, n)
    <2>1. UNCHANGED <<position, trades, settings, asked>>
      BY <1>2 DEF AccountNext, PriceMoves, SyncFetch, SyncWrite, SyncDone, SyncFails,
             Expire, slVars
    <2>2. QED
      BY <2>1, ExposureStutter
  <1>3. ASSUME NEW c \in Calls, NEW s \in Strategies, Request(c, s)
        PROVE  [E!Next]_E!vars
    BY <1>3, ExposureRequest
  <1>a. ASSUME NEW c \in Calls, RequestFails(c)
        PROVE  [E!Next]_E!vars
    BY <1>a, ExposureStutter DEF RequestFails, accountVars
  <1>4. ASSUME NEW x \in Symbols, Attempt(x)
        PROVE  [E!Next]_E!vars
    BY <1>4, ExposureAttempt
  <1>5. CASE MonitorStep /\ ~ \E x \in Symbols : Attempt(x)
    <2>1. UNCHANGED <<position, trades, settings, asked>>
      BY <1>5 DEF MonitorStep, TickStart, TickEnd, NextStrategy, AggregateLeg,
             AggregateDone, CountBreach, MarkClosing, Announce, LoadLeg, LoadDone,
             PlaceDone, Finish, Deindex, RecordEvent, accountVars
    <2>2. QED
      BY <2>1, ExposureStutter
  <1>6. CASE CloseRaises \/ TickFails \/ \E x \in Symbols : RateLimited(x)
    <2>1. UNCHANGED <<position, trades, settings, asked>>
      BY <1>6 DEF CloseRaises, TickFails, RateLimited, accountVars
    <2>2. QED
      BY <2>1, ExposureStutter
  <1>7. ASSUME NEW new \in Settings, Restart(new)
        PROVE  [E!Next]_E!vars
    <2>1. OrdersPermitted' \in BOOLEAN
      BY <1>7 DEF Restart, OrdersPermitted
    <2>2. E!Restart
      BY <1>7, <2>1 DEF Restart, E!Restart
    <2>3. QED
      BY <2>2 DEF E!Next
  <1>8. CASE UNCHANGED vars
    BY <1>8, ExposureStutter DEF vars, slVars, accountVars
  <1>9. QED
    BY <1>1, <1>2, <1>3, <1>a, <1>4, <1>5, <1>6, <1>7, <1>8 DEF Next, AccountNext

\* The program moves a real position only toward zero, only while the settings
\* permit orders, and only for a strategy somebody asked a stop-loss for,
\* whatever trades, price moves, restarts and failures fall between its steps
\* (close_strategy's gate, build_close_payload, set_stop_loss).
THEOREM ImplementsExposure == Spec => ExposureHeld
  BY InitType, NextType, ConsentedInit, ConsentedNext, ExposureInit, ExposureStep, PTL
  DEF Spec, ExposureHeld, E!Spec

-----------------------------------------------------------------------------
(* What a step does to the state and the watch of a stop-loss *)

Live == {"ARMED", "TRIGGERED", "CLOSING"}

StatesKept == \A s \in Strategies : hash'[s].state = hash[s].state

\* The monitor goes on with the strategy it has, or with none.
Path == {<<"legs", "count">>, <<"count", "closing">>, <<"announce", "load">>,
         <<"announce", "finish">>, <<"load", "place">>, <<"load", "finish">>,
         <<"place", "finish">>}

Onward ==
    /\ StatesKept /\ UNCHANGED <<index, req, reply, last>>
    /\ mon'.sid = mon.sid /\ mon'.queue = mon.queue
    /\ mon'.pc = mon.pc \/ <<mon.pc, mon'.pc>> \in Path

\* It lets go of it, and goes on with the tick.
LetGo ==
    /\ StatesKept /\ UNCHANGED <<index, req, reply, last>>
    /\ mon.pc \in {"count", "record"}
    /\ mon'.pc = "next" /\ mon'.sid = NoStrategy /\ mon'.queue = mon.queue

\* The tick ends, at its end or by a failure.
Stops ==
    /\ StatesKept /\ UNCHANGED <<index, req, reply, last>>
    /\ mon'.pc = "sleep" /\ mon'.sid = NoStrategy /\ mon'.queue = {}
    /\ TickEnd \/ TickFails

Restarts ==
    /\ StatesKept /\ UNCHANGED <<index, reply, last>>
    /\ mon'.pc = "sleep" /\ mon'.sid = NoStrategy /\ mon'.queue = {}
    /\ req' = [c \in Calls |-> NoRequest]

Starts ==
    /\ StatesKept /\ UNCHANGED <<index, req, reply, last>>
    /\ mon.pc = "sleep"
    /\ mon'.pc = "next" /\ mon'.sid = NoStrategy /\ mon'.queue = index

\* It looks at the next strategy: a finished stop-loss, or none, is passed by.
LooksAt(s) ==
    /\ StatesKept /\ UNCHANGED <<index, req, reply, last>>
    /\ mon.pc = "next" /\ s \in mon.queue /\ mon'.queue = mon.queue \ {s}
    /\ \/ hash[s].state \notin Live /\ mon'.pc = "next" /\ mon'.sid = NoStrategy
       \/ hash[s].state \in Live /\ mon'.pc \in {"legs", "closing"} /\ mon'.sid = s

\* It writes the state of the strategy it has.
Writes(from, to, states) ==
    /\ UNCHANGED <<index, req, reply, last>>
    /\ mon.pc = from /\ mon'.pc = to
    /\ mon.sid \in Strategies /\ mon'.sid = mon.sid /\ mon'.queue = mon.queue
    /\ hash'[mon.sid].state \in states
    /\ \A s \in Strategies \ {mon.sid} : hash'[s].state = hash[s].state

Unlists ==
    /\ StatesKept /\ UNCHANGED <<req, reply, last>>
    /\ index' = index \ {mon.sid}
    /\ mon.pc = "deindex" /\ mon'.pc = "record"
    /\ mon.sid \in Strategies /\ mon'.sid = mon.sid /\ mon'.queue = mon.queue

\* A request is dropped on the way.
Drops(c) ==
    /\ StatesKept /\ UNCHANGED <<index, mon, reply, last>>
    /\ req' = [req EXCEPT ![c] = NoRequest]

LEMMA MonitorShape ==
  ASSUME TypeOK, MonitorStep
  PROVE  \/ Onward \/ LetGo \/ Stops \/ Starts \/ Unlists
         \/ \E s \in Strategies : LooksAt(s)
         \/ Writes("closing", "announce", {"CLOSING"})
         \/ Writes("finish", "deindex", {"CLOSED", "FAILED"})
  <1> USE DEF TypeOK
  <1>1. CASE TickStart
    BY <1>1 DEF TickStart, Starts, StatesKept, Asleep
  <1>2. CASE TickEnd
    BY <1>2 DEF TickEnd, Stops, StatesKept, Asleep
  <1>3. ASSUME NEW s \in Strategies, NextStrategy(s)
        PROVE  LooksAt(s)
    <2> DEFINE to == Dispatch(hash[s].state)
               rest == [LoopTop EXCEPT !.queue = mon.queue \ {s}]
    <2>1. hash[s].state \in SLStates \cup {"none"}
      BY DEF Hash
    <2>2. /\ hash[s].state \in Live => to \in {"legs", "closing"}
          /\ hash[s].state \notin Live => to = "next"
      BY <2>1 DEF Dispatch, Live, SLStates
    <2>3. /\ rest.pc = "next" /\ rest.sid = NoStrategy
          /\ rest.queue = mon.queue \ {s}
      BY DEF LoopTop, Asleep
    <2>4. CASE to = "next"
      BY <1>3, <2>2, <2>3, <2>4 DEF NextStrategy, LooksAt, StatesKept
    <2>5. CASE to # "next"
      <3>1. mon'.pc = to /\ mon'.sid = s /\ mon'.queue = mon.queue \ {s}
        BY <1>3, <2>5 DEF NextStrategy, LoopTop, Asleep
      <3>2. QED
        BY <1>3, <2>2, <2>5, <3>1 DEF NextStrategy, LooksAt, StatesKept
    <2>6. QED
      BY <2>4, <2>5
  <1>4. ASSUME NEW x \in Symbols, AggregateLeg(x)
        PROVE  Onward
    BY <1>4 DEF AggregateLeg, Onward, StatesKept, Monitor
  <1>5. CASE AggregateDone
    BY <1>5 DEF AggregateDone, Onward, StatesKept, Path, Monitor
  <1>6. CASE CountBreach
    <2>1. StatesKept
      BY <1>6 DEF CountBreach, StatesKept, Hash
    <2>2. CASE CountAfter(mon.agg, mon.st) >= Debounce
      BY <1>6, <2>1, <2>2 DEF CountBreach, Onward, Path, Monitor
    <2>3. CASE ~(CountAfter(mon.agg, mon.st) >= Debounce)
      <3>1. mon' = LoopTop
        BY <1>6, <2>3 DEF CountBreach
      <3>2. QED
        BY <1>6, <2>1, <3>1 DEF CountBreach, LetGo, LoopTop, Asleep
    <2>4. QED
      BY <2>2, <2>3
  <1>7. CASE MarkClosing
    BY <1>7 DEF MarkClosing, Writes, Monitor, Hash
  <1>8. CASE Announce
    BY <1>8 DEF Announce, Onward, StatesKept, Path, Monitor
  <1>9. ASSUME NEW x \in Symbols, LoadLeg(x)
        PROVE  Onward
    BY <1>9 DEF LoadLeg, Onward, StatesKept, Monitor
  <1>10. CASE LoadDone
    BY <1>10 DEF LoadDone, Onward, StatesKept, Path, Monitor
  <1>11. ASSUME NEW x \in Symbols, Attempt(x)
         PROVE  Onward
    BY <1>11 DEF Attempt, Onward, StatesKept, Monitor
  <1>12. CASE PlaceDone
    BY <1>12 DEF PlaceDone, Onward, StatesKept, Path, Monitor
  <1>13. CASE Finish
    <2>1. mon.sid \in Strategies
      BY <1>13 DEF Finish
    <2>2. hash'[mon.sid].state = Verdict
      BY <1>13, <2>1 DEF Finish, Hash
    <2>3. QED
      BY <1>13, <2>1, <2>2 DEF Finish, Writes, Verdict, Monitor
  <1>14. CASE Deindex
    BY <1>14 DEF Deindex, Unlists, StatesKept, Monitor
  <1>15. CASE RecordEvent
    BY <1>15 DEF RecordEvent, LetGo, StatesKept, LoopTop, Asleep
  <1>16. QED
    BY <1>1, <1>2, <1>3, <1>4, <1>5, <1>6, <1>7, <1>8, <1>9, <1>10, <1>11, <1>12,
       <1>13, <1>14, <1>15 DEF MonitorStep

LEMMA StepShape ==
  ASSUME TypeOK, [Next]_vars
  PROVE  \/ Onward \/ LetGo \/ Stops \/ Restarts \/ Starts \/ Unlists
         \/ \E s \in Strategies : LooksAt(s)
         \/ \E c \in Calls : Drops(c)
         \/ \E c \in Calls, s \in Strategies : Request(c, s)
         \/ Writes("closing", "announce", {"CLOSING"})
         \/ Writes("finish", "deindex", {"CLOSED", "FAILED"})
  <1>1. CASE AccountNext /\ UNCHANGED slVars
    BY <1>1 DEF slVars, Onward, StatesKept
  <1>2. CASE MonitorStep
    BY <1>2, MonitorShape
  <1>3. CASE CloseRaises
    BY <1>3 DEF CloseRaises, Onward, StatesKept, Path, TypeOK, Monitor
  <1>4. ASSUME NEW x \in Symbols, RateLimited(x)
        PROVE  Onward
    BY <1>4 DEF RateLimited, Onward, StatesKept, TypeOK, Monitor
  <1>5. CASE TickFails
    BY <1>5 DEF TickFails, Stops, StatesKept, Asleep
  <1>6. ASSUME NEW new \in Settings, Restart(new)
        PROVE  Restarts
    BY <1>6 DEF Restart, Restarts, StatesKept, Asleep
  <1>7. CASE UNCHANGED vars
    BY <1>7 DEF vars, slVars, Onward, StatesKept
  <1>8. ASSUME NEW c \in Calls, RequestFails(c)
        PROVE  Drops(c)
    BY <1>8 DEF RequestFails, Drops, StatesKept
  <1>9. QED
    BY <1>1, <1>2, <1>3, <1>4, <1>5, <1>6, <1>7, <1>8 DEF Next

\* A request moves on, for its strategy alone.
LEMMA RequestMoves ==
  ASSUME TypeOK, NEW c \in Calls, NEW s \in Strategies, Request(c, s)
  PROVE  /\ UNCHANGED mon
         /\ \A d \in Calls \ {c} : req'[d] = req[d]
         /\ req[c].sid \in {s, NoStrategy} /\ req'[c].sid \in {s, NoStrategy}
         /\ \A t \in Strategies \ {s} :
               /\ hash'[t] = hash[t] /\ reply'[t] = reply[t] /\ last'[t] = last[t]
               /\ t \in index' <=> t \in index
  <1> USE DEF TypeOK
  <1>1. CASE \/ \E abs \in AbsValues, pct \in PctValues : Arm(c, s, abs, pct)
             \/ Disarm(c, s)
    BY <1>1 DEF Arm, Disarm, TakesEffect, NoRequest
  <1>2. CASE ArmIndex(c, s)
    BY <1>2, RequestGoesOn DEF ArmIndex, At, RequestSteps
  <1>3. CASE DisarmUnindex(c, s)
    BY <1>3, RequestGoesOn DEF DisarmUnindex, At, RequestSteps
  <1>4. CASE DisarmDelete(c, s)
    BY <1>4, DeleteMoves DEF DisarmDelete, TakesEffect, At
  <1>5. CASE ArmDone(c, s) \/ DisarmDone(c, s)
    BY <1>5 DEF ArmDone, DisarmDone, Answered, At, NoRequest
  <1>6. QED
    BY <1>1, <1>2, <1>3, <1>4, <1>5 DEF Request

\* What it leaves as it was for every other strategy.
LEMMA OthersKept ==
  ASSUME TypeOK, NEW c \in Calls, NEW s \in Strategies, Request(c, s),
         NEW t \in Strategies \ {s}, NEW d \in Calls, NEW step
  PROVE  At(d, t, step)' <=> At(d, t, step)
  <1>1. CASE d = c
    BY <1>1, RequestMoves DEF At
  <1>2. CASE d # c
    BY <1>2, RequestMoves DEF At
  <1>3. QED
    BY <1>1, <1>2

\* A request that is dropped is at no step any more; the others are where they were.
LEMMA DropLeaves ==
  ASSUME TypeOK, NEW c \in Calls, Drops(c), NEW d \in Calls, NEW s \in Strategies, NEW step
  PROVE  At(d, s, step)' => At(d, s, step)
  BY DEF Drops, At, NoRequest, TypeOK

-----------------------------------------------------------------------------
(* A confirmed stop-loss is watched *)

\* The request that took effect last on s arms it.
Armed(s) ==
    \/ reply[s] = "armed"
    \/ \E c \in Calls : last[s] = c /\ (At(c, s, "arm:hash") \/ At(c, s, "arm:index"))

\* And it has put it into the index.
Settled(s) == reply[s] = "armed" \/ \E c \in Calls : last[s] = c /\ At(c, s, "arm:index")

\* A settled stop-loss that has to run is in the index, and so is one the monitor
\* has taken up and not marked yet; before a strategy leaves the index, by the end
\* of its close or by a disarm request, its state is final or the arming is over.
WatchInv ==
    /\ \A s \in Strategies : Settled(s) /\ hash[s].state \in Live => s \in index
    /\ mon.pc \in {"legs", "count", "closing"} /\ Settled(mon.sid) => mon.sid \in index
    /\ mon.pc = "deindex" => hash[mon.sid].state \notin Live
    /\ \A s \in Strategies, c \in Calls : At(c, s, "disarm:deleted") => ~Armed(s)

\* The two windows.  Nobody arms a strategy between the two last writes of its
\* close, the HSET of the final state and the SREM, nor between the DELETE and the
\* SREM of a disarm request.
NobodyArmsInTheGaps ==
    \A c \in Calls, s \in Strategies : ArmsNow(c, s) =>
        /\ ~(mon.pc = "deindex" /\ mon.sid = s)
        /\ \A d \in Calls : ~At(d, s, "disarm:deleted")

LEMMA WatchInit == Init => WatchInv
  BY DEF Init, WatchInv, Armed, Settled, At, Asleep, NoRequest

\* For any other strategy a request changes nothing of that.
LEMMA WatchElsewhere ==
  ASSUME TypeOK, NEW c \in Calls, NEW s \in Strategies, Request(c, s),
         NEW t \in Strategies \ {s}
  PROVE  /\ Settled(t)' <=> Settled(t)
         /\ Armed(t)' <=> Armed(t)
         /\ \A d \in Calls : At(d, t, "disarm:deleted")' <=> At(d, t, "disarm:deleted")
  <1>1. reply'[t] = reply[t] /\ last'[t] = last[t]
    BY RequestMoves
  <1>2. \A d \in Calls, step \in RequestSteps : At(d, t, step)' <=> At(d, t, step)
    BY OthersKept
  <1>3. QED
    BY <1>1, <1>2 DEF Settled, Armed, RequestSteps

LEMMA WatchRequest ==
  ASSUME TypeOK, WatchInv, NEW c \in Calls, NEW s \in Strategies, Request(c, s),
         NobodyArmsInTheGaps
  PROVE  WatchInv'
  <1> USE DEF TypeOK
  <1>1. UNCHANGED mon /\ (mon.pc \notin {"sleep", "next"} => mon.sid \in Strategies)
    BY RequestMoves
  <1> DEFINE Kept ==
        /\ Settled(s)' /\ hash'[s].state \in Live => s \in index'
        /\ mon.pc \in {"legs", "count", "closing"} /\ mon.sid = s /\ Settled(s)' => s \in index'
        /\ mon.pc = "deindex" /\ mon.sid = s => hash'[s].state \notin Live
        /\ \A d \in Calls : At(d, s, "disarm:deleted")' => ~Armed(s)'
  <1>2. SUFFICES Kept
    <2>1. ASSUME NEW t \in Strategies \ {s}
          PROVE  /\ Settled(t)' <=> Settled(t)
                 /\ Armed(t)' <=> Armed(t)
                 /\ \A d \in Calls : At(d, t, "disarm:deleted")' <=> At(d, t, "disarm:deleted")
                 /\ hash'[t] = hash[t] /\ (t \in index' <=> t \in index)
      BY WatchElsewhere, RequestMoves
    <2>2. QED
      BY <1>1, <2>1 DEF WatchInv
  <1>a. \A d \in Calls \ {c} : req'[d] = req[d]
    BY RequestMoves
  <1>b. /\ Settled(s) /\ hash[s].state \in Live => s \in index
        /\ mon.pc \in {"legs", "count", "closing"} /\ mon.sid = s /\ Settled(s) => s \in index
        /\ mon.pc = "deindex" /\ mon.sid = s => hash[s].state \notin Live
        /\ \A d \in Calls : At(d, s, "disarm:deleted") => ~Armed(s)
    BY DEF WatchInv
  <1>3. ASSUME NEW abs \in AbsValues, NEW pct \in PctValues, Arm(c, s, abs, pct)
        PROVE  Kept
    <2>1. ArmsNow(c, s) /\ At(c, s, "arm:hash")' /\ reply'[s] = "none" /\ last'[s] = c
      BY <1>3 DEF Arm, ArmsNow, At, TakesEffect
    <2>2. ~Settled(s)'
      BY <2>1 DEF Settled, At
    <2>3. \A d \in Calls : ~At(d, s, "disarm:deleted")'
      BY <1>a, <2>1 DEF NobodyArmsInTheGaps, At
    <2>4. QED
      BY <2>1, <2>2, <2>3 DEF NobodyArmsInTheGaps
  <1>4. CASE ArmIndex(c, s)
    <2>1. At(c, s, "arm:index")' /\ At(c, s, "arm:hash")
      BY <1>4, RequestGoesOn DEF ArmIndex, At, RequestSteps
    <2>2. UNCHANGED <<reply, last, hash>> /\ s \in index'
      BY <1>4 DEF ArmIndex
    <2>3. Armed(s)' => Armed(s)
      BY <1>a, <2>1, <2>2 DEF Armed, At
    <2>4. QED
      BY <1>a, <1>b, <2>1, <2>2, <2>3 DEF At
  <1>5. CASE ArmDone(c, s)
    <2>1. /\ At(c, s, "arm:index") /\ req'[c] = NoRequest /\ UNCHANGED <<last, hash, index>>
          /\ reply'[s] = reply[s] \/ last[s] = c
          /\ reply'[s] \in {reply[s], "armed"}
      BY <1>5 DEF ArmDone, Answered
    <2>2. /\ Settled(s)' => Settled(s)
          /\ Armed(s)' => Armed(s)
      BY <1>a, <2>1 DEF Settled, Armed, At, NoRequest
    <2>3. QED
      BY <1>a, <1>b, <2>1, <2>2 DEF At, NoRequest
  <1>6. CASE Disarm(c, s)
    <2>1. /\ req'[c] = [sid |-> s, step |-> "disarm:read"]
          /\ UNCHANGED <<reply, last, hash, index>>
      BY <1>6 DEF Disarm
    <2>2. /\ Settled(s)' => Settled(s)
          /\ Armed(s)' => Armed(s)
      BY <1>a, <2>1 DEF Settled, Armed, At
    <2>3. QED
      BY <1>a, <1>b, <2>1, <2>2 DEF At
  <1>7. CASE DisarmDelete(c, s)
    <2>1. At(c, s, "disarm:deleted")' /\ reply'[s] = "none" /\ last'[s] = c
      BY <1>7, DeleteMoves
    <2>2. ~Settled(s)' /\ ~Armed(s)'
      BY <2>1 DEF Settled, Armed, At
    <2>3. hash'[s].state \notin Live
      BY <1>7 DEF DisarmDelete, NoHash, Live
    <2>4. QED
      BY <2>2, <2>3
  <1>8. CASE DisarmUnindex(c, s)
    <2>1. At(c, s, "disarm:unindexed")' /\ At(c, s, "disarm:deleted") /\ ~Armed(s)
      BY <1>8, <1>b, RequestGoesOn DEF DisarmUnindex, At, RequestSteps
    <2>2. UNCHANGED <<reply, last, hash>>
      BY <1>8 DEF DisarmUnindex
    <2>3. ~Armed(s)' /\ ~Settled(s)'
      BY <1>a, <2>1, <2>2 DEF Settled, Armed, At
    <2>4. QED
      BY <1>b, <2>2, <2>3
  <1>9. CASE DisarmDone(c, s)
    <2>1. At(c, s, "disarm:unindexed") /\ req'[c] = NoRequest /\ UNCHANGED <<last, hash, index>>
          /\ reply'[s] \in {reply[s], "disarmed"}
      BY <1>9 DEF DisarmDone, Answered
    <2>2. /\ Settled(s)' => Settled(s)
          /\ Armed(s)' => Armed(s)
      BY <1>a, <2>1 DEF Settled, Armed, At, NoRequest
    <2>3. QED
      BY <1>a, <1>b, <2>1, <2>2 DEF At, NoRequest
  <1>10. QED
    BY <1>3, <1>4, <1>5, <1>6, <1>7, <1>8, <1>9 DEF Request

LEMMA WatchStep ==
  ASSUME TypeOK, WatchInv, [Next]_vars, NobodyArmsInTheGaps
  PROVE  WatchInv'
  <1>0. mon.pc \notin {"sleep", "next"} => mon.sid \in Strategies
    BY DEF TypeOK
  <1>a. ASSUME UNCHANGED <<req, reply, last>>
        PROVE  \A s \in Strategies : /\ Settled(s)' <=> Settled(s)
                                     /\ Armed(s)' <=> Armed(s)
                                     /\ \A c \in Calls : At(c, s, "disarm:deleted")'
                                                           <=> At(c, s, "disarm:deleted")
    BY <1>a DEF Settled, Armed, At
  <1>1. ASSUME NEW c \in Calls, NEW s \in Strategies, Request(c, s)
        PROVE  WatchInv'
    BY <1>1, WatchRequest
  <1>2. CASE Onward
    BY <1>0, <1>a, <1>2 DEF Onward, StatesKept, Path, WatchInv
  <1>3. CASE LetGo
    BY <1>0, <1>a, <1>3 DEF LetGo, StatesKept, WatchInv
  <1>4. CASE Stops \/ Starts
    BY <1>0, <1>a, <1>4 DEF Stops, Starts, StatesKept, WatchInv
  <1>5. CASE Restarts
    <2>1. \A s \in Strategies : /\ Settled(s)' => Settled(s)
                                /\ \A c \in Calls : ~At(c, s, "disarm:deleted")'
      BY <1>5 DEF Restarts, Settled, At, NoRequest
    <2>2. QED
      BY <1>5, <2>1 DEF Restarts, StatesKept, WatchInv
  <1>6. ASSUME NEW c \in Calls, Drops(c)
        PROVE  WatchInv'
    <2>1. /\ UNCHANGED <<index, mon, reply, last>> /\ StatesKept
          /\ \A d \in Calls, s \in Strategies, step \in RequestSteps :
                At(d, s, step)' => At(d, s, step)
      BY <1>6, DropLeaves DEF Drops
    <2>2. \A s \in Strategies : /\ Settled(s)' => Settled(s)
                                /\ Armed(s)' => Armed(s)
                                /\ \A d \in Calls : At(d, s, "disarm:deleted")'
                                                      => At(d, s, "disarm:deleted")
      BY <2>1 DEF Settled, Armed, RequestSteps
    <2>3. QED
      BY <1>0, <2>1, <2>2 DEF StatesKept, WatchInv
  <1>7. CASE Unlists
    BY <1>0, <1>a, <1>7 DEF Unlists, StatesKept, WatchInv
  <1>8. ASSUME NEW s \in Strategies, LooksAt(s)
        PROVE  WatchInv'
    BY <1>0, <1>a, <1>8 DEF LooksAt, StatesKept, WatchInv
  <1>9. CASE Writes("closing", "announce", {"CLOSING"})
    BY <1>0, <1>a, <1>9 DEF Writes, WatchInv
  <1>10. CASE Writes("finish", "deindex", {"CLOSED", "FAILED"})
    BY <1>0, <1>a, <1>10 DEF Writes, Live, WatchInv
  <1>11. QED
    BY <1>1, <1>2, <1>3, <1>4, <1>5, <1>6, <1>7, <1>8, <1>9, <1>10, StepShape

\* A stop-loss whose arming was confirmed is never ARMED or CLOSING and out of the
\* index, for any strategies and any interleaving of requests with one another and
\* with the ticks, a restart or a failure between any two writes included, unless
\* an arm request wrote the hash in one of the two windows: between the two last
\* writes of the strategy's own close, or between the DELETE and the SREM of a
\* disarm request that overlaps it (arm, disarm, _do_close).
THEOREM WatchedButForTheGaps ==
  Spec /\ [][NobodyArmsInTheGaps]_vars => []ConfirmedStopIsWatched
  <1>1. WatchInv => ConfirmedStopIsWatched
    BY DEF WatchInv, Settled, Live, ConfirmedStopIsWatched
  <1>2. TypeOK /\ WatchInv /\ [Next]_vars /\ [NobodyArmsInTheGaps]_vars => WatchInv'
    <2>1. CASE UNCHANGED vars
      BY <2>1 DEF vars, slVars, WatchInv, Armed, Settled, At
    <2>2. QED
      BY <2>1, WatchStep
  <1>3. QED
    BY <1>1, <1>2, InitType, NextType, WatchInit, PTL DEF Spec

\* With one arm request in all there is no such window: who is at the end of a
\* close, or disarms, found a strategy that was armed before.
ArmedOnce ==
    /\ \A s \in Strategies : hash[s].state # "none" => used.arms > 0
    /\ mon.pc \notin {"sleep", "next"} => used.arms > 0
    /\ \A c \in Calls : req[c] # NoRequest => used.arms > 0

\* An arm request counts as it takes effect; the others are not made before one did.
LEMMA RequestArms ==
  ASSUME TypeOK, ArmedOnce, NEW c \in Calls, NEW s \in Strategies, Request(c, s)
  PROVE  /\ used'.arms > 0
         /\ used'.arms \in {used.arms, used.arms + 1}
         /\ \A t \in Strategies : ArmsNow(c, t) => used.arms < MaxArms
  <1> USE DEF TypeOK, ArmedOnce
  <1>1. ASSUME NEW abs \in AbsValues, NEW pct \in PctValues, Arm(c, s, abs, pct)
        PROVE  used.arms < MaxArms /\ used'.arms = used.arms + 1
    BY <1>1 DEF Arm
  <1>2. CASE Disarm(c, s)
    BY <1>2 DEF Disarm, ArmsNow
  <1>3. CASE \/ ArmIndex(c, s) \/ ArmDone(c, s) \/ DisarmDelete(c, s) \/ DisarmUnindex(c, s)
             \/ DisarmDone(c, s)
    BY <1>3 DEF ArmIndex, ArmDone, DisarmDelete, DisarmUnindex, DisarmDone, At, NoRequest,
                ArmsNow
  <1>4. QED
    BY <1>1, <1>2, <1>3 DEF Request

LEMMA ArmsKept ==
  ASSUME TypeOK, [Next]_vars, ~ \E c \in Calls, s \in Strategies : Request(c, s)
  PROVE  used'.arms = used.arms
  <1>1. CASE MonitorStep
    BY <1>1 DEF MonitorStep, TickStart, TickEnd, NextStrategy, AggregateLeg,
                AggregateDone, CountBreach, MarkClosing, Announce, LoadLeg, LoadDone,
                Attempt, PlaceDone, Finish, Deindex, RecordEvent
  <1>2. CASE (\E c \in Calls : RequestFails(c)) \/ \E new \in Settings : Restart(new)
    BY <1>2 DEF RequestFails, Restart, TypeOK
  <1>3. QED
    BY <1>1, <1>2 DEF Next, CloseRaises, RateLimited, TickFails, vars, slVars, TypeOK

LEMMA ArmedOnceStep ==
  ASSUME TypeOK, ArmedOnce, [Next]_vars
  PROVE  ArmedOnce'
  <1> USE DEF ArmedOnce
  <1>1. ASSUME NEW c \in Calls, NEW s \in Strategies, Request(c, s)
        PROVE  ArmedOnce'
    BY <1>1, RequestArms
  <1>a. (~ \E c \in Calls, s \in Strategies : Request(c, s)) => used'.arms = used.arms
    BY ArmsKept
  <1>2. CASE /\ Onward \/ LetGo \/ Stops \/ Starts \/ Unlists
             /\ ~ \E c \in Calls, s \in Strategies : Request(c, s)
    BY <1>a, <1>2 DEF Onward, LetGo, Stops, Starts, Unlists, StatesKept, Path
  <1>3. CASE /\ Restarts \/ \E c \in Calls : Drops(c)
             /\ ~ \E c \in Calls, s \in Strategies : Request(c, s)
    BY <1>a, <1>3 DEF Restarts, Drops, StatesKept, TypeOK
  <1>4. CASE /\ \E s \in Strategies : LooksAt(s)
             /\ ~ \E c \in Calls, s \in Strategies : Request(c, s)
    BY <1>a, <1>4 DEF LooksAt, StatesKept, Live
  <1>5. CASE /\ \/ Writes("closing", "announce", {"CLOSING"})
                \/ Writes("finish", "deindex", {"CLOSED", "FAILED"})
             /\ ~ \E c \in Calls, s \in Strategies : Request(c, s)
    BY <1>a, <1>5 DEF Writes
  <1>6. QED
    BY <1>1, <1>2, <1>3, <1>4, <1>5, StepShape

\* Only an arm request arms.
LEMMA ArmsByRequest ==
  ASSUME TypeOK, [Next]_vars, NEW c \in Calls, NEW s \in Strategies, ArmsNow(c, s)
  PROVE  Request(c, s)
  <1>1. ASSUME NEW d \in Calls, NEW t \in Strategies, Request(d, t)
        PROVE  Request(c, s)
    <2>1. d = c
      BY <1>1, RequestMoves DEF ArmsNow, NoRequest
    <2>2. t = s
      BY <1>1, <2>1, RequestMoves DEF ArmsNow
    <2>3. QED
      BY <1>1, <2>1, <2>2
  <1>2. ASSUME NEW d \in Calls, Drops(d)
        PROVE  FALSE
    BY <1>2 DEF Drops, ArmsNow, NoRequest, TypeOK
  <1>3. UNCHANGED req \/ Restarts => FALSE
    BY DEF ArmsNow, NoRequest, Restarts
  <1>4. QED
    BY <1>1, <1>2, <1>3, StepShape
    DEF Onward, LetGo, Stops, Starts, Unlists, LooksAt, Writes

\* One stop-loss, armed once, is watched until it is disarmed or has run, whatever
\* restarts and fails and whenever (arm's two writes, _tick, _do_close).
THEOREM ArmedOnceIsWatched ==
  ASSUME MaxArms <= 1
  PROVE  Spec => []ConfirmedStopIsWatched
  <1>1. Init => ArmedOnce
    BY DEF Init, ArmedOnce, NoHash, Asleep
  <1>2. TypeOK /\ ArmedOnce /\ [Next]_vars => [NobodyArmsInTheGaps]_vars
    <2> SUFFICES ASSUME TypeOK, ArmedOnce, [Next]_vars,
                        NEW c \in Calls, NEW s \in Strategies, ArmsNow(c, s),
                        \/ mon.pc = "deindex"
                        \/ \E d \in Calls : At(d, s, "disarm:deleted")
                 PROVE  FALSE
      BY DEF NobodyArmsInTheGaps
    <2>1. used.arms > 0 /\ used.arms \in Nat
      BY DEF ArmedOnce, TypeOK, At, NoRequest
    <2>2. used.arms < MaxArms
      BY ArmsByRequest, RequestArms
    <2>3. QED
      BY <2>1, <2>2
  <1>3. QED
    BY <1>1, <1>2, ArmedOnceStep, InitType, NextType, WatchedButForTheGaps, PTL DEF Spec

-----------------------------------------------------------------------------
(* A finished stop-loss stays finished *)

Final == {"CLOSED", "FAILED"}

\* The monitor works on no strategy whose close has ended.
NotFinished ==
    mon.pc \in {"legs", "count", "closing", "announce", "load", "place", "finish"}
        => hash[mon.sid].state \notin Final

\* An arm request takes a state that is final back to ARMED, and a disarm request
\* that read ARMED before deletes it; nothing else touches it.
DeletesNow(c, s) == At(c, s, "disarm:read") /\ At(c, s, "disarm:deleted")'

OnlyRequestsReopen ==
    \A s \in Strategies :
        hash[s].state \in Final /\ hash'[s].state # hash[s].state
            => \E c \in Calls : ArmsNow(c, s) \/ DeletesNow(c, s)

LEMMA RequestOnState ==
  ASSUME TypeOK, NEW c \in Calls, NEW s \in Strategies, Request(c, s)
  PROVE  \/ hash'[s] = hash[s]
         \/ hash'[s].state = "ARMED" /\ ArmsNow(c, s)
         \/ hash'[s].state = "none" /\ DeletesNow(c, s)
  <1>1. ASSUME NEW abs \in AbsValues, NEW pct \in PctValues, Arm(c, s, abs, pct)
        PROVE  hash'[s].state = "ARMED" /\ ArmsNow(c, s)
    BY <1>1 DEF Arm, ArmsNow, TypeOK
  <1>2. CASE DisarmDelete(c, s)
    <2>1. DeletesNow(c, s)
      BY <1>2, DeleteMoves DEF DeletesNow
    <2>2. QED
      BY <1>2, <2>1 DEF DisarmDelete, NoHash, TypeOK
  <1>3. QED
    BY <1>1, <1>2 DEF Request, ArmIndex, ArmDone, Disarm, DisarmUnindex, DisarmDone

LEMMA NotFinishedStep ==
  ASSUME TypeOK, NotFinished, [Next]_vars
  PROVE  NotFinished' /\ OnlyRequestsReopen
  <1> USE DEF NotFinished, OnlyRequestsReopen
  <1>1. ASSUME NEW c \in Calls, NEW s \in Strategies, Request(c, s)
        PROVE  NotFinished' /\ OnlyRequestsReopen
    BY <1>1, RequestOnState, RequestMoves DEF Final, TypeOK
  <1>2. CASE Onward
    BY <1>2 DEF Onward, StatesKept, Path, TypeOK
  <1>3. CASE LetGo \/ Stops \/ Restarts \/ Starts \/ Unlists
    BY <1>3 DEF LetGo, Stops, Restarts, Starts, Unlists, StatesKept
  <1>a. ASSUME NEW c \in Calls, Drops(c)
        PROVE  NotFinished' /\ OnlyRequestsReopen
    BY <1>a DEF Drops, StatesKept, TypeOK
  <1>4. ASSUME NEW s \in Strategies, LooksAt(s)
        PROVE  NotFinished' /\ OnlyRequestsReopen
    BY <1>4 DEF LooksAt, StatesKept, Live, Final
  <1>5. CASE \/ Writes("closing", "announce", {"CLOSING"})
             \/ Writes("finish", "deindex", {"CLOSED", "FAILED"})
    BY <1>5 DEF Writes, Final
  <1>6. QED
    BY <1>1, <1>2, <1>3, <1>a, <1>4, <1>5, StepShape

\* No restart and no failure makes the monitor work a second time on a close whose
\* final state is written, wherever it falls (_check_armed's skip of CLOSED and
\* FAILED, _do_close): only requests of the user change that state.
THEOREM ReopenedByRequestOnly == Spec => [][OnlyRequestsReopen]_<<hash, req>>
  <1>1. Init => NotFinished
    BY DEF Init, NotFinished, Asleep
  <1>2. QED
    BY <1>1, NotFinishedStep, InitType, NextType, PTL DEF Spec

\* Where nobody disarms, a finished stop-loss stays finished until it is armed again.
THEOREM FinishedUntilArmed ==
  ASSUME MaxDisarms = 0
  PROVE  Spec => FinishedIsFinal
  <1> DEFINE Arming == \A c \in Calls, s \in Strategies : ~At(c, s, "disarm:read")
  <1>1. Init => Arming
    BY DEF Init, At, NoRequest
  <1>2. TypeOK /\ Arming /\ [Next]_vars => Arming'
    <2> SUFFICES ASSUME TypeOK, Arming, [Next]_vars,
                        NEW c \in Calls, NEW s \in Strategies, At(c, s, "disarm:read")'
                 PROVE  FALSE
      OBVIOUS
    <2>1. ASSUME NEW d \in Calls, NEW t \in Strategies, Request(d, t)
          PROVE  FALSE
      <3>1. d = c /\ t = s
        BY <2>1, RequestMoves DEF At
      <3>2. ~ Disarm(d, t)
        BY DEF Disarm, TypeOK
      <3>3. CASE \E abs \in AbsValues, pct \in PctValues : Arm(c, s, abs, pct)
        BY <3>3 DEF Arm, At, TypeOK
      <3>a. CASE DisarmDelete(c, s)
        BY <3>a, DeleteMoves, AtOneStep
      <3>4. CASE ArmIndex(c, s) \/ DisarmUnindex(c, s)
        BY <3>4, IndexMoves, AtOneStep
      <3>5. CASE ArmDone(c, s) \/ DisarmDone(c, s)
        BY <3>5 DEF ArmDone, DisarmDone, Answered, At, NoRequest, TypeOK
      <3>6. QED
        BY <2>1, <3>1, <3>2, <3>3, <3>a, <3>4, <3>5 DEF Request
    <2>2. ASSUME NEW d \in Calls, Drops(d)
          PROVE  FALSE
      BY <2>2, DropLeaves
    <2>3. UNCHANGED req \/ Restarts => FALSE
      BY DEF At, NoRequest, Restarts
    <2>4. QED
      BY <2>1, <2>2, <2>3, StepShape DEF Onward, LetGo, Stops, Starts, Unlists, LooksAt, Writes
  <1>3. Arming /\ OnlyRequestsReopen =>
          \A s \in Strategies : hash[s].state \in {"CLOSED", "FAILED"} /\ hash'[s].state # hash[s].state
             => \E c \in Calls : ArmsNow(c, s)
    BY DEF OnlyRequestsReopen, DeletesNow, Final
  <1>4. QED
    BY <1>1, <1>2, <1>3, ReopenedByRequestOnly, InitType, NextType, PTL
    DEF Spec, FinishedIsFinal

-----------------------------------------------------------------------------
(* A strategy whose disarming was confirmed is not taken up *)

\* The request that took effect last on s is a disarm request: it has deleted the
\* hash; it has also taken s out of the index, or its user has seen it confirmed.
Deleted(s)  == \E c \in Calls : last[s] = c /\ At(c, s, "disarm:deleted")
Unlisted(s) == reply[s] = "disarmed" \/ \E c \in Calls : last[s] = c /\ At(c, s, "disarm:unindexed")

Closing == mon.pc \in {"announce", "load", "place", "finish"}

\* Between two strategies the monitor has none.
Idles == mon.pc \in {"sleep", "next"} => mon.sid = NoStrategy

LEMMA IdleStep ==
  ASSUME TypeOK, Idles, [Next]_vars
  PROVE  Idles'
  <1>1. ASSUME NEW c \in Calls, NEW s \in Strategies, Request(c, s)
        PROVE  Idles'
    BY <1>1, RequestMoves DEF Idles
  <1>2. QED
    BY <1>1, StepShape DEF Idles, Onward, LetGo, Stops, Restarts, Starts, Unlists,
                           LooksAt, Writes, Drops, Path

\* A strategy whose hash is deleted has no state the monitor acts on, or it is the
\* one the monitor is closing.  Once it is out of the index, too, the monitor will
\* not come to it again: it is neither in the index nor in the copy, or it has no
\* state and the monitor is not about to give it one.
RetiredInv ==
    /\ Idles
    /\ mon.pc \notin {"sleep", "next"} => mon.sid \notin mon.queue
    /\ \A s \in Strategies :
          /\ Deleted(s) => hash[s].state \notin Live \/ (Closing /\ mon.sid = s)
          /\ Unlisted(s) => /\ s \notin index \/ (hash[s].state \notin Live /\ mon.sid # s)
                            /\ \/ hash[s].state \notin Live
                               \/ Closing /\ mon.sid = s
                               \/ s \notin mon.queue

\* The two windows.  No tick fails in the middle of closing a strategy that a
\* disarm request has deleted and not yet taken out of the index.
NoTickFailsInTheGap ==
    mon.pc \in {"announce", "finish"} /\ Deleted(mon.sid) => ~TickFails

\* No arm request that a disarm request overtook puts the strategy back into the
\* index while the monitor is at it, or while its close is left unfinished.
NoLateListing ==
    \A c \in Calls, s \in Strategies :
        ArmIndex(c, s) /\ Unlisted(s) => hash[s].state \notin Live /\ mon.sid # s

\* For any other strategy a request changes nothing of that.
LEMMA RetiredElsewhere ==
  ASSUME TypeOK, NEW c \in Calls, NEW s \in Strategies, Request(c, s),
         NEW t \in Strategies \ {s}
  PROVE  /\ Deleted(t)' <=> Deleted(t)
         /\ Unlisted(t)' <=> Unlisted(t)
  <1>1. reply'[t] = reply[t] /\ last'[t] = last[t]
    BY RequestMoves
  <1>2. \A d \in Calls, step \in RequestSteps : At(d, t, step)' <=> At(d, t, step)
    BY OthersKept
  <1>3. QED
    BY <1>1, <1>2 DEF Deleted, Unlisted, RequestSteps

\* What a request does to its own strategy's part.
MovesHere(c, s) ==
    \/ ~Deleted(s)' /\ ~Unlisted(s)' /\ index' = index
    \/ hash'[s].state \notin Live /\ ~Unlisted(s)' /\ index' = index
    \/ /\ hash' = hash /\ s \notin index'
       /\ Deleted(s)' => Deleted(s)
       /\ Unlisted(s)' => Deleted(s) \/ Unlisted(s)
    \/ /\ hash' = hash
       /\ index' = index \/ (ArmIndex(c, s) /\ index' = index \cup {s})
       /\ Deleted(s)' => Deleted(s)
       /\ Unlisted(s)' => Unlisted(s)

LEMMA RetiredHere ==
  ASSUME TypeOK, NEW c \in Calls, NEW s \in Strategies, Request(c, s)
  PROVE  MovesHere(c, s)
  <1> USE DEF MovesHere
  <1> USE DEF TypeOK
  <1>a. \A d \in Calls \ {c} : req'[d] = req[d]
    BY RequestMoves
  <1>1. ASSUME NEW abs \in AbsValues, NEW pct \in PctValues, Arm(c, s, abs, pct)
        PROVE  ~Deleted(s)' /\ ~Unlisted(s)' /\ index' = index
    <2>1. At(c, s, "arm:hash")' /\ reply'[s] = "none" /\ last'[s] = c /\ index' = index
      BY <1>1 DEF Arm, At, TakesEffect
    <2>2. QED
      BY <2>1 DEF Deleted, Unlisted, At
  <1>2. CASE ArmIndex(c, s)
    <2>1. At(c, s, "arm:index")' /\ UNCHANGED <<reply, last, hash>> /\ index' = index \cup {s}
      BY <1>2, RequestGoesOn DEF ArmIndex, At, RequestSteps
    <2>2. (Deleted(s)' => Deleted(s)) /\ (Unlisted(s)' => Unlisted(s))
      BY <1>a, <2>1 DEF Deleted, Unlisted, At
    <2>3. QED
      BY <1>2, <2>1, <2>2
  <1>3. CASE ArmDone(c, s)
    <2>1. /\ req'[c] = NoRequest /\ UNCHANGED <<last, hash, index>>
          /\ reply'[s] \in {reply[s], "armed"}
      BY <1>3 DEF ArmDone, Answered
    <2>2. (Deleted(s)' => Deleted(s)) /\ (Unlisted(s)' => Unlisted(s))
      BY <1>a, <2>1 DEF Deleted, Unlisted, At, NoRequest
    <2>3. QED
      BY <2>1, <2>2
  <1>4. CASE Disarm(c, s)
    <2>1. /\ req'[c] = [sid |-> s, step |-> "disarm:read"]
          /\ UNCHANGED <<reply, last, hash, index>>
      BY <1>4 DEF Disarm
    <2>2. (Deleted(s)' => Deleted(s)) /\ (Unlisted(s)' => Unlisted(s))
      BY <1>a, <2>1 DEF Deleted, Unlisted, At
    <2>3. QED
      BY <2>1, <2>2
  <1>5. CASE DisarmDelete(c, s)
    <2>1. At(c, s, "disarm:deleted")' /\ reply'[s] = "none" /\ last'[s] = c /\ index' = index
      BY <1>5, DeleteMoves
    <2>2. ~Unlisted(s)'
      BY <2>1 DEF Unlisted, At
    <2>3. hash'[s].state \notin Live
      BY <1>5 DEF DisarmDelete, NoHash, Live
    <2>4. QED
      BY <2>1, <2>2, <2>3
  <1>6. CASE DisarmUnindex(c, s)
    <2>1. /\ At(c, s, "disarm:unindexed")' /\ At(c, s, "disarm:deleted")
          /\ UNCHANGED <<reply, last, hash>> /\ s \notin index'
      BY <1>6, RequestGoesOn DEF DisarmUnindex, At, RequestSteps
    <2>2. /\ Deleted(s)' => Deleted(s)
          /\ Unlisted(s)' => Deleted(s) \/ Unlisted(s)
      BY <1>a, <2>1 DEF Deleted, Unlisted, At
    <2>3. QED
      BY <2>1, <2>2
  <1>7. CASE DisarmDone(c, s)
    <2>1. /\ req'[c] = NoRequest /\ UNCHANGED <<last, hash, index>> /\ At(c, s, "disarm:unindexed")
          /\ reply'[s] = reply[s] \/ last[s] = c
      BY <1>7 DEF DisarmDone, Answered
    <2>2. (Deleted(s)' => Deleted(s)) /\ (Unlisted(s)' => Unlisted(s))
      BY <1>a, <2>1 DEF Deleted, Unlisted, At, NoRequest
    <2>3. QED
      BY <2>1, <2>2
  <1>8. QED
    BY <1>1, <1>2, <1>3, <1>4, <1>5, <1>6, <1>7 DEF Request

LEMMA RetiredRequest ==
  ASSUME TypeOK, RetiredInv, NEW c \in Calls, NEW s \in Strategies, Request(c, s),
         NoLateListing
  PROVE  RetiredInv'
  <1> DEFINE Rest(t) ==
        /\ Deleted(t) => hash[t].state \notin Live \/ (Closing /\ mon.sid = t)
        /\ Unlisted(t) => /\ t \notin index \/ (hash[t].state \notin Live /\ mon.sid # t)
                          /\ \/ hash[t].state \notin Live
                             \/ Closing /\ mon.sid = t
                             \/ t \notin mon.queue
  <1>0. \A t \in Strategies : Rest(t)
    BY DEF RetiredInv
  <1>1. UNCHANGED mon /\ (Closing' <=> Closing)
    BY RequestMoves DEF Closing
  <1>2. ASSUME NEW t \in Strategies \ {s}
        PROVE  Rest(t)'
    <2>1. /\ Deleted(t)' <=> Deleted(t)
          /\ Unlisted(t)' <=> Unlisted(t)
          /\ hash'[t] = hash[t] /\ (t \in index' <=> t \in index)
      BY RetiredElsewhere, RequestMoves
    <2>2. QED
      BY <1>0, <1>1, <2>1
  <1>3. Rest(s)'
    <2>1. ArmIndex(c, s) /\ Unlisted(s) => hash[s].state \notin Live /\ mon.sid # s
      BY DEF NoLateListing
    <2>2. MovesHere(c, s)
      BY RetiredHere
    <2>3. QED
      BY <1>0, <1>1, <2>1, <2>2 DEF MovesHere
  <1>4. QED
    BY <1>1, <1>2, <1>3 DEF RetiredInv, Idles

LEMMA RetiredStep ==
  ASSUME TypeOK, RetiredInv, [Next]_vars, NoTickFailsInTheGap, NoLateListing
  PROVE  RetiredInv'
  <1> USE DEF RetiredInv, Idles, Closing
  <1>0. index \subseteq Strategies /\ mon.queue \subseteq Strategies
        /\ NoStrategy \notin Strategies
        /\ (mon.pc \notin {"sleep", "next"} => mon.sid \in Strategies)
    BY DEF TypeOK, Monitor
  <1>a. ASSUME UNCHANGED <<req, reply, last>>
        PROVE  \A s \in Strategies : /\ Deleted(s)' <=> Deleted(s)
                                     /\ Unlisted(s)' <=> Unlisted(s)
    BY <1>a DEF Deleted, Unlisted, At
  <1>1. ASSUME NEW c \in Calls, NEW s \in Strategies, Request(c, s)
        PROVE  RetiredInv'
    BY <1>1, RetiredRequest
  <1>2. CASE Onward
    BY <1>a, <1>2 DEF Onward, StatesKept, Path
  <1>3. CASE LetGo
    BY <1>0, <1>a, <1>3 DEF LetGo, StatesKept
  <1>4. CASE Stops
    <2>1. \A s \in Strategies : Closing /\ mon.sid = s => ~Deleted(s)
      BY <1>4 DEF Stops, TickEnd, TickFails, NoTickFailsInTheGap
    <2>2. QED
      BY <1>0, <1>a, <1>4, <2>1 DEF Stops, StatesKept
  <1>5. CASE Restarts
    <2>1. \A s \in Strategies : ~Deleted(s)' /\ (Unlisted(s)' => Unlisted(s))
      BY <1>5 DEF Restarts, Deleted, Unlisted, At, NoRequest
    <2>2. QED
      BY <1>0, <1>5, <2>1 DEF Restarts, StatesKept
  <1>6. CASE Starts
    BY <1>0, <1>a, <1>6 DEF Starts, StatesKept
  <1>7. CASE Unlists
    BY <1>a, <1>7 DEF Unlists, StatesKept
  <1>8. ASSUME NEW s \in Strategies, LooksAt(s)
        PROVE  RetiredInv'
    BY <1>8, <1>0, <1>a DEF LooksAt, StatesKept
  <1>9. CASE Writes("closing", "announce", {"CLOSING"})
    BY <1>a, <1>9 DEF Writes
  <1>10. CASE Writes("finish", "deindex", {"CLOSED", "FAILED"})
    BY <1>a, <1>10 DEF Writes, Live
  <1>11. ASSUME NEW c \in Calls, Drops(c)
         PROVE  RetiredInv'
    <2>1. \A d \in Calls, s \in Strategies, step \in RequestSteps :
             At(d, s, step)' => At(d, s, step)
      BY <1>11, DropLeaves
    <2>2. \A s \in Strategies : (Deleted(s)' => Deleted(s)) /\ (Unlisted(s)' => Unlisted(s))
      BY <1>11, <2>1 DEF Drops, Deleted, Unlisted, RequestSteps
    <2>3. QED
      BY <1>11, <2>2 DEF Drops, StatesKept
  <1>12. QED
    BY <1>1, <1>2, <1>3, <1>4, <1>5, <1>6, <1>7, <1>8, <1>9, <1>10, <1>11, StepShape

LEMMA NotTakenUp ==
  ASSUME TypeOK, RetiredInv, [Next]_vars, NEW s \in Strategies,
         mon.pc = "next", mon'.sid = s
  PROVE  reply[s] # "disarmed"
  <1>1. mon.sid # s
    BY DEF RetiredInv, Idles
  <1>2. LooksAt(s) => reply[s] # "disarmed"
    BY DEF LooksAt, RetiredInv, Idles, Unlisted, Closing
  <1>3. LooksAt(s)
    <2>1. \A c \in Calls, t \in Strategies : Request(c, t) => mon' = mon
      BY RequestMoves
    <2>2. \A t \in Strategies : LooksAt(t) => t = s
      BY DEF LooksAt
    <2>3. QED
      BY <1>1, <2>1, <2>2, StepShape
      DEF Onward, LetGo, Stops, Restarts, Starts, Unlists, Writes, Drops
  <1>4. QED
    BY <1>2, <1>3

\* The monitor does not take up a strategy whose disarming was confirmed, whatever
\* restarts, requests and failures of requests fall between the steps, unless one of
\* two windows was hit: a tick failed while it was closing that strategy, between
\* the disarm's DELETE and its SREM; or an arm request that the disarm overtook did
\* its SADD after the disarm's SREM while a close of that strategy was not done
\* (arm, disarm, _do_close's HSET of a key that was just deleted).
THEOREM DisarmedButForTheGaps ==
  Spec /\ [][NoTickFailsInTheGap /\ NoLateListing]_vars => DisarmedIsNotTakenUp
  <1>1. Init => RetiredInv
    BY DEF Init, RetiredInv, Idles, Deleted, Unlisted, At, NoRequest, Asleep
  <1>2. TypeOK /\ RetiredInv /\ [Next]_vars /\ [NoTickFailsInTheGap /\ NoLateListing]_vars
          => RetiredInv'
    <2>1. CASE UNCHANGED vars
      BY <2>1 DEF vars, slVars, RetiredInv, Idles, Deleted, Unlisted, At, Closing
    <2>2. QED
      BY <2>1, RetiredStep
  <1>3. TypeOK /\ RetiredInv /\ [Next]_vars =>
          \A s \in Strategies : mon.pc = "next" /\ mon'.sid = s => reply[s] # "disarmed"
    BY NotTakenUp
  <1>4. QED
    BY <1>1, <1>2, <1>3, InitType, NextType, PTL DEF Spec, DisarmedIsNotTakenUp

\* Restarts do not make the first window, and requests that are served one at a time
\* not the second: without failures of Redis and of the database the monitor then
\* never takes up a strategy disarmed.
THEOREM DisarmedOneAtATime ==
  ASSUME MaxFaults = 0,
         \A c, d \in Calls : c = d
  PROVE  Spec => DisarmedIsNotTakenUp
  <1> DEFINE Alone == \A c \in Calls, s \in Strategies :
                        At(c, s, "arm:hash") => last[s] = c /\ reply[s] = "none"
  <1>1. Init => Alone
    BY DEF Init, At, NoRequest
  <1>2. TypeOK /\ Alone /\ [Next]_vars => Alone'
    <2> SUFFICES ASSUME TypeOK, Alone, [Next]_vars,
                        NEW c \in Calls, NEW s \in Strategies, At(c, s, "arm:hash")'
                 PROVE  last'[s] = c /\ reply'[s] = "none"
      OBVIOUS
    <2>1. ASSUME NEW d \in Calls, NEW t \in Strategies, Request(d, t)
          PROVE  last'[s] = c /\ reply'[s] = "none"
      <3>1. d = c
        OBVIOUS
      <3>2. t = s
        BY <2>1, <3>1, RequestMoves DEF At
      <3>3. ASSUME NEW abs \in AbsValues, NEW pct \in PctValues, Arm(c, s, abs, pct)
            PROVE  last'[s] = c /\ reply'[s] = "none"
        BY <3>3 DEF Arm, TakesEffect, TypeOK
      <3>a. CASE DisarmDelete(c, s)
        BY <3>a, DeleteMoves, AtOneStep
      <3>4. CASE ArmIndex(c, s) \/ DisarmUnindex(c, s)
        BY <3>4, IndexMoves, AtOneStep
      <3>5. CASE ArmDone(c, s) \/ DisarmDone(c, s) \/ Disarm(c, s)
        BY <3>5 DEF ArmDone, DisarmDone, Disarm, Answered, At, NoRequest, TypeOK
      <3>6. QED
        BY <2>1, <3>1, <3>2, <3>3, <3>a, <3>4, <3>5 DEF Request
    <2>2. ASSUME NEW d \in Calls, Drops(d)
          PROVE  last'[s] = c /\ reply'[s] = "none"
      BY <2>2, DropLeaves DEF Drops
    <2>3. ~Restarts
      BY DEF Restarts, At, NoRequest
    <2>4. QED
      BY <2>1, <2>2, <2>3, StepShape
      DEF At, Onward, LetGo, Stops, Starts, Unlists, LooksAt, Writes
  <1>3. TypeOK /\ Alone => NoTickFailsInTheGap /\ NoLateListing
    BY DEF TypeOK, NoTickFailsInTheGap, TickFails, NoLateListing, ArmIndex, Unlisted, At
  <1>4. QED
    BY <1>1, <1>2, <1>3, InitType, NextType, DisarmedButForTheGaps, PTL DEF Spec

\* Until the first arm request has put its strategy into the index, the monitor has
\* nothing to do, and what is deleted stays so.
FirstArm ==
    LET before == used.arms = 0 \/ \E c \in Calls, s \in Strategies : At(c, s, "arm:hash")
    IN  /\ before => /\ index = {} /\ mon.queue = {} /\ mon.pc \in {"sleep", "next"}
                     /\ \A s \in Strategies :
                           Deleted(s) \/ Unlisted(s) => hash[s].state \notin Live
        /\ \A c \in Calls, s \in Strategies : At(c, s, "arm:hash") =>
              /\ used.arms = 1
              /\ \A d \in Calls, t \in Strategies : At(d, t, "arm:hash") => c = d

LEMMA FirstArmStep ==
  ASSUME TypeOK, ArmedOnce, FirstArm, [Next]_vars, MaxArms <= 1
  PROVE  FirstArm'
  <1> DEFINE Before == used.arms = 0 \/ \E c \in Calls, s \in Strategies : At(c, s, "arm:hash")
             Quiet  == /\ index = {} /\ mon.queue = {} /\ mon.pc \in {"sleep", "next"}
                       /\ \A s \in Strategies :
                             Deleted(s) \/ Unlisted(s) => hash[s].state \notin Live
             Only   == \A c \in Calls, s \in Strategies : At(c, s, "arm:hash") =>
                          /\ used.arms = 1
                          /\ \A d \in Calls, t \in Strategies : At(d, t, "arm:hash") => c = d
  <1>0. (Before => Quiet) /\ Only
    BY DEF FirstArm
  <1>a. used.arms \in Nat /\ MaxArms \in Nat
    BY DEF TypeOK
  <1>1. ASSUME NEW c \in Calls, NEW s \in Strategies, Request(c, s)
        PROVE  FirstArm'
    <2>0. DisarmUnindex(c, s) => At(c, s, "disarm:unindexed")'
      BY IndexMoves
    <2> USE DEF TypeOK
    <2>1. /\ UNCHANGED mon
          /\ \A d \in Calls \ {c} : req'[d] = req[d]
      BY <1>1, RequestMoves
    <2>2. \A t \in Strategies \ {s} :
             /\ Deleted(t)' <=> Deleted(t)
             /\ Unlisted(t)' <=> Unlisted(t)
             /\ hash'[t] = hash[t]
      BY <1>1, RetiredElsewhere, RequestMoves
    <2>3. ASSUME NEW abs \in AbsValues, NEW pct \in PctValues, Arm(c, s, abs, pct)
          PROVE  FirstArm'
      <3>1. used.arms = 0 /\ used'.arms = 1 /\ UNCHANGED index
        <4>1. used.arms < MaxArms /\ used' = [used EXCEPT !.arms = @ + 1] /\ UNCHANGED index
          BY <2>3 DEF Arm
        <4>2. used'.arms = used.arms + 1
          BY <4>1
        <4>3. QED
          BY <1>a, <4>1, <4>2
      <3>2. ~Deleted(s)' /\ ~Unlisted(s)'
        BY <2>3 DEF Arm, TakesEffect, Deleted, Unlisted, At
      <3>3. Quiet'
        BY <1>0, <2>1, <2>2, <3>1, <3>2
      <3>4. \A d \in Calls, t \in Strategies : At(d, t, "arm:hash")' => d = c
        BY <1>0, <2>1, <3>1 DEF At
      <3>5. QED
        BY <3>1, <3>3, <3>4 DEF FirstArm
    <2>4. CASE ArmIndex(c, s)
      <3>1. /\ At(c, s, "arm:hash") /\ At(c, s, "arm:index")' /\ used' = used
        BY <2>4, RequestGoesOn DEF ArmIndex, At, RequestSteps
      <3>2. \A d \in Calls, t \in Strategies : ~At(d, t, "arm:hash")'
        <4>1. ASSUME NEW d \in Calls, NEW t \in Strategies, At(d, t, "arm:hash")'
              PROVE  At(d, t, "arm:hash") /\ d # c
          BY <2>1, <3>1, <4>1 DEF At
        <4>2. QED
          BY <1>0, <3>1, <4>1
      <3>3. used'.arms = 1
        BY <1>0, <3>1
      <3>4. QED
        BY <3>2, <3>3 DEF FirstArm
    <2>5. CASE \/ ArmDone(c, s) \/ Disarm(c, s) \/ DisarmDelete(c, s) \/ DisarmUnindex(c, s)
               \/ DisarmDone(c, s)
      <3>1. used'.arms = used.arms
        BY <2>5 DEF ArmDone, Disarm, DisarmDelete, DisarmUnindex, DisarmDone
      <3>2. \A d \in Calls, t \in Strategies : At(d, t, "arm:hash")' => At(d, t, "arm:hash")
        <4>1. \A t \in Strategies : ~At(c, t, "arm:hash")'
          <5>a. CASE DisarmDelete(c, s)
            <6>1. req'[c] = [sid |-> s, step |-> "disarm:deleted"]
              BY <5>a, DeleteMoves DEF At
            <6>2. \A t \in Strategies : req'[c] # [sid |-> t, step |-> "arm:hash"]
              BY <6>1
            <6>3. QED
              BY <6>2 DEF At
          <5>1. CASE DisarmUnindex(c, s)
            <6>1. req'[c] = [sid |-> s, step |-> "disarm:unindexed"]
              BY <5>1, <2>0 DEF At
            <6>2. \A t \in Strategies : req'[c] # [sid |-> t, step |-> "arm:hash"]
              BY <6>1
            <6>3. QED
              BY <6>2 DEF At
          <5>2. CASE ArmDone(c, s) \/ DisarmDone(c, s) \/ Disarm(c, s)
            BY <5>2 DEF ArmDone, DisarmDone, Disarm, Answered, At, NoRequest
          <5>3. QED
            BY <2>5, <5>a, <5>1, <5>2 DEF At
        <4>2. QED
          BY <2>1, <4>1 DEF At
      <3>3. ~ArmIndex(c, s) /\ (index = {} => index' = {})
        BY <2>5 DEF ArmIndex, ArmDone, Disarm, DisarmDelete, DisarmUnindex, DisarmDone, At,
                    NoRequest
      <3>4. Quiet => Quiet'
        BY <1>1, <2>1, <2>2, <3>3, RetiredHere DEF MovesHere
      <3>5. QED
        BY <1>0, <3>1, <3>2, <3>4 DEF FirstArm
    <2>6. QED
      BY <1>1, <2>3, <2>4, <2>5 DEF Request
  <1>2. ASSUME ~ \E c \in Calls, s \in Strategies : Request(c, s)
        PROVE  FirstArm'
    <2>1. used'.arms = used.arms
      BY <1>2, ArmsKept
    <2>a. ASSUME NEW d \in Calls, NEW s \in Strategies, NEW step \in RequestSteps \ {"none"}
          PROVE  At(d, s, step)' => At(d, s, step)
      <3>1. CASE UNCHANGED req
        BY <3>1 DEF At
      <3>2. CASE Restarts
        BY <3>2 DEF Restarts, At, NoRequest
      <3>3. QED
        BY <1>2, <3>1, <3>2, StepShape, DropLeaves
        DEF Onward, LetGo, Stops, Starts, Unlists, LooksAt, Writes
    <2>2. UNCHANGED <<reply, last>>
      BY <1>2, StepShape DEF Onward, LetGo, Stops, Restarts, Starts, Unlists, LooksAt, Writes,
                             Drops
    <2>3. (Before' => Before) /\ (Only => Only')
      BY <2>1, <2>a DEF RequestSteps
    <2>4. \A s \in Strategies : Deleted(s)' \/ Unlisted(s)' => Deleted(s) \/ Unlisted(s)
      BY <2>a, <2>2 DEF Deleted, Unlisted, RequestSteps
    <2>5. Quiet => Quiet'
      <3>1. Quiet => /\ index' = {} /\ mon'.queue = {} /\ mon'.pc \in {"sleep", "next"}
                     /\ StatesKept
        BY <1>2, StepShape DEF Onward, LetGo, Stops, Restarts, Starts, Unlists, LooksAt, Writes,
                               Drops, Path, StatesKept
      <3>2. QED
        BY <2>4, <3>1 DEF StatesKept
    <2>6. QED
      BY <1>0, <2>3, <2>5 DEF FirstArm
  <1>3. QED
    BY <1>1, <1>2

\* Nor does one arm request in all, however many disarm requests overlap it: what the
\* monitor closes has been put into the index by the one request there is.
THEOREM DisarmedOnceArmed ==
  ASSUME MaxFaults = 0, MaxArms <= 1
  PROVE  Spec => DisarmedIsNotTakenUp
  <1>1. Init => ArmedOnce /\ FirstArm
    BY DEF Init, ArmedOnce, FirstArm, Deleted, Unlisted, At, NoRequest, NoHash, Asleep
  <1>2. TypeOK /\ FirstArm /\ Idles => NoTickFailsInTheGap /\ NoLateListing
    BY DEF TypeOK, FirstArm, Idles, NoTickFailsInTheGap, TickFails, NoLateListing, ArmIndex,
           Unlisted
  <1>3. Init => Idles
    BY DEF Init, Idles, Asleep
  <1>4. TypeOK /\ Idles /\ [Next]_vars => Idles'
    BY IdleStep
  <1>5. QED
    BY <1>1, <1>2, <1>3, <1>4, ArmedOnceStep, FirstArmStep, InitType, NextType,
       DisarmedButForTheGaps, PTL DEF Spec

-----------------------------------------------------------------------------
(* A close that ends CLOSED leaves its legs flat *)

\* An order of the size of n reduces p to zero: it is on the same side and no
\* smaller.
Covers(n, p) == (p >= 0 /\ n >= p) \/ (p <= 0 /\ n <= p)

\* What the program copied of the positions, at whatever time.
CopiesCover ==
    \A x \in Symbols :
        /\ snap[x] # NoRow => Covers(snap[x].size, position[x])
        /\ sync.rows[x] # NoRow => Covers(sync.rows[x].size, position[x])

OrdersCover ==
    \A x \in Symbols :
        /\ mon.orders[x].size # 0 => Covers(mon.orders[x].size, position[x])
        /\ mon.orders[x].ok => position[x] = 0

AllAnswered == mon.pc = "finish" /\ ~mon.raised => Pending = {}

\* While nobody else trades, positions only shrink, so that an old copy covers them.
Flattening == trades = 0 => CopiesCover /\ OrdersCover /\ AllAnswered

LEMMA CoversItself ==
  ASSUME NEW p \in Int
  PROVE  Covers(p, p) /\ \A n \in Int : Covers(n, 0)
  BY DEF Covers

LEMMA FillsInFull ==
  ASSUME ~PartialFills, NEW p \in Int, NEW n \in Int, n # 0, Covers(n, p),
         NEW q \in Executed(p, n)
  PROVE  q = 0
  <1>1. q \in Int
    BY DEF Executed, Sizes
  <1>2. CASE p = 0
    BY <1>1, <1>2 DEF Executed
  <1>3. CASE p > 0
    <2>1. n >= p
      BY <1>3 DEF Covers
    <2>2. n * p > 0
      BY <1>3, <2>1
    <2>3. QED
      BY <1>1, <1>3, <2>1, <2>2 DEF Executed
  <1>4. CASE p < 0
    <2>1. n <= p
      BY <1>4 DEF Covers
    <2>2. n * p > 0
      BY <1>4, <2>1
    <2>3. QED
      BY <1>1, <1>4, <2>1, <2>2 DEF Executed
  <1>5. QED
    BY <1>2, <1>3, <1>4

\* The sizes and positions are integers.
LEMMA SizesAreInt ==
  ASSUME TypeOK, NEW x \in Symbols
  PROVE  /\ position[x] \in Int /\ mon.orders[x] \in Order /\ mon.orders[x].size \in Int
         /\ snap[x] # NoRow => snap[x] \in Rows /\ snap[x].size \in Int
         /\ sync.rows[x] # NoRow => sync.rows[x] \in Rows /\ sync.rows[x].size \in Int
  <1>1. \A r \in Rows : r.size \in Int
    BY DEF Rows, Sizes
  <1>2. QED
    BY <1>1 DEF TypeOK, AccountTypeOK, Monitor, Order, Sizes

LEMMA FlatteningAccount ==
  ASSUME TypeOK, Flattening, AccountNext, UNCHANGED slVars
  PROVE  Flattening'
  <1> USE DEF Flattening
  <1>1. UNCHANGED mon
    BY DEF slVars
  <1>2. ASSUME NEW x \in Symbols, NEW n \in Sizes, Trade(x, n)
        PROVE  Flattening'
    BY <1>2 DEF Trade, TypeOK, AccountTypeOK
  <1>3. CASE ~ \E x \in Symbols, n \in Sizes : Trade(x, n)
    <2>1. UNCHANGED <<position, trades>>
      BY <1>3 DEF AccountNext, PriceMoves, SyncFetch, SyncWrite, SyncDone, SyncFails, Expire
    <2>2. (OrdersCover => OrdersCover') /\ (AllAnswered => AllAnswered')
      BY <1>1, <2>1 DEF OrdersCover, AllAnswered, Pending, Ordered
    <2>3. ASSUME CopiesCover PROVE CopiesCover'
      <3>1. ASSUME NEW y \in Symbols
            PROVE  /\ snap'[y] # NoRow => Covers(snap'[y].size, position[y])
                   /\ sync'.rows[y] # NoRow => Covers(sync'.rows[y].size, position[y])
        <4>0. /\ snap[y] # NoRow => Covers(snap[y].size, position[y])
              /\ sync.rows[y] # NoRow => Covers(sync.rows[y].size, position[y])
          BY <2>3 DEF CopiesCover
        <4>1. CASE SyncFetch
          <5>1. UNCHANGED snap
            BY <4>1 DEF SyncFetch
          <5>2. sync'.rows[y] # NoRow => sync'.rows[y].size = position[y]
            BY <4>1 DEF SyncFetch
          <5>3. QED
            BY <4>0, <5>1, <5>2, CoversItself, SizesAreInt
        <4>2. ASSUME NEW x \in Symbols, SyncWrite(x)
              PROVE  /\ snap'[y] # NoRow => Covers(snap'[y].size, position[y])
                     /\ sync'.rows[y] # NoRow => Covers(sync'.rows[y].size, position[y])
          <5>1. sync'.rows = sync.rows
            BY <4>2 DEF SyncWrite, TypeOK, AccountTypeOK
          <5>2. CASE y # x
            BY <4>0, <4>2, <5>1, <5>2 DEF SyncWrite, TypeOK, AccountTypeOK
          <5>3. CASE y = x
            <6>1. snap'[y] = Merged(snap[y], sync.rows[y]) /\ sync.rows[y] \in Rows
              BY <4>2, <5>3 DEF SyncWrite, TypeOK, AccountTypeOK, Listed
            <6>2. snap'[y].size = sync.rows[y].size
              BY <6>1 DEF Merged, Rows
            <6>3. QED
              BY <4>0, <5>1, <6>1, <6>2
          <5>4. QED
            BY <5>2, <5>3
        <4>3. CASE SyncDone \/ SyncFails
          BY <4>0, <4>3 DEF SyncDone, SyncFails, SyncIdle
        <4>4. ASSUME NEW x \in Symbols, Expire(x)
              PROVE  /\ snap'[y] # NoRow => Covers(snap'[y].size, position[y])
                     /\ sync'.rows[y] # NoRow => Covers(sync'.rows[y].size, position[y])
          BY <4>0, <4>4 DEF Expire, TypeOK, AccountTypeOK
        <4>5. ASSUME NEW x \in Symbols, NEW m \in Marks \cup {NoMark}, PriceMoves(x, m)
              PROVE  /\ snap'[y] # NoRow => Covers(snap'[y].size, position[y])
                     /\ sync'.rows[y] # NoRow => Covers(sync'.rows[y].size, position[y])
          BY <4>0, <4>5 DEF PriceMoves
        <4>6. QED
          BY <1>3, <4>1, <4>2, <4>3, <4>4, <4>5 DEF AccountNext
      <3>2. QED
        BY <2>1, <3>1 DEF CopiesCover
    <2>4. QED
      BY <2>1, <2>2, <2>3
  <1>4. QED
    BY <1>2, <1>3

\* A step that leaves the account alone and makes no order.
LEMMA FlatteningIdle ==
  ASSUME TypeOK, Flattening, UNCHANGED <<position, trades, snap>>,
         \A x \in Symbols :
            /\ sync'.rows[x] \in {sync.rows[x], NoRow}
            /\ mon'.orders[x].size \in {0, mon.orders[x].size}
            /\ mon'.orders[x].ok => mon.orders[x].ok,
         mon'.pc = "finish" /\ ~mon'.raised => Pending' = {}
  PROVE  Flattening'
  BY DEF Flattening, CopiesCover, OrdersCover, AllAnswered

LEMMA FlatteningAttempt ==
  ASSUME TypeOK, Flattening, ~PartialFills, NEW x \in Symbols, Attempt(x)
  PROVE  Flattening'
  <1> DEFINE p == position[x]
             o == mon.orders[x]
  <1> SUFFICES ASSUME trades = 0 PROVE Flattening'
    BY DEF Attempt, Flattening
  <1>0. p \in Int /\ o \in Order /\ o.size \in Int
    BY SizesAreInt
  <1>1. o.size # 0 /\ ~o.ok /\ Covers(o.size, p)
    BY DEF Attempt, Pending, Ordered, Flattening, OrdersCover
  <1>2. \A q \in Executed(p, o.size) : q = 0
    BY <1>0, <1>1, FillsInFull
  <1>3. \A y \in Symbols : position'[y] \in {0, position[y]}
    BY <1>2 DEF Attempt, TypeOK, AccountTypeOK
  <1>4. /\ \A y \in Symbols : /\ mon'.orders[y].size = mon.orders[y].size
                              /\ mon'.orders[y].ok => mon.orders[y].ok \/ y = x
        /\ mon'.orders[x].ok => position'[x] = 0
        /\ mon'.pc = "place"
    <2>1. /\ Accepted(o).size = o.size /\ Raised(o).size = o.size /\ ~Raised(o).ok
      BY <1>0, <1>1 DEF Accepted, Raised, Order
    <2>2. CASE /\ \E q \in Executed(p, o.size) : position' = [position EXCEPT ![x] = q]
               /\ mon' = [mon EXCEPT !.orders[x] = Accepted(@)]
      <3>1. position'[x] = 0
        BY <1>2, <2>2 DEF TypeOK, AccountTypeOK
      <3>2. QED
        BY <2>1, <2>2, <3>1 DEF TypeOK, Monitor, Attempt
    <2>3. CASE mon' = [mon EXCEPT !.orders[x] = Raised(@)]
      BY <2>1, <2>3 DEF TypeOK, Monitor, Attempt
    <2>4. QED
      BY <2>2, <2>3 DEF Attempt
  <1>5. UNCHANGED <<snap, sync>>
    BY DEF Attempt
  <1>6. ASSUME NEW y \in Symbols
        PROVE  /\ snap'[y] # NoRow => Covers(snap'[y].size, position'[y])
               /\ sync'.rows[y] # NoRow => Covers(sync'.rows[y].size, position'[y])
    BY <1>3, <1>5, SizesAreInt, CoversItself DEF Flattening, CopiesCover
  <1>7. ASSUME NEW y \in Symbols
        PROVE  /\ mon'.orders[y].size # 0 => Covers(mon'.orders[y].size, position'[y])
               /\ mon'.orders[y].ok => position'[y] = 0
    BY <1>3, <1>4, SizesAreInt, CoversItself DEF Flattening, OrdersCover
  <1>8. QED
    BY <1>4, <1>6, <1>7 DEF Flattening, CopiesCover, OrdersCover, AllAnswered

LEMMA FlatteningMonitor ==
  ASSUME TypeOK, Flattening, ~PartialFills, MonitorStep
  PROVE  Flattening'
  <1>0. \A x \in Symbols : /\ Asleep.orders[x] = NoOrder /\ LoopTop.orders[x] = NoOrder
    BY DEF Asleep, LoopTop
  <1>a. NoOrder.size = 0 /\ NoOrder.ok = FALSE
    BY DEF NoOrder
  <1>1. CASE TickStart \/ TickEnd \/ RecordEvent
    <2>1. /\ mon'.pc \in {"sleep", "next"}
          /\ \A x \in Symbols : mon'.orders[x] = NoOrder
      <3>1. CASE TickStart
        BY <1>0, <3>1 DEF TickStart, Asleep
      <3>a. CASE TickEnd
        BY <1>0, <3>a DEF TickEnd, Asleep
      <3>2. CASE RecordEvent
        BY <1>0, <3>2 DEF RecordEvent, LoopTop, Asleep
      <3>3. QED
        BY <1>1, <3>1, <3>a, <3>2
    <2>2. UNCHANGED <<position, trades, snap, sync>>
      BY <1>1 DEF TickStart, TickEnd, RecordEvent, accountVars
    <2>3. QED
      BY <1>a, <2>1, <2>2, FlatteningIdle
  <1>2. ASSUME NEW s \in Strategies, NextStrategy(s)
        PROVE  Flattening'
    <2>1. /\ mon'.pc \in {"next", "legs", "closing"}
          /\ \A x \in Symbols : mon'.orders[x] = NoOrder
      BY <1>0, <1>2 DEF NextStrategy, LoopTop, Asleep, Dispatch
    <2>2. UNCHANGED <<position, trades, snap, sync>>
      BY <1>2 DEF NextStrategy, accountVars
    <2>3. QED
      BY <1>a, <2>1, <2>2, FlatteningIdle
  <1>3. CASE \/ \E x \in Symbols : AggregateLeg(x)
             \/ AggregateDone \/ MarkClosing \/ Announce \/ LoadDone \/ Deindex
    <2>1. /\ mon'.orders = mon.orders
          /\ mon'.pc = "finish" => mon'.raised
      <3>1. CASE \E x \in Symbols : AggregateLeg(x)
        BY <3>1 DEF AggregateLeg, TypeOK, Monitor
      <3>2. CASE AggregateDone \/ MarkClosing \/ LoadDone \/ Deindex
        BY <3>2 DEF AggregateDone, MarkClosing, LoadDone, Deindex, TypeOK, Monitor
      <3>3. CASE Announce
        BY <3>3 DEF Announce, TypeOK, Monitor
      <3>4. QED
        BY <1>3, <3>1, <3>2, <3>3
    <2>2. UNCHANGED <<position, trades, snap, sync>>
      BY <1>3 DEF AggregateLeg, AggregateDone, MarkClosing, Announce, LoadDone, Deindex,
                  accountVars
    <2>3. QED
      BY <2>1, <2>2, FlatteningIdle
  <1>4. CASE CountBreach
    <2>1. /\ mon'.pc \in {"next", "closing"}
          /\ \A x \in Symbols : mon'.orders[x] \in {NoOrder, mon.orders[x]}
      <3>1. CASE CountAfter(mon.agg, mon.st) >= Debounce
        BY <1>4, <3>1 DEF CountBreach, TypeOK, Monitor
      <3>2. CASE ~(CountAfter(mon.agg, mon.st) >= Debounce)
        <4>1. mon' = LoopTop
          BY <1>4, <3>2 DEF CountBreach
        <4>2. QED
          BY <1>0, <4>1 DEF LoopTop, Asleep
      <3>3. QED
        BY <3>1, <3>2
    <2>2. UNCHANGED <<position, trades, snap, sync>>
      BY <1>4 DEF CountBreach, accountVars
    <2>3. QED
      BY <1>a, <2>1, <2>2, FlatteningIdle
  <1>5. ASSUME NEW x \in Symbols, LoadLeg(x)
        PROVE  Flattening'
    <2>1. /\ \A y \in Symbols \ {x} : mon'.orders[y] = mon.orders[y]
          /\ mon'.orders[x].size = ClosingSize(snap[x]) /\ mon'.orders[x].ok = mon.orders[x].ok
          /\ mon'.pc = "load"
      BY <1>5 DEF LoadLeg, TypeOK, Monitor, Order
    <2>2. UNCHANGED <<position, trades, snap, sync>>
      BY <1>5 DEF LoadLeg, accountVars
    <2>3. QED
      BY <2>1, <2>2 DEF Flattening, CopiesCover, OrdersCover, AllAnswered, ClosingSize
  <1>6. ASSUME NEW x \in Symbols, Attempt(x)
        PROVE  Flattening'
    BY <1>6, FlatteningAttempt
  <1>7. CASE PlaceDone
    <2>1. mon'.orders = mon.orders /\ Pending' = {}
      BY <1>7 DEF PlaceDone, TypeOK, Monitor, Pending, Ordered
    <2>2. UNCHANGED <<position, trades, snap, sync>>
      BY <1>7 DEF PlaceDone, accountVars
    <2>3. QED
      BY <2>1, <2>2, FlatteningIdle
  <1>8. CASE Finish
    <2>1. mon'.orders = mon.orders /\ mon'.pc = "deindex"
      BY <1>8 DEF Finish, TypeOK, Monitor
    <2>2. UNCHANGED <<position, trades, snap, sync>>
      BY <1>8 DEF Finish, accountVars
    <2>3. QED
      BY <2>1, <2>2, FlatteningIdle
  <1>9. QED
    BY <1>1, <1>2, <1>3, <1>4, <1>5, <1>6, <1>7, <1>8 DEF MonitorStep

LEMMA FlatteningStep ==
  ASSUME TypeOK, Flattening, ~PartialFills, [Next]_vars
  PROVE  Flattening'
  <1>1. CASE AccountNext /\ UNCHANGED slVars
    BY <1>1, FlatteningAccount
  <1>2. CASE \E c \in Calls : RequestFails(c) \/ \E s \in Strategies : Request(c, s)
    <2>1. UNCHANGED <<mon, accountVars>>
      BY <1>2 DEF Request, Arm, ArmIndex, ArmDone, Disarm, DisarmDelete, DisarmUnindex,
                  DisarmDone, RequestFails
    <2>2. QED
      BY <2>1 DEF accountVars, Flattening, CopiesCover, OrdersCover, AllAnswered, Pending,
                  Ordered
  <1>3. CASE MonitorStep
    BY <1>3, FlatteningMonitor
  <1>4. CASE CloseRaises
    BY <1>4, FlatteningIdle DEF CloseRaises, TypeOK, Monitor, NoOrder, accountVars
  <1>5. ASSUME NEW x \in Symbols, RateLimited(x)
        PROVE  Flattening'
    <2>1. /\ mon'.pc = "place"
          /\ \A y \in Symbols : /\ mon'.orders[y].size = mon.orders[y].size
                                /\ mon'.orders[y].ok = mon.orders[y].ok
      BY <1>5 DEF RateLimited, TypeOK, Monitor, Order
    <2>2. UNCHANGED <<position, trades, snap, sync>>
      BY <1>5 DEF RateLimited, accountVars
    <2>3. QED
      BY <2>1, <2>2, FlatteningIdle
  <1>6. CASE TickFails \/ \E new \in Settings : Restart(new)
    <2>1. /\ mon'.pc = "sleep"
          /\ \A x \in Symbols : mon'.orders[x].size = 0 /\ mon'.orders[x].ok = FALSE
      BY <1>6 DEF TickFails, Restart, Asleep, NoOrder
    <2>2. UNCHANGED <<position, trades, snap>>
      BY <1>6 DEF TickFails, Restart, accountVars
    <2>3. \A x \in Symbols : sync'.rows[x] \in {sync.rows[x], NoRow}
      BY <1>6 DEF TickFails, Restart, SyncIdle, accountVars
    <2>4. QED
      BY <2>1, <2>2, <2>3, FlatteningIdle
  <1>7. CASE UNCHANGED vars
    BY <1>7 DEF vars, slVars, accountVars, Flattening, CopiesCover, OrdersCover, AllAnswered,
                Pending, Ordered
  <1>8. QED
    BY <1>1, <1>2, <1>3, <1>4, <1>5, <1>6, <1>7 DEF Next

\* On an exchange that fills in full, and until somebody else trades on the account,
\* a close that ends CLOSED has left every leg it had an order for flat, however
\* stale the copies it was built from and whatever attempts were repeated after an
\* answer was lost (build_close_payload, _place_with_retry, close_strategy).
THEOREM FlatIfAlone ==
  ASSUME ~PartialFills
  PROVE  Spec => [](trades = 0 => ClosedLegsAreFlat)
  <1>1. Init => Flattening
    <2> SUFFICES ASSUME Init PROVE Flattening
      OBVIOUS
    <2>1. /\ \A x \in Symbols : snap[x] = NoRow /\ sync.rows[x] = NoRow
      BY DEF Init, AccountInit, SyncIdle
    <2>2. mon.pc = "sleep" /\ \A x \in Symbols : mon.orders[x].size = 0 /\ mon.orders[x].ok = FALSE
      BY DEF Init, Asleep, NoOrder
    <2>3. QED
      BY <2>1, <2>2 DEF Flattening, CopiesCover, OrdersCover, AllAnswered
  <1>2. TypeOK /\ Flattening => (trades = 0 => ClosedLegsAreFlat)
    <2> SUFFICES ASSUME TypeOK, Flattening, trades = 0, mon.pc = "finish",
                        Verdict = "CLOSED", NEW x \in Ordered
                 PROVE  position[x] = 0
      BY DEF ClosedLegsAreFlat
    <2>1. Pending = {} /\ Errored = {}
      BY DEF Verdict, AllClosed, Flattening, AllAnswered
    <2>2. mon.orders[x].tries \in 0 .. 2 * HttpAttempts
      BY SizesAreInt DEF Ordered, Order
    <2>3. mon.orders[x].ok
      BY <2>1, <2>2 DEF Pending, Errored
    <2>4. QED
      BY <2>3 DEF Flattening, OrdersCover, Ordered
  <1>3. QED
    BY <1>1, <1>2, FlatteningStep, InitType, NextType, PTL DEF Spec

\* The case the runs check: nobody else trades at all.
THEOREM FlatWithoutTrades ==
  ASSUME ~PartialFills, MaxTrades = 0
  PROVE  Spec => []ClosedLegsAreFlat
  <1>1. TypeOK => trades = 0
    BY DEF TypeOK, AccountTypeOK
  <1>2. QED
    BY <1>1, FlatIfAlone, InitType, NextType, PTL DEF Spec

=============================================================================
