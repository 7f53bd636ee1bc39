------------------------------ MODULE PaperMtm ------------------------------
(***************************************************************************)
(* The mark-to-market worker of the paper book (paper/mtm_worker.py): one  *)
(* task that samples its copy of the open positions every second and, in   *)
(* every fifth round, reads the copy again and saves the minutes that are  *)
(* over.  The book it reads is that of module PaperBook; here a close is   *)
(* its commit, and one leg stands for the legs of a position, which are    *)
(* read by one statement.  Money is counted in lots: what a lot earns is   *)
(* the same wherever it is counted.                                        *)
(***************************************************************************)
EXTENDS Integers, FiniteSets, Functions

CONSTANTS
  Positions,
  LotsOf,           \* the lots a position is opened with
  NoEntry,
  MaxMinute,        \* bound on the clock
  MaxSamples,       \* bound on the samples of a minute
  MaxWorkerFaults   \* bound on exceptions and restarts

ASSUME MtmBounds ==
  /\ LotsOf \in [Positions -> Nat \ {0}]
  /\ {MaxMinute, MaxSamples, MaxWorkerFaults} \subseteq Nat

VARIABLES
  openLots,   \* PaperLeg.qty_open
  settled,    \* the lots whose result is in PaperPosition.realized_pnl
  minute,     \* the minute it is
  stage,      \* where the worker is
  round,      \* what is left of the round: the positions to visit
  copied,     \* what _reload has read so far
  cache,      \* _cache
  tickMinute, \* the minute of "now" in _tick
  buf,        \* _buf: the samples in each bar
  closedKeys, \* the bars _flush is saving
  published,  \* paper:mtm:<id>
  saved,      \* paper_mtm_minute: the samples in each row
  sampled,    \* observer: the samples of each minute, without what a restart lost
  workerFaults

bookVars == <<openLots, settled>>
mtmVars == <<bookVars, minute, stage, round, copied, cache, tickMinute, buf,
             closedKeys, published, saved, sampled, workerFaults>>

BarKeys == Positions \X (0..MaxMinute)
EmptyDict == [k \in {} |-> 0]

MtmInit ==
  /\ openLots = LotsOf /\ settled = [p \in Positions |-> 0]
  /\ minute = 0
  /\ stage = "boot" /\ round = {} /\ tickMinute = 0 /\ closedKeys = {}
  /\ copied = EmptyDict /\ cache = EmptyDict /\ buf = EmptyDict
  /\ published = [p \in Positions |-> NoEntry]
  /\ saved = EmptyDict /\ sampled = [k \in BarKeys |-> 0]
  /\ workerFaults = 0

-----------------------------------------------------------------------------
(* A close commits.  The sum it writes starts from the one it read, which  *)
(* an overlapping close may have changed (PaperDocs!RealizedIsSum).        *)
BookCloses(p, n) ==
  /\ n \in 1..openLots[p]
  /\ openLots' = [openLots EXCEPT ![p] = @ - n]
  /\ \E read \in {settled[p], 0} : settled' = [settled EXCEPT ![p] = read + n]
  /\ UNCHANGED <<minute, stage, round, copied, cache, tickMinute, buf, closedKeys,
                 published, saved, sampled, workerFaults>>

MinutePasses ==
  /\ minute < MaxMinute
  /\ minute' = minute + 1
  /\ UNCHANGED <<bookVars, stage, round, copied, cache, tickMinute, buf, closedKeys,
                 published, saved, sampled, workerFaults>>

-----------------------------------------------------------------------------
(* The first statement of _reload.  The status of a position says whether  *)
(* anything is open (PaperBook!StatusIsTrue).                              *)
ReadPositions ==
  /\ stage \in {"boot", "reload"}
  /\ stage' = IF stage = "boot" THEN "bootLegs" ELSE "legs"
  /\ round' = {p \in Positions : openLots[p] > 0}
  /\ copied' = [p \in round' |-> [settled |-> settled[p], open |-> openLots[p]]]
  /\ UNCHANGED <<bookVars, minute, cache, tickMinute, buf, closedKeys, published, saved,
                 sampled, workerFaults>>

\* Mutant of Entry: the legs come with the positions, the sum is read after.
EntryRefreshed(p) == [settled |-> settled[p], open |-> copied[p].open]

(* An entry of the cache: the sum as the first statement saw it, the legs  *)
(* as the second does.                                                     *)
Entry(p) == [settled |-> copied[p].settled, open |-> openLots[p]]

ReadLegs(p) ==
  /\ stage \in {"bootLegs", "legs"} /\ p \in round
  /\ round' = round \ {p}
  /\ copied' = [copied EXCEPT ![p] = Entry(p)]
  /\ UNCHANGED <<bookVars, minute, stage, cache, tickMinute, buf, closedKeys, published,
                 saved, sampled, workerFaults>>

Reloaded ==
  /\ stage \in {"bootLegs", "legs"} /\ round = {}
  /\ cache' = copied /\ copied' = EmptyDict
  /\ stage' = IF stage = "bootLegs" THEN "asleep" ELSE "flush"
  /\ UNCHANGED <<bookVars, minute, round, tickMinute, buf, closedKeys, published,
                 saved, sampled, workerFaults>>

-----------------------------------------------------------------------------
TickStart ==
  /\ stage = "asleep"
  /\ stage' = "tick" /\ round' = DOMAIN cache /\ tickMinute' = minute
  /\ UNCHANGED <<bookVars, minute, copied, cache, buf, closedKeys, published, saved,
                 sampled, workerFaults>>

(* _publish and _accumulate. *)
Accumulated(p) ==
  LET k == <<p, tickMinute>>
  IN  [b \in DOMAIN buf \cup {k} |->
         (IF b \in DOMAIN buf THEN buf[b] ELSE 0) + (IF b = k THEN 1 ELSE 0)]

Visit(p) ==
  /\ stage = "tick" /\ p \in round
  /\ sampled[<<p, tickMinute>>] < MaxSamples
  /\ round' = round \ {p}
  /\ published' = [published EXCEPT ![p] = cache[p]]
  /\ buf' = Accumulated(p)
  /\ sampled' = [sampled EXCEPT ![<<p, tickMinute>>] = @ + 1]
  /\ UNCHANGED <<bookVars, minute, stage, copied, cache, tickMinute, closedKeys, saved,
                 workerFaults>>

(* The fifth round goes on to _reload and _flush. *)
TickEnds ==
  /\ stage = "tick" /\ round = {}
  /\ stage' \in {"asleep", "reload"} /\ tickMinute' = 0
  /\ UNCHANGED <<bookVars, minute, round, copied, cache, buf, closedKeys, published,
                 saved, sampled, workerFaults>>

-----------------------------------------------------------------------------
\* Mutant of Peeked: the bars leave memory before they are in the table.
Popped(closed) == Restrict(buf, DOMAIN buf \ closed)

(* The bars stay in memory while they are being saved. *)
Peeked(closed) == buf

FlushStart ==
  /\ stage = "flush"
  /\ closedKeys' = {k \in DOMAIN buf : k[2] < minute}
  /\ stage' = IF closedKeys' = {} THEN "asleep" ELSE "write"
  /\ buf' = Peeked(closedKeys')
  /\ UNCHANGED <<bookVars, minute, round, copied, cache, tickMinute, published, saved,
                 sampled, workerFaults>>

(* The transaction commits. *)
Upsert ==
  /\ stage = "write"
  /\ stage' = "evict"
  /\ saved' = [k \in DOMAIN saved \cup (closedKeys \cap DOMAIN buf) |->
                 IF k \in closedKeys \cap DOMAIN buf THEN buf[k] ELSE saved[k]]
  /\ UNCHANGED <<bookVars, minute, round, copied, cache, tickMinute, buf, closedKeys,
                 published, sampled, workerFaults>>

Evict ==
  /\ stage = "evict"
  /\ stage' = "asleep"
  /\ buf' = Restrict(buf, DOMAIN buf \ closedKeys)
  /\ closedKeys' = {}
  /\ UNCHANGED <<bookVars, minute, round, copied, cache, tickMinute, published, saved,
                 sampled, workerFaults>>

-----------------------------------------------------------------------------
(* An exception anywhere ends the tick, between the two writes of _publish *)
(* too, or the reload with the flush; the first reload is not guarded, and *)
(* ends the task.                                                          *)
Raises ==
  /\ stage \notin {"asleep", "dead"} /\ workerFaults < MaxWorkerFaults
  /\ workerFaults' = workerFaults + 1
  /\ \/ /\ stage = "tick" /\ stage' \in {"asleep", "reload"}
        /\ published' \in {published} \cup
                           {[published EXCEPT ![p] = cache[p]] : p \in round}
     \/ stage \in {"boot", "bootLegs"} /\ stage' = "dead" /\ UNCHANGED published
     \/ /\ stage \in {"reload", "legs", "flush", "write", "evict"} /\ stage' = "asleep"
        /\ UNCHANGED published
  /\ round' = {} /\ copied' = EmptyDict /\ tickMinute' = 0 /\ closedKeys' = {}
  /\ UNCHANGED <<bookVars, minute, cache, buf, saved, sampled>>

(* The process restarts; nothing is saved on the way down. *)
WorkerRestarts ==
  /\ workerFaults < MaxWorkerFaults
  /\ workerFaults' = workerFaults + 1
  /\ stage' = "boot" /\ round' = {} /\ tickMinute' = 0 /\ closedKeys' = {}
  /\ copied' = EmptyDict /\ cache' = EmptyDict /\ buf' = EmptyDict
  /\ sampled' = [k \in BarKeys |-> IF k \in DOMAIN buf THEN 0 ELSE sampled[k]]
  /\ UNCHANGED <<bookVars, minute, published, saved>>

MtmNext ==
  \/ \E p \in Positions :
       ReadLegs(p) \/ Visit(p) \/ \E n \in 1..LotsOf[p] : BookCloses(p, n)
  \/ MinutePasses \/ ReadPositions \/ Reloaded \/ TickStart \/ TickEnds
  \/ FlushStart \/ Upsert \/ Evict \/ Raises \/ WorkerRestarts

MtmSpec == MtmInit /\ [][MtmNext]_mtmVars

-----------------------------------------------------------------------------
MtmTypeOK ==
  /\ openLots \in [Positions -> Nat] /\ settled \in [Positions -> Nat]
  /\ minute \in 0..MaxMinute /\ tickMinute \in 0..minute
  /\ stage \in {"boot", "bootLegs", "reload", "legs", "asleep", "tick",
               "flush", "write", "evict", "dead"}
  /\ round \subseteq Positions /\ closedKeys \subseteq BarKeys
  /\ DOMAIN copied \subseteq Positions /\ DOMAIN cache \subseteq Positions
  /\ DOMAIN buf \subseteq BarKeys /\ DOMAIN saved \subseteq BarKeys

(* A close between the two reads of a reload tears the copy, and what is   *)
(* published may lack the lots it closed; but no lot is ever counted       *)
(* twice, as a result and as still open.  mtm_worker.py:152-182, 212-250.  *)
SlicesCountedOnce ==
  \A p \in Positions :
    published[p] # NoEntry => published[p].settled + published[p].open <= LotsOf[p]

(* "a transient DB error never drops a minute of MTM history": whatever    *)
(* raises, before or after a commit, the samples of a minute are all in    *)
(* memory or all in its row.  mtm_worker.py:312-361.                       *)
HistoryKept ==
  \A k \in BarKeys : sampled[k] > 0 =>
    \/ k \in DOMAIN buf /\ buf[k] = sampled[k]
    \/ k \in DOMAIN saved /\ saved[k] = sampled[k]

=============================================================================
