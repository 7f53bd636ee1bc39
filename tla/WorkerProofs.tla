---------------------------- MODULE WorkerProofs ----------------------------
(***************************************************************************)
(* What the token bucket, the worker of the paper book and the price of a  *)
(* paper fill promise, for any callers, rates, positions, failures and     *)
(* restarts, and for any order book.                                       *)
(***************************************************************************)
EXTENDS TokenBucket, PaperMtm, Slippage, Induction, TLAPS

-----------------------------------------------------------------------------
(* The token bucket *)

Full == Capacity * Unit

BucketNumbers ==
  /\ steps \in Nat /\ tokens \in Int /\ updated \in Int /\ wakesAt \in Int
  /\ updated <= steps
  /\ granted \in Seq(Int)

(* There is never a debt, and who sleeps will find its token.              *)
Solvent ==
  /\ 0 <= tokens /\ tokens <= Full
  /\ sleeper # NoCaller => Unit <= tokens + (wakesAt - updated)

(* The calls let through since any of them, and what is left, were in the  *)
(* full bucket of then or have been added since.                           *)
Accounted ==
  \A i \in DOMAIN granted :
    (Len(granted) - i + 1) * Unit + tokens <= Full + (updated - granted[i])

BucketInv == BucketNumbers /\ Solvent /\ Accounted /\ RateHeld

LEMMA FullBucket == Unit \in Nat /\ Full \in Nat /\ Unit >= 1 /\ Unit <= Full
<1>1. Unit \in Nat /\ Capacity \in Nat /\ Unit >= 1 /\ Capacity >= 1
  BY BucketBounds
<1>2. \A c, u \in Nat : c >= 1 /\ u >= 1 => c * u \in Nat /\ u <= c * u
  OBVIOUS
<1> QED BY <1>1, <1>2 DEF Full

(* _refill adds no more than the time that passed, and no debt.            *)
LEMMA RefillBounded ==
  ASSUME BucketNumbers, 0 <= tokens, tokens <= Full
  PROVE  /\ Refilled \in Int /\ Refilled <= Full
         /\ Refilled <= tokens + (steps - updated)
         /\ Refilled = Full \/ Refilled = tokens + (steps - updated)
         /\ tokens <= Refilled
BY FullBucket DEF Refilled, Full, BucketNumbers

LEMMA OneMore == \A n \in Int, u \in Nat : (n + 1) * u = n * u + u
OBVIOUS

(* A token that is there is taken, and the call is one more.               *)
LEMMA GrantKeeps ==
  ASSUME BucketInv, Unit <= Refilled, tokens' = Refilled - Unit, updated' = steps,
         granted' = Append(granted, steps)
  PROVE  /\ tokens' \in Int /\ updated' \in Int /\ granted' \in Seq(Int)
         /\ 0 <= tokens' /\ tokens' <= Full
         /\ Accounted' /\ RateHeld'
<1> DEFINE n == Len(granted)
<1>0. BucketNumbers /\ 0 <= tokens /\ tokens <= Full /\ Accounted /\ RateHeld
  BY DEF BucketInv, Solvent
<1>1. /\ Unit \in Nat /\ Full \in Nat
      /\ Refilled \in Int /\ Refilled <= Full /\ Refilled <= tokens + (steps - updated)
  BY <1>0, RefillBounded, FullBucket
<1>2. /\ steps \in Int /\ tokens \in Int /\ updated \in Int /\ granted \in Seq(Int)
      /\ n \in Nat /\ DOMAIN granted = 1..n
  BY <1>0 DEF BucketNumbers
<1>3. /\ granted' \in Seq(Int) /\ Len(granted') = n + 1 /\ DOMAIN granted' = 1..(n + 1)
      /\ granted'[n + 1] = steps
      /\ \A i \in 1..n : granted'[i] = granted[i] /\ granted[i] \in Int
  BY <1>2
<1>4. \A i \in 1..n : (n + 1 - i + 1) * Unit + tokens' <= Full + (steps - granted[i])
  <2> SUFFICES ASSUME NEW i \in 1..n
               PROVE  (n + 1 - i + 1) * Unit + tokens' <= Full + (steps - granted[i])
    OBVIOUS
  <2> DEFINE calls == (n - i + 1) * Unit
  <2>1. (n + 1 - i + 1) * Unit = calls + Unit /\ calls \in Int
    <3>1. n - i + 1 \in Int /\ n + 1 - i + 1 = (n - i + 1) + 1
      BY <1>2
    <3> QED BY <3>1, <1>1, OneMore
  <2>2. calls + tokens <= Full + (updated - granted[i])
    BY <1>0, <1>2 DEF Accounted
  <2>3. granted[i] \in Int
    BY <1>3
  <2> HIDE DEF calls
  <2> QED BY <2>1, <2>2, <2>3, <1>1, <1>2
<1>5. (n + 1 - (n + 1) + 1) * Unit + tokens' <= Full + (steps - steps)
  <2>1. (n + 1 - (n + 1) + 1) * Unit = Unit
    <3>1. n + 1 - (n + 1) + 1 = 1
      BY <1>2
    <3> QED BY <3>1, <1>1
  <2> QED BY <2>1, <1>1, <1>2
<1>6. Accounted'
  <2> SUFFICES ASSUME NEW i \in DOMAIN granted'
               PROVE  (Len(granted') - i + 1) * Unit + tokens' <= Full + (updated' - granted'[i])
    BY DEF Accounted, Full
  <2>1. CASE i \in 1..n
    BY <2>1, <1>3, <1>4
  <2>2. CASE i = n + 1
    BY <2>2, <1>3, <1>5
  <2> QED BY <2>1, <2>2, <1>3, <1>2
<1>7. RateHeld'
  <2> SUFFICES ASSUME NEW i \in DOMAIN granted', NEW j \in DOMAIN granted', i <= j
               PROVE  (j - i + 1) * Unit <= Full + (granted'[j] - granted'[i])
    BY DEF RateHeld, Full
  <2>1. CASE j \in 1..n
    <3>1. i \in 1..n
      BY <2>1, <1>2, <1>3
    <3> QED BY <2>1, <3>1, <1>0, <1>2, <1>3 DEF RateHeld, Full
  <2>2. CASE j = n + 1
    <3>1. (n + 1 - i + 1) * Unit + tokens' <= Full + (steps - granted'[i])
      BY <1>3, <1>6 DEF Accounted, Full
    <3>2. n + 1 - i + 1 \in Int
      BY <1>2, <1>3
    <3>3. (n + 1 - i + 1) * Unit \in Int
      BY <3>2, <1>1
    <3>4. granted'[i] \in Int /\ 0 <= tokens' /\ tokens' \in Int
      BY <1>1, <1>3
    <3> DEFINE calls == (n + 1 - i + 1) * Unit
    <3> HIDE DEF calls
    <3>5. calls + tokens' <= Full + (steps - granted'[i]) /\ calls \in Int
      BY <3>1, <3>3 DEF calls
    <3>6. calls <= Full + (steps - granted'[i])
      BY <3>4, <3>5, <1>1, <1>2
    <3> QED BY <2>2, <3>6, <1>3 DEF calls
  <2> QED BY <2>1, <2>2, <1>3, <1>2
<1> QED BY <1>1, <1>2, <1>3, <1>6, <1>7

(* A refill keeps the account.                                             *)
LEMMA RefillKeeps ==
  ASSUME BucketInv, tokens' = Refilled, updated' = steps, granted' = granted
  PROVE  /\ tokens' \in Int /\ updated' \in Int /\ granted' \in Seq(Int)
         /\ 0 <= tokens' /\ tokens' <= Full
         /\ Accounted' /\ RateHeld'
<1>0. BucketNumbers /\ 0 <= tokens /\ tokens <= Full /\ Accounted /\ RateHeld
  BY DEF BucketInv, Solvent
<1>1. /\ Unit \in Nat /\ Full \in Nat
      /\ Refilled \in Int /\ Refilled <= Full /\ Refilled <= tokens + (steps - updated)
      /\ tokens <= Refilled
  BY <1>0, RefillBounded, FullBucket
<1>2. Accounted'
  <2> SUFFICES ASSUME NEW i \in DOMAIN granted
               PROVE  (Len(granted) - i + 1) * Unit + tokens' <= Full + (updated' - granted[i])
    BY DEF Accounted, Full
  <2> DEFINE calls == (Len(granted) - i + 1) * Unit
  <2>1. calls + tokens <= Full + (updated - granted[i])
    BY <1>0 DEF Accounted
  <2>2. Len(granted) - i + 1 \in Int /\ granted[i] \in Int
    BY <1>0 DEF BucketNumbers
  <2>3. calls \in Int
    BY <2>2, <1>1
  <2>4. steps \in Int /\ tokens \in Int /\ updated \in Int
    BY <1>0 DEF BucketNumbers
  <2> HIDE DEF calls
  <2>5. calls + tokens' <= Full + (updated' - granted[i])
    BY <2>1, <2>2, <2>3, <2>4, <1>1
  <2> QED BY <2>5 DEF calls
<1>3. RateHeld'
  BY <1>0 DEF RateHeld
<1> QED BY <1>0, <1>1, <1>2, <1>3 DEF BucketNumbers

LEMMA BucketInvariant == BucketSpec => []BucketInv
<1>1. BucketInit => BucketInv
  BY FullBucket DEF BucketInit, BucketInv, BucketNumbers, Solvent, Accounted, RateHeld, Full
<1>2. BucketInv /\ [BucketNext]_bucketVars => BucketInv'
  <2> SUFFICES ASSUME BucketInv, [BucketNext]_bucketVars PROVE BucketInv'
    OBVIOUS
  <2>0. /\ BucketNumbers /\ Solvent /\ Accounted /\ RateHeld
        /\ Unit \in Nat /\ Full \in Nat
    BY FullBucket DEF BucketInv
  <2>1. CASE tokens' = tokens /\ updated' = updated /\ granted' = granted
             /\ wakesAt' = wakesAt /\ steps' \in Nat /\ steps <= steps'
             /\ (sleeper' = sleeper \/ sleeper' = NoCaller)
    <3>1. BucketNumbers'
      BY <2>0, <2>1 DEF BucketNumbers
    <3>2. Solvent'
      BY <2>0, <2>1 DEF Solvent, Full
    <3>3. Accounted' /\ RateHeld'
      BY <2>0, <2>1 DEF Accounted, RateHeld, Full
    <3> QED BY <3>1, <3>2, <3>3 DEF BucketInv
  <2>2. CASE StepPasses
    <3>1. steps' = steps + 1 /\ steps \in Nat
      BY <2>0, <2>2 DEF StepPasses, BucketNumbers
    <3> QED BY <2>1, <2>2, <3>1 DEF StepPasses
  <2>3. CASE \E c \in Callers : Acquire(c) \/ Cancelled(c)
    <3>1. steps \in Nat
      BY <2>0 DEF BucketNumbers
    <3> QED BY <2>1, <2>3, <3>1 DEF Acquire, Cancelled
  <2>4. CASE Granted
    <3>1. Unit <= Refilled /\ sleeper = NoCaller
      BY <2>0, <2>4, RefillBounded DEF Granted, LockHandedOn, Solvent
    <3>2. /\ tokens' = Refilled - Unit /\ updated' = steps /\ granted' = Append(granted, steps)
          /\ UNCHANGED <<steps, sleeper, wakesAt>>
      BY <2>4 DEF Granted
    <3>3. /\ tokens' \in Int /\ updated' \in Int /\ granted' \in Seq(Int)
          /\ 0 <= tokens' /\ tokens' <= Full /\ Accounted' /\ RateHeld'
      BY <3>1, <3>2, GrantKeeps
    <3> QED BY <2>0, <3>1, <3>2, <3>3 DEF BucketInv, BucketNumbers, Solvent, Full
  <2>5. CASE Refused
    <3>1. /\ tokens' = Refilled /\ updated' = steps /\ granted' = granted
          /\ UNCHANGED <<steps, sleeper, wakesAt>> /\ sleeper = NoCaller
      BY <2>5 DEF Refused, LockHandedOn
    <3>2. /\ tokens' \in Int /\ updated' \in Int /\ granted' \in Seq(Int)
          /\ 0 <= tokens' /\ tokens' <= Full /\ Accounted' /\ RateHeld'
      BY <3>1, RefillKeeps
    <3> QED BY <2>0, <3>1, <3>2 DEF BucketInv, BucketNumbers, Solvent, Full
  <2>6. CASE Sleeps
    <3>1. /\ tokens' = Refilled /\ updated' = steps /\ granted' = granted
          /\ steps' = steps /\ wakesAt' = steps + (Unit - Refilled)
      BY <2>6 DEF Sleeps
    <3>2. /\ tokens' \in Int /\ updated' \in Int /\ granted' \in Seq(Int)
          /\ 0 <= tokens' /\ tokens' <= Full /\ Accounted' /\ RateHeld'
      BY <3>1, RefillKeeps
    <3>3. Refilled \in Int /\ steps \in Nat
      BY <3>1, <3>2, <2>0 DEF BucketNumbers
    <3>4. BucketNumbers' /\ Unit <= tokens' + (wakesAt' - updated')
      BY <2>0, <3>1, <3>2, <3>3 DEF BucketNumbers
    <3> QED BY <3>2, <3>4 DEF BucketInv, Solvent, Full
  <2>7. CASE Wakes
    <3>1. /\ tokens' = Refilled - Unit /\ updated' = steps /\ granted' = Append(granted, steps)
          /\ UNCHANGED <<steps, wakesAt>> /\ sleeper' = NoCaller
          /\ sleeper # NoCaller /\ wakesAt <= steps
      BY <2>0, <2>7 DEF Wakes, BucketNumbers
    <3>2. Unit <= Refilled
      <4>1. /\ Refilled = Full \/ Refilled = tokens + (steps - updated)
        BY <2>0, RefillBounded DEF Solvent
      <4>2. Unit <= tokens + (wakesAt - updated)
        BY <2>0, <3>1 DEF Solvent
      <4> QED BY <2>0, <3>1, <4>1, <4>2, FullBucket DEF BucketNumbers
    <3>3. /\ tokens' \in Int /\ updated' \in Int /\ granted' \in Seq(Int)
          /\ 0 <= tokens' /\ tokens' <= Full /\ Accounted' /\ RateHeld'
      BY <3>1, <3>2, GrantKeeps
    <3> QED BY <2>0, <3>1, <3>3 DEF BucketInv, BucketNumbers, Solvent, Full
  <2>8. CASE UNCHANGED bucketVars
    BY <2>0, <2>1, <2>8 DEF bucketVars, BucketNumbers
  <2> QED BY <2>2, <2>3, <2>4, <2>5, <2>6, <2>7, <2>8 DEF BucketNext
<1> QED BY <1>1, <1>2, PTL DEF BucketSpec

(* Every way through acquire keeps what the bucket has let through within  *)
(* what it held and what the rate has added (auth_gate.py:68-83).          *)
THEOREM RateIsHeld == BucketSpec => []RateHeld
<1>1. BucketInv => RateHeld
  BY DEF BucketInv
<1> QED BY <1>1, BucketInvariant, PTL

(* Only callers wait, and nothing is dated ahead of the clock.             *)
Waiting ==
  /\ steps \in 0..MaxSteps /\ updated \in 0..steps
  /\ sleeper \in Callers \cup {NoCaller} /\ wakesAt \in Nat
  /\ lockQueue \in Seq(Callers) /\ granted \in Seq(0..MaxSteps)

(* The bucket is never in debt and never over its capacity, and only       *)
(* callers hold or await its lock (auth_gate.py:61-83).                    *)
THEOREM BucketTypeCorrect == BucketSpec => []BucketTypeOK
<1>1. BucketInit => Waiting
  BY BucketBounds DEF BucketInit, Waiting
<1>2. BucketInv /\ Waiting /\ [BucketNext]_bucketVars => Waiting'
  <2> SUFFICES ASSUME BucketInv, Waiting, [BucketNext]_bucketVars PROVE Waiting'
    OBVIOUS
  <2> USE DEF Waiting
  <2>0. steps \in Nat /\ MaxSteps \in Nat /\ steps \in 0..steps
    BY BucketBounds
  <2>1. CASE StepPasses
    <3>1. steps + 1 \in 0..MaxSteps /\ updated \in 0..(steps + 1)
      BY <2>0, <2>1 DEF StepPasses
    <3> QED BY <2>1, <3>1 DEF StepPasses
  <2>2. ASSUME NEW c \in Callers, Acquire(c) PROVE Waiting'
    BY <2>2 DEF Acquire
  <2>3. ASSUME NEW c \in Callers, Cancelled(c) PROVE Waiting'
    <3>1. CASE sleeper' = NoCaller /\ UNCHANGED lockQueue
      BY <2>3, <3>1 DEF Cancelled
    <3>2. ASSUME NEW i \in DOMAIN lockQueue, UNCHANGED sleeper,
                 lockQueue' = [j \in 1..(Len(lockQueue) - 1) |->
                                 lockQueue[IF j < i THEN j ELSE j + 1]]
          PROVE  Waiting'
      <4>1. Len(lockQueue) - 1 \in Nat
        OBVIOUS
      <4>2. \A j \in 1..(Len(lockQueue) - 1) :
              lockQueue[IF j < i THEN j ELSE j + 1] \in Callers
        OBVIOUS
      <4>3. lockQueue' \in Seq(Callers)
        BY <3>2, <4>1, <4>2
      <4> QED BY <2>3, <3>2, <4>3 DEF Cancelled
    <3> QED BY <2>3, <3>1, <3>2 DEF Cancelled
  <2>4. LockHandedOn => Head(lockQueue) \in Callers /\ Tail(lockQueue) \in Seq(Callers)
    BY DEF LockHandedOn
  <2>5. Append(granted, steps) \in Seq(0..MaxSteps)
    OBVIOUS
  <2>6. CASE Granted
    BY <2>0, <2>4, <2>5, <2>6 DEF Granted
  <2>7. CASE Refused
    BY <2>0, <2>4, <2>7 DEF Refused
  <2>8. CASE Sleeps
    <3>1. steps + (Unit - Refilled) \in Nat
      <4>1. Refilled \in Int
        BY RefillBounded DEF BucketInv, Solvent
      <4> QED BY <2>0, <2>8, <4>1, FullBucket DEF Sleeps
    <3> QED BY <2>0, <2>4, <2>8, <3>1 DEF Sleeps
  <2>9. CASE Wakes
    BY <2>0, <2>5, <2>9 DEF Wakes
  <2>10. CASE UNCHANGED bucketVars
    BY <2>10 DEF bucketVars
  <2> QED BY <2>1, <2>2, <2>3, <2>6, <2>7, <2>8, <2>9, <2>10 DEF BucketNext
<1>3. BucketInv /\ Waiting => BucketTypeOK
  BY FullBucket DEF BucketInv, BucketNumbers, Solvent, Waiting, BucketTypeOK, Full
<1> QED BY <1>1, <1>2, <1>3, BucketInvariant, PTL DEF BucketSpec

-----------------------------------------------------------------------------
(* The worker of the paper book: lots *)

(* What an entry may say of a position: each lot once at most.             *)
SlicesOf(p) == {e \in [settled : Nat, open : Nat] : e.settled + e.open <= LotsOf[p]}

BookCounted ==
  /\ openLots \in [Positions -> Nat] /\ settled \in [Positions -> Nat]
  /\ \A p \in Positions : settled[p] + openLots[p] <= LotsOf[p]

(* Lots only close: a sum that was read goes with any later legs.          *)
CopyCounted ==
  /\ DOMAIN copied \subseteq Positions
  /\ \A p \in DOMAIN copied :
       /\ copied[p] \in SlicesOf(p)
       /\ copied[p].settled + openLots[p] <= LotsOf[p]

EntriesCounted ==
  /\ DOMAIN cache \subseteq Positions
  /\ \A p \in DOMAIN cache : cache[p] \in SlicesOf(p)
  /\ DOMAIN published = Positions
  /\ \A p \in Positions : published[p] # NoEntry => published[p] \in SlicesOf(p)

(* The round visits what was copied, or what is in the cache.              *)
RoundKnown ==
  /\ stage \in {"bootLegs", "legs"} => round \subseteq DOMAIN copied
  /\ stage = "tick" => round \subseteq DOMAIN cache

LotsInv == BookCounted /\ CopyCounted /\ EntriesCounted /\ RoundKnown

(* Whatever closes between the two reads of a reload, no lot is published  *)
(* as a result and as still open (mtm_worker.py:152-182, 212-250).         *)
THEOREM LotsCountedOnce == MtmSpec => []SlicesCountedOnce
<1>1. MtmInit => LotsInv
  BY MtmBounds DEF MtmInit, LotsInv, BookCounted, CopyCounted, EntriesCounted, RoundKnown,
                   EmptyDict
<1>2. LotsInv /\ [MtmNext]_mtmVars => LotsInv'
  <2> SUFFICES ASSUME LotsInv, [MtmNext]_mtmVars PROVE LotsInv'
    OBVIOUS
  <2>0. /\ BookCounted /\ CopyCounted /\ EntriesCounted /\ RoundKnown
        /\ LotsOf \in [Positions -> Nat \ {0}]
    BY MtmBounds DEF LotsInv
  <2>1. ASSUME NEW p \in Positions, NEW n \in 1..LotsOf[p], BookCloses(p, n)
        PROVE  LotsInv'
    <3>1. PICK read \in {settled[p], 0} : settled' = [settled EXCEPT ![p] = read + n]
      BY <2>1 DEF BookCloses
    <3>2. /\ n \in 1..openLots[p] /\ openLots' = [openLots EXCEPT ![p] = @ - n]
          /\ UNCHANGED <<stage, round, copied, cache, published>>
      BY <2>1 DEF BookCloses
    <3>3. BookCounted'
      BY <2>0, <3>1, <3>2 DEF BookCounted
    <3>4. \A q \in Positions : openLots'[q] \in Nat /\ openLots'[q] <= openLots[q]
      BY <2>0, <3>2 DEF BookCounted
    <3>5. CopyCounted'
      <4>1. \A q \in DOMAIN copied : copied[q].settled \in Nat /\ openLots[q] \in Nat
        BY <2>0 DEF CopyCounted, SlicesOf, BookCounted
      <4> QED BY <2>0, <3>2, <3>4, <4>1 DEF CopyCounted, SlicesOf
    <3> QED BY <2>0, <3>2, <3>3, <3>5 DEF LotsInv, EntriesCounted, RoundKnown, SlicesOf
  <2>2. ASSUME ReadPositions PROVE LotsInv'
    <3>1. /\ round' \subseteq Positions
          /\ copied' = [p \in round' |-> [settled |-> settled[p], open |-> openLots[p]]]
          /\ UNCHANGED <<openLots, settled, cache, published>>
          /\ stage' \in {"bootLegs", "legs"}
      BY <2>2 DEF ReadPositions, bookVars
    <3>2. CopyCounted'
      BY <2>0, <3>1 DEF CopyCounted, SlicesOf, BookCounted
    <3> QED BY <2>0, <3>1, <3>2 DEF LotsInv, BookCounted, EntriesCounted, RoundKnown, SlicesOf
  <2>3. ASSUME NEW p \in Positions, ReadLegs(p) PROVE LotsInv'
    <3>1. /\ p \in DOMAIN copied
          /\ copied' = [copied EXCEPT ![p] = [settled |-> copied[p].settled,
                                              open |-> openLots[p]]]
          /\ round' \subseteq round
          /\ UNCHANGED <<openLots, settled, stage, cache, published>>
          /\ stage \in {"bootLegs", "legs"}
      BY <2>0, <2>3 DEF ReadLegs, Entry, RoundKnown, bookVars
    <3>2. copied'[p] \in SlicesOf(p) /\ copied'[p].settled + openLots[p] <= LotsOf[p]
      BY <2>0, <3>1 DEF CopyCounted, SlicesOf, BookCounted
    <3>3. CopyCounted'
      BY <2>0, <3>1, <3>2 DEF CopyCounted, SlicesOf
    <3> QED BY <2>0, <3>1, <3>3 DEF LotsInv, BookCounted, EntriesCounted, RoundKnown, SlicesOf
  <2>4. ASSUME Reloaded PROVE LotsInv'
    <3>1. EntriesCounted'
      BY <2>0, <2>4 DEF Reloaded, CopyCounted, EntriesCounted, SlicesOf
    <3>2. BookCounted' /\ CopyCounted' /\ RoundKnown'
      BY <2>0, <2>4 DEF Reloaded, BookCounted, CopyCounted, RoundKnown, EmptyDict, bookVars
    <3> QED BY <3>1, <3>2 DEF LotsInv
  <2>5. ASSUME NEW p \in Positions, Visit(p) PROVE LotsInv'
    <3>1. /\ p \in DOMAIN cache /\ cache[p] \in SlicesOf(p)
          /\ published' = [published EXCEPT ![p] = cache[p]]
          /\ round' \subseteq round /\ stage = "tick"
          /\ UNCHANGED <<openLots, settled, stage, copied, cache>>
      BY <2>0, <2>5 DEF Visit, RoundKnown, EntriesCounted, bookVars
    <3>2. EntriesCounted'
      BY <2>0, <3>1 DEF EntriesCounted, SlicesOf
    <3> QED BY <2>0, <3>1, <3>2 DEF LotsInv, BookCounted, CopyCounted, RoundKnown, SlicesOf
  <2>6. ASSUME Raises PROVE LotsInv'
    <3>1. /\ round' = {} /\ copied' = EmptyDict
          /\ UNCHANGED <<openLots, settled, cache>>
          /\ \/ published' = published
             \/ /\ stage = "tick"
                /\ \E p \in round : published' = [published EXCEPT ![p] = cache[p]]
      BY <2>6 DEF Raises, bookVars
    <3>2. EntriesCounted'
      <4>1. CASE published' = published
        BY <2>0, <3>1, <4>1 DEF EntriesCounted, SlicesOf
      <4>2. ASSUME stage = "tick", NEW p \in round,
                   published' = [published EXCEPT ![p] = cache[p]]
            PROVE  EntriesCounted'
        <5>1. p \in DOMAIN cache /\ p \in Positions /\ cache[p] \in SlicesOf(p)
          BY <2>0, <4>2 DEF RoundKnown, EntriesCounted
        <5> QED BY <2>0, <3>1, <4>2, <5>1 DEF EntriesCounted, SlicesOf
      <4> QED BY <3>1, <4>1, <4>2
    <3> QED BY <2>0, <3>1, <3>2 DEF LotsInv, BookCounted, CopyCounted, RoundKnown, EmptyDict
  <2>7. ASSUME WorkerRestarts PROVE LotsInv'
    BY <2>0, <2>7 DEF WorkerRestarts, LotsInv, BookCounted, CopyCounted, EntriesCounted,
                      RoundKnown, EmptyDict, SlicesOf, bookVars
  <2>8. CASE TickStart
    BY <2>0, <2>8 DEF TickStart, LotsInv, BookCounted, CopyCounted, EntriesCounted,
                      RoundKnown, SlicesOf, bookVars
  <2>9. CASE MinutePasses \/ TickEnds \/ FlushStart \/ Upsert \/ Evict \/ UNCHANGED mtmVars
    <3>1. /\ UNCHANGED <<openLots, settled, copied, cache, published, round>>
          /\ \/ stage' = stage
             \/ stage' \notin {"bootLegs", "legs", "tick"}
      BY <2>9 DEF MinutePasses, TickEnds, FlushStart, Upsert, Evict, mtmVars, bookVars
    <3> QED BY <2>0, <3>1 DEF LotsInv, BookCounted, CopyCounted, EntriesCounted,
                              RoundKnown, SlicesOf
  <2> QED BY <2>1, <2>2, <2>3, <2>4, <2>5, <2>6, <2>7, <2>8, <2>9 DEF MtmNext
<1>3. LotsInv => SlicesCountedOnce
  BY DEF LotsInv, EntriesCounted, SlicesOf, SlicesCountedOnce
<1> QED BY <1>1, <1>2, <1>3, PTL DEF MtmSpec

-----------------------------------------------------------------------------
(* The worker of the paper book: minutes *)

MtmNumbers ==
  /\ minute \in Nat
  /\ tickMinute \in Nat /\ tickMinute <= MaxMinute
  /\ minute <= MaxMinute
  /\ sampled \in [BarKeys -> Nat]
  /\ DOMAIN buf \subseteq BarKeys /\ closedKeys \subseteq BarKeys
  /\ DOMAIN cache \subseteq Positions /\ DOMAIN copied \subseteq Positions

(* A bar that is in memory has every sample of its minute.                 *)
BarsComplete == \A k \in DOMAIN buf : buf[k] = sampled[k]

(* One that is no longer in memory is in its row, and no tick will touch   *)
(* it again.                                                               *)
GoneIsSaved ==
  \A k \in BarKeys : k \notin DOMAIN buf /\ sampled[k] > 0 =>
    /\ k \in DOMAIN saved /\ saved[k] = sampled[k]
    /\ k[2] < minute
    /\ stage = "tick" => k[2] < tickMinute

(* Only minutes that are over are saved, and saved before they are let go. *)
ClosedAreOver ==
  /\ stage \in {"write", "evict"} => \A k \in closedKeys : k[2] < minute
  /\ stage = "evict" =>
       \A k \in closedKeys \cap DOMAIN buf : k \in DOMAIN saved /\ saved[k] = buf[k]
  /\ stage = "tick" => tickMinute <= minute /\ round \subseteq Positions

HistoryInv == MtmNumbers /\ BarsComplete /\ GoneIsSaved /\ ClosedAreOver

(* Every variable of the worker keeps its type: no read of the book makes  *)
(* an entry of a position there is not, and no tick is ahead of the clock  *)
(* (mtm_worker.py:152-361).                                                *)
THEOREM MtmTypeCorrect == MtmSpec => []MtmTypeOK
<1>1. MtmInit => MtmTypeOK
  BY MtmBounds DEF MtmInit, MtmTypeOK, EmptyDict
<1>2. MtmTypeOK /\ [MtmNext]_mtmVars => MtmTypeOK'
  <2> SUFFICES ASSUME MtmTypeOK, [MtmNext]_mtmVars PROVE MtmTypeOK'
    OBVIOUS
  <2> USE DEF MtmTypeOK, bookVars
  <2>0. /\ MaxMinute \in Nat /\ LotsOf \in [Positions -> Nat \ {0}]
        /\ minute \in Nat /\ tickMinute \in Nat /\ 0 \in 0..minute /\ minute \in 0..minute
    BY MtmBounds
  <2>1. ASSUME NEW p \in Positions, NEW n \in 1..LotsOf[p], BookCloses(p, n)
        PROVE  MtmTypeOK'
    <3>1. PICK read \in {settled[p], 0} : settled' = [settled EXCEPT ![p] = read + n]
      BY <2>1 DEF BookCloses
    <3>2. read + n \in Nat /\ openLots[p] - n \in Nat
      BY <2>0, <2>1 DEF BookCloses
    <3>3. openLots' \in [Positions -> Nat] /\ settled' \in [Positions -> Nat]
      BY <2>1, <3>1, <3>2 DEF BookCloses
    <3> QED BY <2>1, <3>3 DEF BookCloses
  <2>2. CASE MinutePasses
    <3>1. minute + 1 \in 0..MaxMinute /\ tickMinute \in 0..(minute + 1)
      BY <2>0, <2>2 DEF MinutePasses
    <3> QED BY <2>2, <3>1 DEF MinutePasses
  <2>3. CASE ReadPositions
    BY <2>3 DEF ReadPositions
  <2>4. ASSUME NEW p \in Positions, ReadLegs(p) PROVE MtmTypeOK'
    BY <2>4 DEF ReadLegs
  <2>5. CASE Reloaded
    BY <2>5 DEF Reloaded, EmptyDict
  <2>6. CASE TickStart
    BY <2>0, <2>6 DEF TickStart
  <2>7. ASSUME NEW p \in Positions, Visit(p) PROVE MtmTypeOK'
    <3>1. <<p, tickMinute>> \in BarKeys
      BY <2>0 DEF BarKeys
    <3>2. DOMAIN buf' = DOMAIN buf \cup {<<p, tickMinute>>}
      BY <2>7 DEF Visit, Accumulated
    <3> QED BY <2>7, <3>1, <3>2 DEF Visit
  <2>8. CASE TickEnds
    BY <2>0, <2>8 DEF TickEnds
  <2>9. CASE FlushStart
    BY <2>9 DEF FlushStart, Peeked
  <2>10. CASE Upsert
    <3>1. DOMAIN saved' \subseteq BarKeys
      BY <2>10 DEF Upsert
    <3> QED BY <2>10, <3>1 DEF Upsert
  <2>11. CASE Evict
    <3>1. DOMAIN buf' \subseteq BarKeys
      BY <2>11 DEF Evict, Restrict
    <3> QED BY <2>11, <3>1 DEF Evict
  <2>12. CASE Raises
    BY <2>0, <2>12 DEF Raises, EmptyDict
  <2>13. CASE WorkerRestarts
    BY <2>0, <2>13 DEF WorkerRestarts, EmptyDict
  <2>14. CASE UNCHANGED mtmVars
    BY <2>14 DEF mtmVars
  <2> QED BY <2>1, <2>2, <2>3, <2>4, <2>5, <2>6, <2>7, <2>8, <2>9, <2>10, <2>11, <2>12,
             <2>13, <2>14 DEF MtmNext
<1> QED BY <1>1, <1>2, PTL DEF MtmSpec

LEMMA MinuteOfBar == \A k \in BarKeys : k[2] \in Int
BY MtmBounds DEF BarKeys

(* Whatever raises, before or after a commit, no minute of the history     *)
(* loses a sample but to a restart (mtm_worker.py:312-361).                *)
THEOREM HistoryIsKept == MtmSpec => []HistoryKept
<1>1. MtmInit => HistoryInv
  BY MtmBounds DEF MtmInit, HistoryInv, MtmNumbers, BarsComplete, GoneIsSaved, ClosedAreOver,
                   EmptyDict
<1>2. HistoryInv /\ [MtmNext]_mtmVars => HistoryInv'
  <2> SUFFICES ASSUME HistoryInv, [MtmNext]_mtmVars PROVE HistoryInv'
    OBVIOUS
  <2>0. /\ MtmNumbers /\ BarsComplete /\ GoneIsSaved /\ ClosedAreOver
        /\ MaxMinute \in Nat
    BY MtmBounds DEF HistoryInv
  <2>1. CASE /\ UNCHANGED <<minute, sampled, buf, saved, closedKeys>>
             /\ stage' \notin {"tick", "write", "evict"}
                \/ (stage' = stage /\ round' \subseteq round /\ tickMinute' = tickMinute)
             /\ tickMinute' \in Nat /\ tickMinute' <= MaxMinute
             /\ DOMAIN cache' \subseteq Positions /\ DOMAIN copied' \subseteq Positions
    <3>1. MtmNumbers' /\ BarsComplete'
      BY <2>0, <2>1 DEF MtmNumbers, BarsComplete
    <3>2. GoneIsSaved'
      BY <2>0, <2>1 DEF GoneIsSaved
    <3>3. ClosedAreOver'
      BY <2>0, <2>1 DEF ClosedAreOver
    <3> QED BY <3>1, <3>2, <3>3 DEF HistoryInv
  <2>2. CASE \/ \E p \in Positions : ReadLegs(p) \/ \E n \in 1..LotsOf[p] : BookCloses(p, n)
             \/ ReadPositions \/ Reloaded \/ TickEnds \/ UNCHANGED mtmVars
    <3>1. tickMinute \in Nat /\ tickMinute <= MaxMinute
          /\ DOMAIN cache \subseteq Positions /\ DOMAIN copied \subseteq Positions
      BY <2>0 DEF MtmNumbers
    <3>2. CASE \E p \in Positions : ReadLegs(p) \/ \E n \in 1..LotsOf[p] : BookCloses(p, n)
      BY <2>1, <3>1, <3>2 DEF ReadLegs, BookCloses
    <3>3. CASE ReadPositions
      BY <2>1, <3>1, <3>3 DEF ReadPositions
    <3>4. CASE Reloaded
      BY <2>1, <3>1, <3>4 DEF Reloaded, EmptyDict
    <3>5. CASE TickEnds
      BY <2>1, <3>1, <3>5, <2>0 DEF TickEnds
    <3>6. CASE UNCHANGED mtmVars
      BY <2>1, <3>1, <3>6 DEF mtmVars
    <3> QED BY <2>2, <3>2, <3>3, <3>4, <3>5, <3>6
  <2>3. CASE MinutePasses
    <3>1. /\ minute' = minute + 1 /\ minute < MaxMinute
          /\ UNCHANGED <<stage, round, copied, cache, tickMinute, buf, closedKeys, saved,
                         sampled>>
      BY <2>3 DEF MinutePasses
    <3>2. \A k \in BarKeys : k[2] < minute => k[2] < minute + 1
      BY <2>0, MinuteOfBar DEF MtmNumbers
    <3>3. MtmNumbers' /\ BarsComplete'
      BY <2>0, <3>1 DEF MtmNumbers, BarsComplete
    <3>4. GoneIsSaved'
      BY <2>0, <3>1, <3>2 DEF GoneIsSaved
    <3>5. ClosedAreOver'
      <4>1. closedKeys \subseteq BarKeys /\ minute \in Nat
        BY <2>0 DEF MtmNumbers
      <4> QED BY <2>0, <3>1, <3>2, <4>1 DEF ClosedAreOver, MtmNumbers
    <3> QED BY <3>3, <3>4, <3>5 DEF HistoryInv
  <2>4. CASE TickStart
    <3>1. /\ stage = "asleep" /\ stage' = "tick" /\ round' = DOMAIN cache
          /\ tickMinute' = minute
          /\ UNCHANGED <<minute, copied, cache, buf, closedKeys, saved, sampled>>
      BY <2>4 DEF TickStart
    <3>2. MtmNumbers' /\ BarsComplete'
      BY <2>0, <3>1 DEF MtmNumbers, BarsComplete
    <3>3. GoneIsSaved' /\ ClosedAreOver'
      BY <2>0, <3>1 DEF GoneIsSaved, ClosedAreOver, MtmNumbers
    <3> QED BY <3>2, <3>3 DEF HistoryInv
  <2>5. ASSUME NEW p \in Positions, Visit(p) PROVE HistoryInv'
    <3> DEFINE bar == <<p, tickMinute>>
    <3>1. /\ stage = "tick" /\ round' \subseteq round
          /\ buf' = [b \in DOMAIN buf \cup {bar} |->
                       (IF b \in DOMAIN buf THEN buf[b] ELSE 0) + (IF b = bar THEN 1 ELSE 0)]
          /\ sampled' = [sampled EXCEPT ![bar] = @ + 1]
          /\ UNCHANGED <<minute, stage, copied, cache, tickMinute, closedKeys, saved>>
      BY <2>5 DEF Visit, Accumulated
    <3>2. bar \in BarKeys /\ bar[2] = tickMinute /\ tickMinute \in Nat
      BY <2>0, MtmBounds DEF BarKeys, MtmNumbers
    <3> HIDE DEF bar
    <3>3. bar \notin DOMAIN buf => sampled[bar] = 0
      <4>1. sampled[bar] \in Nat
        BY <2>0, <3>2 DEF MtmNumbers
      <4>2. ~(bar[2] < tickMinute)
        BY <3>2
      <4> QED BY <2>0, <3>1, <3>2, <4>1, <4>2 DEF GoneIsSaved
    <3>4. sampled' \in [BarKeys -> Nat] /\ sampled'[bar] = sampled[bar] + 1
          /\ \A k \in BarKeys : k # bar => sampled'[k] = sampled[k]
      BY <2>0, <3>1, <3>2 DEF MtmNumbers
    <3>5. DOMAIN buf' = DOMAIN buf \cup {bar} /\ DOMAIN buf \subseteq BarKeys
      BY <2>0, <3>1 DEF MtmNumbers
    <3>6. MtmNumbers'
      BY <2>0, <3>1, <3>2, <3>4, <3>5 DEF MtmNumbers
    <3>7. BarsComplete'
      <4> SUFFICES ASSUME NEW k \in DOMAIN buf' PROVE buf'[k] = sampled'[k]
        BY DEF BarsComplete
      <4>1. k \in BarKeys /\ sampled[k] \in Nat
        BY <2>0, <3>2, <3>5 DEF MtmNumbers
      <4>2. k \in DOMAIN buf => buf[k] = sampled[k]
        BY <2>0 DEF BarsComplete
      <4>3. buf'[k] = (IF k \in DOMAIN buf THEN buf[k] ELSE 0) + (IF k = bar THEN 1 ELSE 0)
        BY <3>1, <3>5
      <4> QED BY <3>3, <3>4, <3>5, <4>1, <4>2, <4>3
    <3>8. GoneIsSaved'
      BY <2>0, <3>1, <3>4, <3>5 DEF GoneIsSaved
    <3>9. ClosedAreOver'
      BY <2>0, <3>1 DEF ClosedAreOver
    <3> QED BY <3>6, <3>7, <3>8, <3>9 DEF HistoryInv
  <2>6. CASE FlushStart
    <3>1. /\ buf' = buf /\ closedKeys' = {k \in DOMAIN buf : k[2] < minute}
          /\ stage' \in {"asleep", "write"}
          /\ UNCHANGED <<minute, round, copied, cache, tickMinute, saved, sampled>>
      BY <2>6 DEF FlushStart, Peeked
    <3>2. MtmNumbers' /\ BarsComplete'
      BY <2>0, <3>1 DEF MtmNumbers, BarsComplete
    <3>3. GoneIsSaved' /\ ClosedAreOver'
      BY <2>0, <3>1 DEF GoneIsSaved, ClosedAreOver
    <3> QED BY <3>2, <3>3 DEF HistoryInv
  <2>7. CASE Upsert
    <3> DEFINE written == closedKeys \cap DOMAIN buf
    <3>1. /\ stage = "write" /\ stage' = "evict"
          /\ saved' = [k \in DOMAIN saved \cup written |->
                         IF k \in written THEN buf[k] ELSE saved[k]]
          /\ UNCHANGED <<minute, round, copied, cache, tickMinute, buf, closedKeys, sampled>>
      BY <2>7 DEF Upsert
    <3>2. /\ \A k \in written : k \in DOMAIN saved' /\ saved'[k] = buf[k]
          /\ \A k \in DOMAIN saved : k \in DOMAIN saved'
          /\ \A k \in DOMAIN saved : k \notin DOMAIN buf => saved'[k] = saved[k]
      BY <3>1
    <3>3. MtmNumbers' /\ BarsComplete'
      BY <2>0, <3>1 DEF MtmNumbers, BarsComplete
    <3>4. GoneIsSaved'
      BY <2>0, <3>1, <3>2 DEF GoneIsSaved
    <3>5. ClosedAreOver'
      BY <2>0, <3>1, <3>2 DEF ClosedAreOver
    <3> QED BY <3>3, <3>4, <3>5 DEF HistoryInv
  <2>8. CASE Evict
    <3>1. /\ stage = "evict" /\ stage' = "asleep" /\ closedKeys' = {}
          /\ DOMAIN buf' = DOMAIN buf \ closedKeys
          /\ \A k \in DOMAIN buf' : buf'[k] = buf[k]
          /\ UNCHANGED <<minute, round, copied, cache, tickMinute, saved, sampled>>
      BY <2>8 DEF Evict, Restrict
    <3>2. MtmNumbers' /\ BarsComplete'
      BY <2>0, <3>1 DEF MtmNumbers, BarsComplete
    <3>3. GoneIsSaved'
      <4> SUFFICES ASSUME NEW k \in BarKeys, k \notin DOMAIN buf', sampled'[k] > 0
                   PROVE  k \in DOMAIN saved' /\ saved'[k] = sampled'[k] /\ k[2] < minute'
        BY <3>1 DEF GoneIsSaved
      <4>1. CASE k \notin DOMAIN buf
        BY <2>0, <3>1, <4>1 DEF GoneIsSaved
      <4>2. CASE k \in closedKeys \cap DOMAIN buf
        BY <2>0, <3>1, <4>2 DEF ClosedAreOver, BarsComplete
      <4> QED BY <3>1, <4>1, <4>2
    <3>4. ClosedAreOver'
      BY <3>1 DEF ClosedAreOver
    <3> QED BY <3>2, <3>3, <3>4 DEF HistoryInv
  <2>9. CASE Raises
    <3>1. /\ stage' \notin {"tick", "write", "evict"} /\ tickMinute' = 0
          /\ closedKeys' = {} /\ copied' = EmptyDict
          /\ UNCHANGED <<minute, cache, buf, saved, sampled>>
      BY <2>9 DEF Raises
    <3>2. MtmNumbers' /\ BarsComplete'
      BY <2>0, <3>1 DEF MtmNumbers, BarsComplete, EmptyDict
    <3>3. GoneIsSaved' /\ ClosedAreOver'
      BY <2>0, <3>1 DEF GoneIsSaved, ClosedAreOver
    <3> QED BY <3>2, <3>3 DEF HistoryInv
  <2>10. CASE WorkerRestarts
    <3>1. /\ stage' = "boot" /\ tickMinute' = 0 /\ closedKeys' = {}
          /\ copied' = EmptyDict /\ cache' = EmptyDict /\ buf' = EmptyDict
          /\ sampled' = [k \in BarKeys |-> IF k \in DOMAIN buf THEN 0 ELSE sampled[k]]
          /\ UNCHANGED <<minute, saved>>
      BY <2>10 DEF WorkerRestarts
    <3>2. MtmNumbers' /\ BarsComplete'
      BY <2>0, <3>1 DEF MtmNumbers, BarsComplete, EmptyDict
    <3>3. GoneIsSaved' /\ ClosedAreOver'
      BY <2>0, <3>1 DEF GoneIsSaved, ClosedAreOver
    <3> QED BY <3>2, <3>3 DEF HistoryInv
  <2> QED BY <2>2, <2>3, <2>4, <2>5, <2>6, <2>7, <2>8, <2>9, <2>10 DEF MtmNext
<1>3. HistoryInv => HistoryKept
  BY DEF HistoryInv, BarsComplete, GoneIsSaved, HistoryKept
<1> QED BY <1>1, <1>2, <1>3, PTL DEF MtmSpec

-----------------------------------------------------------------------------
(* The price of a paper fill *)

(* The book is finite, with prices and sizes that are positive.            *)
BookTyped == levels \subseteq Level /\ IsFiniteSet(levels) /\ volume \in Volumes

(* x is at or behind y in the order of the walk.                           *)
NotBefore(side, x, y) == IF side = "buy" THEN x >= y ELSE x <= y

LEMMA LevelNumbers ==
  ASSUME BookTyped, NEW l \in levels
  PROVE  l.price \in Nat \ {0} /\ l.size \in Nat \ {0}
BY SlippageBounds DEF BookTyped, Level

LEMMA LastIsBehind ==
  ASSUME BookTyped, NEW side, NEW part \in SUBSET levels, part # {}
  PROVE  /\ LastOf(side, part) \in part
         /\ \A m \in part : NotBefore(side, LastOf(side, part).price, m.price)
<1> DEFINE price == [l \in part |-> l.price]
           V == {price[l] : l \in part}
<1>1. IsFiniteSet(part) /\ \A l \in part : l.price \in Nat
  BY FS_Subset, LevelNumbers DEF BookTyped
<1>2. IsFiniteSet(V)
  <2> HIDE DEF price
  <2> QED BY <1>1, ImageFinite
<1>3. V \subseteq Int /\ V # {}
  BY <1>1
<1>4. /\ \E x \in V : \A y \in V : y <= x
      /\ \E x \in V : \A y \in V : x <= y
  <2> HIDE DEF V
  <2> QED BY <1>2, <1>3, Extremes
<1>5. \E l \in part : \A m \in part : Behind(side, l, m)
  BY <1>1, <1>4 DEF Behind
<1>6. PICK l : l = LastOf(side, part)
  OBVIOUS
<1>7. l \in part /\ \A m \in part : Behind(side, l, m)
  BY <1>5, <1>6 DEF LastOf
<1> QED BY <1>6, <1>7 DEF Behind, NotBefore

(* walk_book as a function of the part of the side that was walked.        *)
Walked(f, side, qty, part) ==
  IF part = {} THEN Start(qty)
  ELSE AfterLevel(f[part \ {LastOf(side, part)}], LastOf(side, part))

IsWalk(f, side, qty) == f = [part \in SUBSET levels |-> Walked(f, side, qty, part)]

LEMMA WalkExists ==
  ASSUME BookTyped, NEW side, NEW qty
  PROVE  \E f : IsWalk(f, side, qty)
<1> DEFINE D(n) == {T \in SUBSET levels : Cardinality(T) <= n}
           Fits(f, n) == f = [T \in D(n) |-> Walked(f, side, qty, T)]
           N == {n \in Nat : \E f : Fits(f, n)}
<1>1. \A T \in SUBSET levels : IsFiniteSet(T) /\ Cardinality(T) \in Nat
  BY FS_Subset, FS_CardinalityType DEF BookTyped
<1>2. \A T \in SUBSET levels : T # {} =>
        LastOf(side, T) \in T /\ Cardinality(T \ {LastOf(side, T)}) = Cardinality(T) - 1
  BY <1>1, FS_RemoveElement, LastIsBehind
<1>3. 0 \in N
  <2>1. \A T \in D(0) : T = {}
    BY <1>1, FS_EmptySet
  <2> DEFINE f == [T \in D(0) |-> Start(qty)]
  <2>2. \A T \in D(0) : Walked(f, side, qty, T) = Start(qty)
    BY <2>1 DEF Walked
  <2>3. Fits(f, 0)
    <3> HIDE DEF D
    <3> QED BY <2>2
  <2> HIDE DEF Fits, f
  <2> QED BY <2>3
<1>4. ASSUME NEW n \in Nat, n \in N
      PROVE  n + 1 \in N
  <2>1. PICK f : Fits(f, n)
    BY <1>4
  <2> DEFINE g == [T \in D(n + 1) |-> Walked(f, side, qty, T)]
  <2>2. ASSUME NEW T \in D(n + 1)
        PROVE  Walked(f, side, qty, T) = Walked(g, side, qty, T)
    <3>1. CASE T = {}
      BY <3>1 DEF Walked
    <3>2. CASE T # {}
      <4>1. PICK R : R = T \ {LastOf(side, T)}
        OBVIOUS
      <4>2. R \in D(n) /\ R \in D(n + 1)
        BY <1>1, <1>2, <3>2, <4>1
      <4>3. f[R] = Walked(f, side, qty, R) /\ g[R] = Walked(f, side, qty, R)
        <5> HIDE DEF D
        <5> QED BY <2>1, <4>2
      <4>4. f[T \ {LastOf(side, T)}] = g[T \ {LastOf(side, T)}]
        BY <4>1, <4>3
      <4> HIDE DEF g
      <4> QED BY <3>2, <4>4 DEF Walked
    <3> QED BY <3>1, <3>2
  <2>3. g = [T \in D(n + 1) |-> Walked(g, side, qty, T)]
    <3> DEFINE h == [T \in D(n + 1) |-> Walked(g, side, qty, T)]
    <3>1. \A T \in D(n + 1) : g[T] = h[T]
      <4> SUFFICES ASSUME NEW T \in D(n + 1) PROVE g[T] = h[T]
        OBVIOUS
      <4>1. g[T] = Walked(f, side, qty, T) /\ h[T] = Walked(g, side, qty, T)
        <5> HIDE DEF D
        <5> QED OBVIOUS
      <4> HIDE DEF g, h, D
      <4> QED BY <2>2, <4>1
    <3> HIDE DEF D
    <3> QED BY <3>1
  <2>4. Fits(g, n + 1)
    BY <2>3
  <2> HIDE DEF Fits, g
  <2> QED BY <2>4
<1>5. Cardinality(levels) \in N
  <2>1. Nat \subseteq N
    <3> HIDE DEF N
    <3> QED BY <1>3, <1>4, NatInductionSet
  <2> QED BY <1>1, <2>1
<1>6. D(Cardinality(levels)) = SUBSET levels
  BY <1>1, FS_Subset DEF BookTyped
<1> QED BY <1>5, <1>6 DEF IsWalk

LEMMA WalkIsWalked ==
  ASSUME BookTyped, NEW side, NEW qty
  PROVE  \E f : /\ \A part \in SUBSET levels : f[part] = Walked(f, side, qty, part)
               /\ WalkBook(side, qty) = f[levels]
<1> DEFINE f == CHOOSE walk : walk = [part \in SUBSET levels |->
                  IF part = {} THEN Start(qty)
                  ELSE AfterLevel(walk[part \ {LastOf(side, part)}], LastOf(side, part))]
<1>1. WalkBook(side, qty) = f[levels]
  BY DEF WalkBook
<1>2. \E walk : walk = [part \in SUBSET levels |->
                  IF part = {} THEN Start(qty)
                  ELSE AfterLevel(walk[part \ {LastOf(side, part)}], LastOf(side, part))]
  <2>1. PICK walk : IsWalk(walk, side, qty)
    BY WalkExists
  <2> QED BY <2>1 DEF IsWalk, Walked
<1>3. f = [part \in SUBSET levels |->
                  IF part = {} THEN Start(qty)
                  ELSE AfterLevel(f[part \ {LastOf(side, part)}], LastOf(side, part))]
  BY <1>2
<1> HIDE DEF f
<1>4. \A part \in SUBSET levels : f[part] = Walked(f, side, qty, part)
  BY <1>3 DEF Walked
<1> QED BY <1>1, <1>4

(* What a walk has taken: from every level before the last one touched all *)
(* there is, from those behind it nothing.                                 *)
Costs(take) == [l \in levels |-> take[l] * l.price]

Taking(take) == take \in [levels -> Nat] /\ \A l \in levels : take[l] <= l.size

Marginal(side, part, take, last) ==
  \A l \in part : /\ take[l] < l.size => NotBefore(side, l.price, last)
                  /\ take[l] > 0 => NotBefore(side, last, l.price)

Greedy(side, qty, part, walk, take, last) ==
  /\ walk.remaining \in Nat /\ walk.cost \in Int
  /\ Taking(take) /\ \A l \in levels \ part : take[l] = 0
  /\ SumFunctionOnSet(take, levels) = qty - walk.remaining
  /\ SumFunctionOnSet(Costs(take), levels) = walk.cost
  /\ walk.remaining > 0 => \A l \in part : take[l] = l.size
  /\ last \in Nat /\ (part # {} => \E m \in part : last = m.price)
  /\ Marginal(side, part, take, last)

LEMMA GreedyStart ==
  ASSUME BookTyped, NEW side, NEW qty \in Nat \ {0}
  PROVE  Greedy(side, qty, {}, Start(qty), [l \in levels |-> 0], 0)
<1> DEFINE none == [l \in levels |-> 0]
<1>1. Taking(none)
  BY LevelNumbers DEF Taking
<1>2. \A l \in levels : none[l] = 0 /\ Costs(none)[l] = 0
  BY LevelNumbers DEF Costs
<1>3. SumFunctionOnSet(none, levels) = 0 /\ SumFunctionOnSet(Costs(none), levels) = 0
  <2> HIDE DEF none
  <2>1. \A l \in levels : none[l] \in Int /\ Costs(none)[l] \in Int
    BY <1>2
  <2> QED BY <1>2, <2>1, SumType DEF BookTyped
<1> QED BY <1>1, <1>2, <1>3 DEF Greedy, Start, Marginal

LEMMA GreedyStep ==
  ASSUME BookTyped, NEW side, NEW qty \in Nat \ {0}, NEW part \in SUBSET levels,
         NEW level \in levels \ part, NEW walk, NEW take, NEW last,
         \A m \in part : NotBefore(side, level.price, m.price),
         Greedy(side, qty, part, walk, take, last)
  PROVE  \E more, next : Greedy(side, qty, part \cup {level}, AfterLevel(walk, level), more, next)
<1> DEFINE amount == Taken(level, walk.remaining)
           only == [l \in levels |-> IF l = level THEN amount ELSE 0]
           more == [take EXCEPT ![level] = amount]
           new == AfterLevel(walk, level)
<1>1. level.price \in Nat /\ level.size \in Nat /\ level.size > 0 /\ IsFiniteSet(levels)
  BY LevelNumbers DEF BookTyped
<1>2. walk.remaining \in Nat /\ walk.cost \in Int /\ last \in Nat
  BY DEF Greedy
<1>3. /\ amount \in Nat /\ amount <= level.size /\ amount <= walk.remaining
      /\ amount = walk.remaining \/ amount = level.size
  BY <1>1, <1>2 DEF Taken
<1>4. /\ new.remaining = walk.remaining - amount
      /\ new.cost = walk.cost + level.price * amount
  BY DEF AfterLevel
<1>5. new.remaining \in Nat /\ new.cost \in Int
  BY <1>1, <1>2, <1>3, <1>4
<1>6. take \in [levels -> Nat] /\ \A l \in levels : take[l] <= l.size
  BY DEF Greedy, Taking
<1>7. take[level] = 0 /\ \A l \in levels \ part : take[l] = 0
  BY DEF Greedy
<1> HIDE DEF amount, new
<1>8. /\ more \in [levels -> Nat] /\ more[level] = amount
      /\ \A l \in levels : l # level => more[l] = take[l]
  BY <1>3, <1>6
<1>9. only \in [levels -> Nat] /\ only[level] = amount /\ \A l \in levels : l # level => only[l] = 0
  BY <1>3
<1> HIDE DEF only, more
<1>10. Taking(more) /\ \A l \in levels \ (part \cup {level}) : more[l] = 0
  BY <1>3, <1>6, <1>7, <1>8 DEF Taking
<1>11. SumFunctionOnSet(more, levels) = qty - new.remaining
  <2>1. SumFunctionOnSet(only, levels) = amount
    BY <1>1, <1>3, <1>9, SumSingle
  <2>2. \A l \in levels : take[l] \in Int /\ only[l] \in Int /\ more[l] = take[l] + only[l]
    BY <1>6, <1>7, <1>8, <1>9
  <2>3. SumFunctionOnSet(more, levels) = SumFunctionOnSet(take, levels) + SumFunctionOnSet(only, levels)
    BY <1>1, <2>2, SumAdds
  <2>4. SumFunctionOnSet(take, levels) = qty - walk.remaining
    BY DEF Greedy
  <2> QED BY <1>2, <1>3, <1>4, <2>1, <2>3, <2>4
<1>12. SumFunctionOnSet(Costs(more), levels) = new.cost
  <2>1. \A l \in levels : /\ Costs(take)[l] = take[l] * l.price /\ Costs(only)[l] = only[l] * l.price
                          /\ Costs(more)[l] = more[l] * l.price /\ l.price \in Nat
    BY LevelNumbers DEF Costs
  <2>2. \A l \in levels : l # level => Costs(only)[l] = 0
    BY <1>9, <2>1
  <2>3. Costs(only)[level] = amount * level.price /\ Costs(only)[level] \in Int
    BY <1>1, <1>3, <1>9, <2>1
  <2>4. SumFunctionOnSet(Costs(only), levels) = amount * level.price
    BY <1>1, <2>2, <2>3, SumSingle
  <2>5. \A l \in levels : /\ Costs(take)[l] \in Int /\ Costs(only)[l] \in Int
                          /\ Costs(more)[l] = Costs(take)[l] + Costs(only)[l]
    <3> SUFFICES ASSUME NEW l \in levels
                 PROVE  /\ Costs(take)[l] \in Int /\ Costs(only)[l] \in Int
                        /\ Costs(more)[l] = Costs(take)[l] + Costs(only)[l]
      OBVIOUS
    <3>1. CASE l = level
      <4>1. PICK v \in Int : v = amount * level.price
        BY <1>1, <1>3
      <4>2. Costs(take)[level] = 0
        <5>1. Costs(take)[level] = 0 * level.price
          BY <1>7, <2>1
        <5> QED BY <1>1, <5>1
      <4>3. Costs(only)[level] = v /\ Costs(more)[level] = v
        BY <1>8, <1>9, <2>1, <4>1
      <4> QED BY <3>1, <4>1, <4>2, <4>3
    <3>2. CASE l # level
      <4>1. take[l] \in Nat /\ l.price \in Nat
        BY <1>6, <2>1
      <4>2. take[l] * l.price \in Int
        BY <4>1
      <4> QED BY <1>8, <2>1, <2>2, <3>2, <4>2
    <3> QED BY <3>1, <3>2
  <2>6. SumFunctionOnSet(Costs(more), levels)
        = SumFunctionOnSet(Costs(take), levels) + SumFunctionOnSet(Costs(only), levels)
    BY <1>1, <2>5, SumAdds
  <2>7. SumFunctionOnSet(Costs(take), levels) = walk.cost
    BY DEF Greedy
  <2> QED BY <1>1, <1>2, <1>3, <1>4, <2>4, <2>6, <2>7
<1>13. new.remaining > 0 => \A l \in part \cup {level} : more[l] = l.size
  <2>1. SUFFICES ASSUME new.remaining > 0 PROVE \A l \in part \cup {level} : more[l] = l.size
    OBVIOUS
  <2>2. walk.remaining > 0 /\ amount = level.size
    BY <1>2, <1>3, <1>4, <2>1
  <2>3. \A l \in part : take[l] = l.size
    BY <2>2 DEF Greedy
  <2> QED BY <1>8, <2>2, <2>3
<1>14. CASE walk.remaining = 0
  <2>1. amount = 0
    BY <1>3, <1>14
  <2>2. part # {}
    <3>1. SUFFICES ASSUME part = {} PROVE FALSE
      OBVIOUS
    <3>2. \A l \in levels : take[l] = 0 /\ take[l] \in Int
      BY <1>7, <3>1
    <3>3. SumFunctionOnSet(take, levels) = 0
      BY <1>1, <3>2, SumType
    <3> QED BY <1>14, <3>3 DEF Greedy
  <2>3. \E m \in part : last = m.price
    BY <2>2 DEF Greedy
  <2>4. NotBefore(side, level.price, last)
    BY <2>3
  <2>5. Marginal(side, part \cup {level}, more, last)
    BY <1>1, <1>8, <2>1, <2>4 DEF Greedy, Marginal
  <2>6. Greedy(side, qty, part \cup {level}, new, more, last)
    BY <1>2, <1>5, <1>10, <1>11, <1>12, <1>13, <2>3, <2>5 DEF Greedy
  <2> QED BY <2>6 DEF new
<1>15. CASE walk.remaining # 0
  <2>1. \A l \in part : take[l] = l.size
    BY <1>2, <1>15 DEF Greedy
  <2>2. \A l \in part : more[l] = l.size /\ l.size \in Nat /\ l.price \in Nat
    BY <1>8, <2>1, LevelNumbers
  <2>3. NotBefore(side, level.price, level.price)
    BY <1>1 DEF NotBefore
  <2>4. Marginal(side, part \cup {level}, more, level.price)
    BY <2>2, <2>3 DEF Marginal
  <2>5. level.price \in Nat /\ \E m \in part \cup {level} : level.price = m.price
    BY <1>1
  <2>6. Greedy(side, qty, part \cup {level}, new, more, level.price)
    BY <1>5, <1>10, <1>11, <1>12, <1>13, <2>4, <2>5 DEF Greedy
  <2> QED BY <2>6 DEF new
<1> QED BY <1>14, <1>15

LEMMA WalkIsGreedy ==
  ASSUME BookTyped, NEW side, NEW qty \in Nat \ {0}
  PROVE  \E take, last : Greedy(side, qty, levels, WalkBook(side, qty), take, last)
<1>1. PICK f : /\ \A part \in SUBSET levels : f[part] = Walked(f, side, qty, part)
               /\ WalkBook(side, qty) = f[levels]
  BY WalkIsWalked
<1> DEFINE P == {T \in SUBSET levels : \E take, last : Greedy(side, qty, T, f[T], take, last)}
<1>2. ASSUME NEW T \in SUBSET levels, \A x \in T : T \ {x} \in P
      PROVE  T \in P
  <2>1. CASE T = {}
    <3>1. f[T] = Start(qty)
      BY <1>1, <2>1 DEF Walked
    <3> QED BY <2>1, <3>1, GreedyStart
  <2>2. CASE T # {}
    <3>1. PICK w : w = LastOf(side, T)
      OBVIOUS
    <3>2. w \in T /\ \A m \in T : NotBefore(side, w.price, m.price)
      BY <2>2, <3>1, LastIsBehind
    <3>3. f[T] = AfterLevel(f[T \ {w}], w)
      BY <1>1, <2>2, <3>1 DEF Walked
    <3>4. PICK take, last : Greedy(side, qty, T \ {w}, f[T \ {w}], take, last)
      BY <1>2, <3>2
    <3>5. /\ T \ {w} \in SUBSET levels /\ w \in levels \ (T \ {w})
          /\ \A m \in T \ {w} : NotBefore(side, w.price, m.price)
      BY <3>2
    <3>6. \E more, next : Greedy(side, qty, (T \ {w}) \cup {w}, AfterLevel(f[T \ {w}], w), more, next)
      BY <3>4, <3>5, GreedyStep
    <3>7. (T \ {w}) \cup {w} = T
      BY <3>2
    <3> QED BY <3>3, <3>6, <3>7
  <2> QED BY <2>1, <2>2
<1>3. levels \in P
  <2> HIDE DEF P
  <2> QED BY <1>2, SubsetInduction DEF BookTyped
<1> QED BY <1>1, <1>3

(* Lots beyond what a walk took cost at least as much as the last one it   *)
(* took, on the way that is worse for the trader.                          *)
LEMMA BeyondTheLast ==
  ASSUME BookTyped, NEW side \in {"buy", "sell"}, NEW take, NEW other, NEW last \in Nat,
         Taking(take), Taking(other), Marginal(side, levels, take, last)
  PROVE  LET n == SumFunctionOnSet(take, levels)
             m == SumFunctionOnSet(other, levels)
             c == SumFunctionOnSet(Costs(take), levels)
             d == SumFunctionOnSet(Costs(other), levels)
         IN  /\ n \in Nat /\ m \in Nat /\ c \in Nat /\ d \in Nat
             /\ NotBefore(side, d - c, last * (m - n))
<1> DEFINE sign == IF side = "buy" THEN 1 ELSE -1
           more == [l \in levels |-> other[l] - take[l]]
           dearer == [l \in levels |-> Costs(other)[l] - Costs(take)[l]]
           excess == [l \in levels |-> sign * (dearer[l] - last * more[l])]
           Sum(f) == SumFunctionOnSet(f, levels)
<1>1. sign \in Int /\ IsFiniteSet(levels)
  BY DEF BookTyped
<1>2. \A l \in levels : /\ take[l] \in Nat /\ other[l] \in Nat /\ l.price \in Nat /\ l.size \in Nat
                        /\ take[l] <= l.size /\ other[l] <= l.size
  BY LevelNumbers DEF Taking
<1>3. \A l \in levels : Costs(take)[l] = take[l] * l.price /\ Costs(other)[l] = other[l] * l.price
  BY DEF Costs
<1>4. \A l \in levels : Costs(take)[l] \in Nat /\ Costs(other)[l] \in Nat
  BY <1>2, <1>3
<1>5. Sum(take) \in Nat /\ Sum(other) \in Nat /\ Sum(Costs(take)) \in Nat /\ Sum(Costs(other)) \in Nat
  BY <1>1, <1>2, <1>4, SumNonNegative
<1>6. /\ \A l \in levels : more[l] = other[l] - take[l] /\ more[l] \in Int
      /\ \A l \in levels : dearer[l] = Costs(other)[l] - Costs(take)[l] /\ dearer[l] \in Int
  BY <1>2, <1>4
<1>7. \A l \in levels : excess[l] = sign * (dearer[l] - last * more[l])
  OBVIOUS
<1> HIDE DEF more, dearer, excess
<1>8. Sum(more) = Sum(other) - Sum(take)
  <2>1. \A l \in levels : /\ other[l] \in Int /\ take[l] \in Int /\ more[l] \in Int
                          /\ 1 * more[l] = 1 * other[l] + (-1) * take[l]
    BY <1>2, <1>6
  <2>2. 1 * SumFunctionOnSet(more, levels)
        = 1 * SumFunctionOnSet(other, levels) + (-1) * SumFunctionOnSet(take, levels)
    BY <1>1, <2>1, SumLinear
  <2>3. Sum(more) \in Int
    BY <1>1, <1>6, SumType
  <2> QED BY <1>5, <2>2, <2>3
<1>9. Sum(dearer) = Sum(Costs(other)) - Sum(Costs(take))
  <2>1. \A l \in levels : /\ Costs(other)[l] \in Int /\ Costs(take)[l] \in Int /\ dearer[l] \in Int
                          /\ 1 * dearer[l] = 1 * Costs(other)[l] + (-1) * Costs(take)[l]
    BY <1>4, <1>6
  <2>2. 1 * SumFunctionOnSet(dearer, levels)
        = 1 * SumFunctionOnSet(Costs(other), levels) + (-1) * SumFunctionOnSet(Costs(take), levels)
    BY <1>1, <2>1, SumLinear
  <2>3. Sum(dearer) \in Int
    BY <1>1, <1>6, SumType
  <2> QED BY <1>5, <2>2, <2>3
<1>10. \A l \in levels : excess[l] \in Int
  BY <1>1, <1>6, <1>7
<1>11. Sum(excess) = sign * Sum(dearer) + (-(sign * last)) * Sum(more)
  <2>1. \A l \in levels : 1 * excess[l] = sign * dearer[l] + (-(sign * last)) * more[l]
    BY <1>1, <1>6, <1>7
  <2>2. -(sign * last) \in Int
    BY <1>1
  <2>3. 1 * SumFunctionOnSet(excess, levels)
        = sign * SumFunctionOnSet(dearer, levels) + (-(sign * last)) * SumFunctionOnSet(more, levels)
    BY <1>1, <1>6, <1>10, <2>1, <2>2, SumLinear
  <2>4. Sum(excess) \in Int
    BY <1>1, <1>10, SumType
  <2> QED BY <2>3, <2>4
<1>12. \A l \in levels : excess[l] \in Nat
  <2> SUFFICES ASSUME NEW l \in levels PROVE excess[l] >= 0
    BY <1>10
  <2>1. PICK t, o, p \in Nat : t = take[l] /\ o = other[l] /\ p = l.price
    BY <1>2
  <2>2. excess[l] = sign * ((o * p - t * p) - last * (o - t))
    BY <1>3, <1>6, <1>7, <2>1
  <2>3. (o * p - t * p) - last * (o - t) = (o - t) * (p - last)
    <3>1. last * (o - t) = o * last - t * last
      OBVIOUS
    <3>2. (o - t) * (p - last) = (o * p - t * p) - (o * last - t * last)
      OBVIOUS
    <3> QED BY <3>1, <3>2
  <2>4. CASE o = t
    BY <1>1, <2>2, <2>3, <2>4
  <2>5. CASE o > t
    <3>1. NotBefore(side, p, last)
      BY <1>2, <2>1, <2>5 DEF Marginal
    <3>2. CASE side = "buy"
      <4>1. p - last >= 0 /\ o - t >= 0
        BY <2>5, <3>1, <3>2 DEF NotBefore
      <4>2. (o - t) * (p - last) >= 0
        BY <4>1
      <4> QED BY <2>2, <2>3, <3>2, <4>2
    <3>3. CASE side = "sell"
      <4>1. last - p >= 0 /\ o - t >= 0
        BY <2>5, <3>1, <3>3 DEF NotBefore
      <4>2. (o - t) * (last - p) >= 0 /\ (o - t) * (last - p) = -((o - t) * (p - last))
        BY <4>1
      <4> QED BY <2>2, <2>3, <3>3, <4>2
    <3> QED BY <3>2, <3>3
  <2>6. CASE o < t
    <3>1. NotBefore(side, last, p)
      BY <1>2, <2>1, <2>6 DEF Marginal
    <3>2. CASE side = "buy"
      <4>1. last - p >= 0 /\ t - o >= 0
        BY <2>6, <3>1, <3>2 DEF NotBefore
      <4>2. (t - o) * (last - p) >= 0 /\ (t - o) * (last - p) = (o - t) * (p - last)
        BY <4>1
      <4> QED BY <2>2, <2>3, <3>2, <4>2
    <3>3. CASE side = "sell"
      <4>1. p - last >= 0 /\ t - o >= 0
        BY <2>6, <3>1, <3>3 DEF NotBefore
      <4>2. (t - o) * (p - last) >= 0 /\ (t - o) * (p - last) = -((o - t) * (p - last))
        BY <4>1
      <4> QED BY <2>2, <2>3, <3>3, <4>2
    <3> QED BY <3>2, <3>3
  <2> QED BY <2>1, <2>4, <2>5, <2>6
<1>13. Sum(excess) \in Nat
  BY <1>1, <1>12, SumNonNegative
<1>14. PICK n, m, c, d, x \in Nat : /\ n = Sum(take) /\ m = Sum(other) /\ c = Sum(Costs(take))
                                  /\ d = Sum(Costs(other)) /\ x = Sum(excess)
  BY <1>5, <1>13
<1>15. x = sign * (d - c) + (-(sign * last)) * (m - n)
  BY <1>8, <1>9, <1>11, <1>14
<1>16. NotBefore(side, d - c, last * (m - n))
  <2>1. PICK y \in Int : y = last * (m - n)
    BY <1>14
  <2>2. CASE side = "buy"
    <3>1. x = (d - c) - last * (m - n)
      BY <1>15, <2>2
    <3> QED BY <1>14, <2>1, <2>2, <3>1 DEF NotBefore
  <2>3. CASE side = "sell"
    <3>1. x = last * (m - n) - (d - c)
      BY <1>15, <2>3
    <3> QED BY <1>14, <2>1, <2>3, <3>1 DEF NotBefore
  <2> QED BY <2>2, <2>3
<1> QED BY <1>5, <1>14, <1>16

(* The better price for the trader. *)
Cheaper(side, a, b) == IF side = "buy" THEN Less(a, b) ELSE Less(b, a)

LEMMA WalkFacts ==
  ASSUME BookTyped, NEW side \in {"buy", "sell"}, NEW qty \in Nat \ {0}
  PROVE  LET walk == WalkBook(side, qty) IN
         /\ walk.remaining \in Nat /\ walk.cost \in Nat
         /\ \E take \in [levels -> Nat], last \in Nat :
              /\ Taking(take) /\ SumFunctionOnSet(take, levels) = qty - walk.remaining
              /\ SumFunctionOnSet(Costs(take), levels) = walk.cost
              /\ walk.remaining > 0 => \A l \in levels : take[l] = l.size
              /\ \A other : Taking(other) =>
                    NotBefore(side, SumFunctionOnSet(Costs(other), levels) - walk.cost,
                              last * (SumFunctionOnSet(other, levels) - (qty - walk.remaining)))
<1>1. PICK take, last : Greedy(side, qty, levels, WalkBook(side, qty), take, last)
  BY WalkIsGreedy
<1> DEFINE walk == WalkBook(side, qty)
<1>2. /\ walk.remaining \in Nat /\ Taking(take) /\ take \in [levels -> Nat] /\ last \in Nat
      /\ SumFunctionOnSet(take, levels) = qty - walk.remaining
      /\ SumFunctionOnSet(Costs(take), levels) = walk.cost
      /\ walk.remaining > 0 => \A l \in levels : take[l] = l.size
      /\ Marginal(side, levels, take, last)
  BY <1>1 DEF Greedy, Taking
<1>3. ASSUME NEW other, Taking(other)
      PROVE  NotBefore(side, SumFunctionOnSet(Costs(other), levels) - walk.cost,
                       last * (SumFunctionOnSet(other, levels) - (qty - walk.remaining)))
  BY <1>2, <1>3, BeyondTheLast
<1>4. walk.cost \in Nat
  BY <1>2, BeyondTheLast
<1> HIDE DEF walk
<1>5. \E t \in [levels -> Nat], p \in Nat :
              /\ Taking(t) /\ SumFunctionOnSet(t, levels) = qty - walk.remaining
              /\ SumFunctionOnSet(Costs(t), levels) = walk.cost
              /\ walk.remaining > 0 => \A l \in levels : t[l] = l.size
              /\ \A other : Taking(other) =>
                    NotBefore(side, SumFunctionOnSet(Costs(other), levels) - walk.cost,
                              p * (SumFunctionOnSet(other, levels) - (qty - walk.remaining)))
  BY <1>2, <1>3
<1> QED BY <1>2, <1>4, <1>5 DEF walk

LEMMA WayFacts ==
  ASSUME BookTyped, NEW qty \in Nat \ {0}, NEW take
  PROVE  /\ take \in Ways(qty) <=>
              Taking(take) /\ SumFunctionOnSet(take, levels) = qty
         /\ take \in Ways(qty) => Cost(take) = SumFunctionOnSet(Costs(take), levels)
<1>1. DOMAIN Costs(take) = levels
  BY DEF Costs
<1>2. Cost(take) = SumFunctionOnSet(Costs(take), levels)
  BY <1>1 DEF Cost, SumFunction, Costs
<1>3. ASSUME take \in Ways(qty)
      PROVE  Taking(take) /\ SumFunctionOnSet(take, levels) = qty
  <2>1. take \in [levels -> 0 .. qty] /\ \A l \in levels : take[l] <= l.size
    BY <1>3 DEF Ways
  <2>2. SumFunction(take) = qty
    BY <1>3 DEF Ways
  <2> QED BY <2>1, <2>2 DEF SumFunction, Taking
<1>4. ASSUME Taking(take), SumFunctionOnSet(take, levels) = qty
      PROVE  take \in Ways(qty)
  <2>1. take \in [levels -> Nat] /\ DOMAIN take = levels
    BY <1>4 DEF Taking
  <2>2. ASSUME NEW x \in levels PROVE take[x] <= qty
    <3> DEFINE only == [l \in levels |-> IF l = x THEN take[x] ELSE 0]
               rest == [l \in levels |-> take[l] - only[l]]
    <3>1. \A l \in levels : take[l] \in Nat /\ only[l] \in Nat /\ rest[l] \in Nat
                            /\ take[l] = only[l] + rest[l]
      BY <2>1
    <3>2. only[x] = take[x] /\ \A l \in levels : l # x => only[l] = 0
      OBVIOUS
    <3> HIDE DEF only, rest
    <3>3. SumFunctionOnSet(only, levels) = take[x]
      <4>1. only[x] \in Int
        BY <3>1
      <4> QED BY <3>2, <4>1, SumSingle DEF BookTyped
    <3>4. SumFunctionOnSet(rest, levels) \in Nat
      BY <3>1, SumNonNegative DEF BookTyped
    <3>5. SumFunctionOnSet(take, levels) = SumFunctionOnSet(only, levels) + SumFunctionOnSet(rest, levels)
      <4>1. \A l \in levels : only[l] \in Int /\ rest[l] \in Int /\ take[l] = only[l] + rest[l]
        BY <3>1
      <4> QED BY <4>1, SumAdds DEF BookTyped
    <3> QED BY <1>4, <2>1, <3>3, <3>4, <3>5
  <2>3. take \in [levels -> 0 .. qty]
    BY <2>1, <2>2
  <2>4. SumFunction(take) = qty /\ \A l \in levels : take[l] <= l.size
    BY <1>4, <2>1 DEF SumFunction, Taking
  <2> QED BY <2>3, <2>4 DEF Ways
<1> QED BY <1>2, <1>3, <1>4

(* A way that empties the book is the largest there is.                    *)
LEMMA FullIsMost ==
  ASSUME BookTyped, NEW take, NEW other, Taking(take), Taking(other),
         \A l \in levels : take[l] = l.size
  PROVE  SumFunctionOnSet(other, levels) <= SumFunctionOnSet(take, levels)
<1> DEFINE left == [l \in levels |-> take[l] - other[l]]
<1>1. \A l \in levels : other[l] \in Nat /\ left[l] \in Nat /\ take[l] = other[l] + left[l]
  <2> SUFFICES ASSUME NEW l \in levels
               PROVE  other[l] \in Nat /\ left[l] \in Nat /\ take[l] = other[l] + left[l]
    OBVIOUS
  <2>1. take[l] = l.size /\ other[l] <= l.size /\ other[l] \in Nat /\ l.size \in Nat
    BY LevelNumbers DEF Taking
  <2>2. left[l] = take[l] - other[l]
    OBVIOUS
  <2> HIDE DEF left
  <2> QED BY <2>1, <2>2
<1> HIDE DEF left
<1>2. SumFunctionOnSet(left, levels) \in Nat /\ SumFunctionOnSet(other, levels) \in Nat
  BY <1>1, SumNonNegative DEF BookTyped
<1>3. SumFunctionOnSet(take, levels) = SumFunctionOnSet(other, levels) + SumFunctionOnSet(left, levels)
  <2>1. \A l \in levels : other[l] \in Int /\ left[l] \in Int /\ take[l] = other[l] + left[l]
    BY <1>1
  <2> QED BY <2>1, SumAdds DEF BookTyped
<1> QED BY <1>2, <1>3

(* The book is too small exactly when the walk runs out of levels.         *)
LEMMA DepthIsEnough ==
  ASSUME BookTyped, NEW side \in {"buy", "sell"}, NEW qty \in Nat \ {0}
  PROVE  /\ InsufficientDepth(side, qty) <=> Ways(qty) = {}
         /\ Ways(qty) # {} => /\ WalkBook(side, qty).remaining = 0
                              /\ \E take \in Ways(qty) : WalkBook(side, qty).cost = Cost(take)
<1> DEFINE walk == WalkBook(side, qty)
<1>1. PICK take \in [levels -> Nat] :
        /\ walk.remaining \in Nat
        /\ Taking(take) /\ SumFunctionOnSet(take, levels) = qty - walk.remaining
        /\ SumFunctionOnSet(Costs(take), levels) = walk.cost
        /\ walk.remaining > 0 => \A l \in levels : take[l] = l.size
  BY WalkFacts
<1>2. ASSUME walk.remaining = 0
      PROVE  take \in Ways(qty) /\ walk.cost = Cost(take)
  <2>1. SumFunctionOnSet(take, levels) = qty
    BY <1>1, <1>2
  <2> QED BY <1>1, <2>1, WayFacts
<1>3. ASSUME walk.remaining > 0, NEW other \in Ways(qty)
      PROVE  FALSE
  <2>1. Taking(other) /\ SumFunctionOnSet(other, levels) = qty
    BY WayFacts
  <2>2. \A l \in levels : take[l] = l.size
    BY <1>1, <1>3
  <2>3. qty <= qty - walk.remaining
    BY <1>1, <2>1, <2>2, FullIsMost
  <2> QED BY <1>1, <1>3, <2>3
<1>4. walk.remaining = 0 \/ walk.remaining > 0
  BY <1>1
<1> QED BY <1>2, <1>3, <1>4 DEF InsufficientDepth

(* A larger order costs more, and pays the same or a worse average.        *)
LEMMA LargerIsDearer ==
  ASSUME BookTyped, NEW side \in {"buy", "sell"}, NEW qty \in Nat \ {0}, NEW q \in 1 .. (qty - 1),
         Ways(qty) # {}
  PROVE  LET small == WalkBook(side, q).cost
             large == WalkBook(side, qty).cost
         IN  /\ Ways(q) # {}
             /\ small \in Nat /\ large \in Nat /\ small <= large
             /\ NotBefore(side, large * q, small * qty)
<1> DEFINE less == WalkBook(side, q)
           walk == WalkBook(side, qty)
           Sum(f) == SumFunctionOnSet(f, levels)
           none == [l \in levels |-> 0]
<1>1. q \in Nat \ {0} /\ q < qty
  OBVIOUS
<1>2. walk.remaining = 0 /\ walk.cost \in Nat
  BY DepthIsEnough, WalkFacts
<1>3. PICK all \in [levels -> Nat], top \in Nat :
        /\ Taking(all) /\ Sum(all) = qty - walk.remaining /\ Sum(Costs(all)) = walk.cost
        /\ \A other : Taking(other) =>
              NotBefore(side, Sum(Costs(other)) - walk.cost, top * (Sum(other) - (qty - walk.remaining)))
  BY WalkFacts
<1>4. PICK part \in [levels -> Nat], last \in Nat :
        /\ less.remaining \in Nat /\ less.cost \in Nat
        /\ Taking(part) /\ Sum(part) = q - less.remaining /\ Sum(Costs(part)) = less.cost
        /\ less.remaining > 0 => \A l \in levels : part[l] = l.size
        /\ \A other : Taking(other) =>
              NotBefore(side, Sum(Costs(other)) - less.cost, last * (Sum(other) - (q - less.remaining)))
  BY <1>1, WalkFacts
<1>5. less.remaining = 0
  <2>1. CASE less.remaining > 0
    <3>1. Sum(all) <= Sum(part)
      BY <1>3, <1>4, <2>1, FullIsMost
    <3> QED BY <1>1, <1>2, <1>3, <1>4, <3>1
  <2> QED BY <1>4, <2>1
<1>6. Ways(q) # {}
  <2>1. Sum(part) = q
    BY <1>1, <1>4, <1>5
  <2> QED BY <1>1, <1>4, <2>1, WayFacts
<1>7. Taking(none) /\ Sum(none) = 0 /\ Sum(Costs(none)) = 0
  <2>1. \A l \in levels : none[l] = 0 /\ Costs(none)[l] = 0
    BY LevelNumbers DEF Costs
  <2>2. Taking(none)
    BY LevelNumbers DEF Taking
  <2> HIDE DEF none
  <2>3. \A l \in levels : none[l] \in Int /\ Costs(none)[l] \in Int
    BY <2>1
  <2> QED BY <2>1, <2>2, <2>3, SumType DEF BookTyped
<1> HIDE DEF none
<1>8. PICK c, d \in Nat : c = less.cost /\ d = walk.cost
  BY <1>2, <1>4
<1>9. NotBefore(side, d - c, last * (qty - q))
  <2>1. Sum(all) = qty /\ q - less.remaining = q
    BY <1>1, <1>2, <1>3, <1>5
  <2> QED BY <1>3, <1>4, <1>8, <2>1
<1>10. NotBefore(side, 0 - c, last * (0 - q))
  <2>1. q - less.remaining = q
    BY <1>1, <1>5
  <2> QED BY <1>4, <1>7, <1>8, <2>1
<1>11. NotBefore(side, c - d, top * (q - qty))
  <2>1. Sum(part) = q /\ qty - walk.remaining = qty
    BY <1>1, <1>2, <1>4, <1>5
  <2> QED BY <1>3, <1>4, <1>8, <2>1
<1> HIDE DEF less, walk
<1>12. c <= d /\ NotBefore(side, d * q, c * qty)
  <2>1. PICK n \in Nat : n = qty - q
    BY <1>1
  <2>2. last * n \in Nat /\ top * n \in Nat /\ last * q \in Nat
    BY <1>1
  <2>3. last * (0 - q) = -(last * q) /\ top * (q - qty) = -(top * n)
    BY <1>1, <2>1
  <2>4. d * q - c * qty = q * (d - c) - n * c
    <3>1. qty = q + n
      BY <1>1, <2>1
    <3>2. c * (q + n) = c * q + c * n
      BY <1>1
    <3>3. q * (d - c) = d * q - c * q
      BY <1>1
    <3> QED BY <1>1, <3>1, <3>2, <3>3
  <2>5. q * (last * n) = n * (last * q)
    BY <1>1
  <2>6. CASE side = "buy"
    <3>1. d - c >= last * n /\ c <= last * q
      BY <1>9, <1>10, <2>1, <2>2, <2>3, <2>6 DEF NotBefore
    <3>2. q * (d - c) >= q * (last * n)
      <4>1. PICK x, y \in Int : x = d - c /\ y = last * n
        BY <2>2
      <4>2. q * x >= q * y
        BY <1>1, <3>1, <4>1
      <4> QED BY <4>1, <4>2
    <3>3. n * c <= n * (last * q)
      <4>1. PICK y \in Int : y = last * q
        BY <2>2
      <4>2. n * c <= n * y
        BY <3>1, <4>1
      <4> QED BY <4>1, <4>2
    <3>4. c <= d
      BY <2>2, <3>1
    <3>5. d * q >= c * qty
      <4>1. PICK a, b, e, f, g, h \in Int : /\ a = d * q /\ b = c * qty /\ e = q * (d - c)
                                            /\ f = n * c /\ g = q * (last * n) /\ h = n * (last * q)
        BY <1>1, <2>2
      <4> QED BY <2>4, <2>5, <3>2, <3>3, <4>1
    <3> QED BY <2>6, <3>4, <3>5 DEF NotBefore
  <2>7. CASE side = "sell"
    <3>1. d - c <= last * n /\ c >= last * q /\ c - d <= -(top * n)
      BY <1>9, <1>10, <1>11, <2>1, <2>2, <2>3, <2>7 DEF NotBefore
    <3>2. q * (d - c) <= q * (last * n)
      <4>1. PICK x, y \in Int : x = d - c /\ y = last * n
        BY <2>2
      <4>2. q * x <= q * y
        BY <1>1, <3>1, <4>1
      <4> QED BY <4>1, <4>2
    <3>3. n * c >= n * (last * q)
      <4>1. PICK y \in Int : y = last * q
        BY <2>2
      <4>2. n * c >= n * y
        BY <3>1, <4>1
      <4> QED BY <4>1, <4>2
    <3>4. c <= d
      BY <2>2, <3>1
    <3>5. d * q <= c * qty
      <4>1. PICK a, b, e, f, g, h \in Int : /\ a = d * q /\ b = c * qty /\ e = q * (d - c)
                                            /\ f = n * c /\ g = q * (last * n) /\ h = n * (last * q)
        BY <1>1, <2>2
      <4> QED BY <2>4, <2>5, <3>2, <3>3, <4>1
    <3> QED BY <2>7, <3>4, <3>5 DEF NotBefore
  <2> QED BY <2>6, <2>7
<1>13. /\ Ways(q) # {}
       /\ less.cost \in Nat /\ walk.cost \in Nat /\ less.cost <= walk.cost
       /\ NotBefore(side, walk.cost * q, less.cost * qty)
  BY <1>6, <1>8, <1>12
<1> QED BY <1>13 DEF less, walk

(* The impact is a proper fraction and grows with what is traded.          *)
LEMMA ImpactGrows ==
  ASSUME BookTyped, NEW n \in Nat, NEW m \in Nat, n <= m
  PROVE  LET f == ImpactFraction(n)
             g == ImpactFraction(m)
         IN  /\ f[1] \in Nat /\ f[2] \in Nat \ {0} /\ f[1] <= f[2]
             /\ f[1] * g[2] <= g[1] * f[2]
<1> DEFINE F == FloorPart
<1>1. volume \in Nat /\ ImpactPart \in Nat \ {0} /\ FloorPart \in Nat \ {0}
  BY SlippageBounds DEF BookTyped
<1>2. CASE volume = 0
  <2>1. ImpactFraction(n) = <<1, FloorPart>> /\ ImpactFraction(m) = <<1, FloorPart>>
    BY <1>2 DEF ImpactFraction
  <2> QED BY <1>1, <2>1
<1>3. CASE volume # 0
  <2>1. PICK v \in Nat \ {0} : v = ImpactPart * volume
    BY <1>1, <1>3
  <2>2. \A k \in Nat : ImpactFraction(k) = IF v < k * FloorPart THEN <<1, FloorPart>> ELSE <<k, v>>
    BY <1>1, <1>3, <2>1 DEF ImpactFraction, Less
  <2>3. \A k \in Nat : k <= k * FloorPart /\ k * FloorPart \in Nat
    BY <1>1
  <2>4. n * FloorPart <= m * FloorPart /\ n * v <= m * v
    BY <1>1
  <2>5. CASE v < n * FloorPart
    <3>1. v < m * FloorPart
      BY <2>3, <2>4, <2>5
    <3> QED BY <1>1, <2>2, <2>5, <3>1
  <2>6. CASE ~(v < n * FloorPart)
    <3>1. ImpactFraction(n) = <<n, v>> /\ n <= v
      BY <2>2, <2>3, <2>6
    <3>2. CASE v < m * FloorPart
      <4>1. ImpactFraction(m) = <<1, FloorPart>>
        BY <2>2, <3>2
      <4>2. n * FloorPart <= 1 * v
        BY <2>3, <2>6
      <4> QED BY <3>1, <4>1, <4>2
    <3>3. CASE ~(v < m * FloorPart)
      <4>1. ImpactFraction(m) = <<m, v>>
        BY <2>2, <3>3
      <4> QED BY <2>4, <3>1, <4>1
    <3> QED BY <3>2, <3>3
  <2> QED BY <2>5, <2>6
<1> QED BY <1>2, <1>3

LEMMA Regrouped ==
  ASSUME NEW a \in Int, NEW b \in Int, NEW u \in Int, NEW v \in Int
  PROVE  (a * u) * (b * v) = (a * b) * (u * v)
<1>1. PICK x \in Int : x = b * v
  OBVIOUS
<1>2. (a * u) * x = a * (u * x)
  OBVIOUS
<1>3. u * (b * v) = b * (u * v)
  OBVIOUS
<1>4. PICK y \in Int : y = u * v
  OBVIOUS
<1>5. a * (b * y) = (a * b) * y
  OBVIOUS
<1> QED BY <1>1, <1>2, <1>3, <1>4, <1>5

LEMMA Differs ==
  ASSUME NEW a \in Int, NEW b \in Int, NEW u \in Int
  PROVE  (a - b) * u = a * u - b * u
OBVIOUS

LEMMA Products ==
  ASSUME NEW a \in Nat, NEW b \in Nat, NEW u \in Nat, NEW v \in Nat, a <= b, u <= v
  PROVE  a * u <= b * v
<1>1. PICK x \in Nat : b = a + x
  <2>1. b - a \in Nat /\ b = a + (b - a)
    OBVIOUS
  <2> QED BY <2>1
<1>2. PICK y \in Nat : v = u + y
  <2>1. v - u \in Nat /\ v = u + (v - u)
    OBVIOUS
  <2> QED BY <2>1
<1>3. b * v = a * u + a * y + x * u + x * y
  BY <1>1, <1>2
<1>4. a * u \in Nat /\ a * y \in Nat /\ x * u \in Nat /\ x * y \in Nat
  OBVIOUS
<1>5. PICK p, r, s, w \in Nat : p = a * u /\ r = a * y /\ s = x * u /\ w = x * y
  BY <1>4
<1>6. b * v = p + r + s + w
  BY <1>3, <1>5
<1> QED BY <1>5, <1>6

(* A fill is the average of the walk, moved against the trader by a part   *)
(* of it; a price is not negative, and the code's guard for that is idle.  *)
LEMMA PriceIsMoved ==
  ASSUME BookTyped, NEW side \in {"buy", "sell"}, NEW qty \in Nat \ {0},
         WalkBook(side, qty).cost \in Nat
  PROVE  LET cost == WalkBook(side, qty).cost
             f == ImpactFraction(cost * ContractSize)
         IN  /\ f[1] \in Nat /\ f[2] \in Nat \ {0} /\ f[1] <= f[2]
             /\ FillPrice(side, qty) =
                  <<cost * (IF side = "buy" THEN f[2] + f[1] ELSE f[2] - f[1]), qty * f[2]>>
<1>1. PICK cost \in Nat : cost = WalkBook(side, qty).cost
  OBVIOUS
<1>2. PICK f : f = ImpactFraction(cost * ContractSize)
  OBVIOUS
<1>3. cost * ContractSize \in Nat
  BY <1>1, SlippageBounds
<1>4. f[1] \in Nat /\ f[2] \in Nat \ {0} /\ f[1] <= f[2]
  BY <1>2, <1>3, ImpactGrows
<1>5. PICK n, d \in Nat : n = f[1] /\ d = f[2]
  BY <1>4
<1>6. CASE side = "buy"
  <2>1. ~(cost * (d + n) < 0)
    BY <1>1, <1>5
  <2> QED BY <1>1, <1>2, <1>4, <1>5, <1>6, <2>1 DEF FillPrice
<1>7. CASE side = "sell"
  <2>1. PICK r \in Nat : r = d - n
    BY <1>4, <1>5
  <2>2. d + (-n) = r
    BY <1>5, <2>1
  <2>3. ~(cost * r < 0)
    BY <1>1, <2>1
  <2> QED BY <1>1, <1>2, <1>4, <1>5, <1>7, <2>1, <2>2, <2>3 DEF FillPrice
<1> QED BY <1>6, <1>7

(* The impact is never in the trader's favour.                             *)
LEMMA ImpactIsACost ==
  ASSUME BookTyped, NEW side \in {"buy", "sell"}, NEW qty \in Nat \ {0},
         WalkBook(side, qty).cost \in Nat
  PROVE  ~Cheaper(side, FillPrice(side, qty), <<WalkBook(side, qty).cost, qty>>)
<1>1. PICK c \in Nat : c = WalkBook(side, qty).cost
  OBVIOUS
<1>2. PICK f : f = ImpactFraction(c * ContractSize)
  OBVIOUS
<1>3. /\ f[1] \in Nat /\ f[2] \in Nat \ {0} /\ f[1] <= f[2]
      /\ FillPrice(side, qty) = <<c * (IF side = "buy" THEN f[2] + f[1] ELSE f[2] - f[1]), qty * f[2]>>
  BY <1>1, <1>2, PriceIsMoved
<1>4. PICK n, d \in Nat : n = f[1] /\ d = f[2]
  BY <1>3
<1>5. c * (qty * d) = (c * qty) * d /\ c * qty \in Nat
  BY <1>1, <1>4
<1>6. CASE side = "buy"
  <2>1. FillPrice(side, qty) = <<c * (d + n), qty * d>>
    BY <1>3, <1>4, <1>6
  <2>2. (c * (d + n)) * qty = (c * qty) * (d + n)
    BY <1>1, <1>4
  <2>3. (c * qty) * d <= (c * qty) * (d + n)
    BY <1>4, <1>5, Products
  <2>4. (c * qty) * d \in Nat /\ (c * qty) * (d + n) \in Nat
    BY <1>4, <1>5
  <2> QED BY <1>1, <1>5, <1>6, <2>1, <2>2, <2>3, <2>4 DEF Cheaper, Less
<1>7. CASE side = "sell"
  <2>1. PICK r \in Nat : r = d - n /\ r <= d
    BY <1>3, <1>4
  <2>2. FillPrice(side, qty) = <<c * r, qty * d>>
    BY <1>3, <1>4, <1>7, <2>1
  <2>3. (c * r) * qty = (c * qty) * r
    BY <1>1, <2>1
  <2>4. (c * qty) * r <= (c * qty) * d
    BY <1>4, <1>5, <2>1, Products
  <2>5. (c * qty) * d \in Nat /\ (c * qty) * r \in Nat
    BY <1>4, <1>5
  <2> QED BY <1>1, <1>5, <1>7, <2>2, <2>3, <2>4, <2>5 DEF Cheaper, Less
<1> QED BY <1>6, <1>7

(* A larger order never gets a better price: its average is no better, and *)
(* the impact on it no smaller.                                            *)
LEMMA LargerIsNoBetter ==
  ASSUME BookTyped, NEW side \in {"buy", "sell"}, NEW qty \in Nat \ {0}, NEW q \in 1 .. (qty - 1),
         Ways(qty) # {}
  PROVE  ~Cheaper(side, FillPrice(side, qty), FillPrice(side, q))
<1>1. q \in Nat \ {0} /\ q < qty
  OBVIOUS
<1>2. PICK c, e \in Nat : /\ c = WalkBook(side, q).cost /\ e = WalkBook(side, qty).cost
                          /\ c <= e /\ NotBefore(side, e * q, c * qty)
  BY LargerIsDearer
<1>3. PICK f, g : f = ImpactFraction(c * ContractSize) /\ g = ImpactFraction(e * ContractSize)
  OBVIOUS
<1>4. /\ f[1] \in Nat /\ f[2] \in Nat \ {0} /\ f[1] <= f[2]
      /\ FillPrice(side, q) = <<c * (IF side = "buy" THEN f[2] + f[1] ELSE f[2] - f[1]), q * f[2]>>
  BY <1>1, <1>2, <1>3, PriceIsMoved
<1>5. /\ g[1] \in Nat /\ g[2] \in Nat \ {0} /\ g[1] <= g[2]
      /\ FillPrice(side, qty) = <<e * (IF side = "buy" THEN g[2] + g[1] ELSE g[2] - g[1]), qty * g[2]>>
  BY <1>2, <1>3, PriceIsMoved
<1>6. f[1] * g[2] <= g[1] * f[2]
  <2>1. c * ContractSize \in Nat /\ e * ContractSize \in Nat /\ c * ContractSize <= e * ContractSize
    BY <1>2, SlippageBounds
  <2> QED BY <1>3, <2>1, ImpactGrows
<1>7. PICK n, d, m, k \in Nat : n = f[1] /\ d = f[2] /\ m = g[1] /\ k = g[2] /\ n * k <= m * d
  BY <1>4, <1>5, <1>6
<1>8. e * q \in Nat /\ c * qty \in Nat
  BY <1>1, <1>2
<1>9. CASE side = "buy"
  <2>1. FillPrice(side, q) = <<c * (d + n), q * d>> /\ FillPrice(side, qty) = <<e * (k + m), qty * k>>
    BY <1>4, <1>5, <1>7, <1>9
  <2>2. (d + n) * k \in Nat /\ (k + m) * d \in Nat /\ (d + n) * k <= (k + m) * d
    <3>1. (d + n) * k = d * k + n * k /\ (k + m) * d = d * k + m * d
      BY <1>7
    <3>2. d * k \in Nat /\ n * k \in Nat /\ m * d \in Nat
      BY <1>7
    <3> QED BY <1>7, <3>1, <3>2
  <2>3. (c * qty) * ((d + n) * k) <= (e * q) * ((k + m) * d)
    <3>1. c * qty <= e * q
      BY <1>2, <1>8, <1>9 DEF NotBefore
    <3> QED BY <1>8, <2>2, <3>1, Products
  <2>4. (e * (k + m)) * (q * d) = (e * q) * ((k + m) * d)
    <3>1. k + m \in Int /\ e \in Int /\ q \in Int /\ d \in Int
      BY <1>1
    <3> QED BY <3>1, Regrouped
  <2>5. (c * (d + n)) * (qty * k) = (c * qty) * ((d + n) * k)
    <3>1. d + n \in Int /\ c \in Int /\ qty \in Int /\ k \in Int
      OBVIOUS
    <3> QED BY <3>1, Regrouped
  <2>6. (c * qty) * ((d + n) * k) \in Nat /\ (e * q) * ((k + m) * d) \in Nat
    BY <1>8, <2>2
  <2> QED BY <1>9, <2>1, <2>3, <2>4, <2>5, <2>6 DEF Cheaper, Less
<1>10. CASE side = "sell"
  <2>1. PICK r, s \in Nat : r = d - n /\ s = k - m
    BY <1>4, <1>5, <1>7
  <2>2. FillPrice(side, q) = <<c * r, q * d>> /\ FillPrice(side, qty) = <<e * s, qty * k>>
    BY <1>4, <1>5, <1>7, <1>10, <2>1
  <2>3. s * d \in Nat /\ r * k \in Nat /\ s * d <= r * k
    <3>1. s * d = d * k - m * d /\ r * k = d * k - n * k
      <4>1. (k - m) * d = k * d - m * d /\ (d - n) * k = d * k - n * k
        BY Differs
      <4>2. k * d = d * k
        OBVIOUS
      <4> QED BY <2>1, <4>1, <4>2
    <3>2. d * k \in Nat /\ n * k \in Nat /\ m * d \in Nat
      BY <1>7
    <3>3. s * d \in Nat /\ r * k \in Nat
      BY <1>7, <2>1
    <3> QED BY <1>7, <3>1, <3>2, <3>3
  <2>4. (e * q) * (s * d) <= (c * qty) * (r * k)
    <3>1. e * q <= c * qty
      BY <1>2, <1>8, <1>10 DEF NotBefore
    <3> QED BY <1>8, <2>3, <3>1, Products
  <2>5. (e * s) * (q * d) = (e * q) * (s * d)
    <3>1. s \in Int /\ e \in Int /\ q \in Int /\ d \in Int
      BY <1>1
    <3> QED BY <3>1, Regrouped
  <2>6. (c * r) * (qty * k) = (c * qty) * (r * k)
    <3>1. r \in Int /\ c \in Int /\ qty \in Int /\ k \in Int
      OBVIOUS
    <3> QED BY <3>1, Regrouped
  <2>7. (e * q) * (s * d) \in Nat /\ (c * qty) * (r * k) \in Nat
    BY <1>8, <2>3
  <2> QED BY <1>10, <2>2, <2>4, <2>5, <2>6, <2>7 DEF Cheaper, Less
<1> QED BY <1>9, <1>10

(* No way to take the quantity is better than what the walk took.          *)
LEMMA WalkIsBest ==
  ASSUME BookTyped, NEW side \in {"buy", "sell"}, NEW qty \in Nat \ {0}, NEW other \in Ways(qty)
  PROVE  ~Cheaper(side, <<Cost(other), qty>>, <<WalkBook(side, qty).cost, qty>>)
<1>1. Taking(other) /\ SumFunctionOnSet(other, levels) = qty
      /\ Cost(other) = SumFunctionOnSet(Costs(other), levels)
  BY WayFacts
<1>2. WalkBook(side, qty).remaining = 0 /\ WalkBook(side, qty).cost \in Nat
  BY DepthIsEnough, WalkFacts
<1>3. PICK last \in Nat :
        NotBefore(side, SumFunctionOnSet(Costs(other), levels) - WalkBook(side, qty).cost,
                  last * (SumFunctionOnSet(other, levels) - (qty - WalkBook(side, qty).remaining)))
  BY <1>1, WalkFacts
<1>4. PICK c \in Nat : c = WalkBook(side, qty).cost
  BY <1>2
<1>5. Cost(other) \in Nat
  <2>1. \A l \in levels : Costs(other)[l] \in Nat
    BY <1>1, LevelNumbers DEF Costs, Taking
  <2> QED BY <1>1, <2>1, SumNonNegative DEF BookTyped
<1>6. NotBefore(side, Cost(other) - c, 0)
  <2>1. last * (SumFunctionOnSet(other, levels) - (qty - WalkBook(side, qty).remaining)) = 0
    BY <1>1, <1>2
  <2> QED BY <1>1, <1>3, <1>4, <2>1
<1>7. PICK d \in Nat : d = Cost(other)
  BY <1>5
<1>8. CASE side = "buy"
  <2>1. c * qty <= d * qty
    BY <1>6, <1>7, <1>8 DEF NotBefore
  <2> QED BY <1>4, <1>7, <1>8, <2>1 DEF Cheaper, Less
<1>9. CASE side = "sell"
  <2>1. d * qty <= c * qty
    BY <1>6, <1>7, <1>9 DEF NotBefore
  <2> QED BY <1>4, <1>7, <1>9, <2>1 DEF Cheaper, Less
<1> QED BY <1>8, <1>9

LEMMA TypedFillsArePriced == BookTyped => FillsArePriced
<1> SUFFICES ASSUME BookTyped, NEW side \in {"buy", "sell"}, NEW qty \in 1 .. MaxOrder
             PROVE  /\ InsufficientDepth(side, qty) <=> Ways(qty) = {}
                    /\ Ways(qty) # {} =>
                         /\ \E take \in Ways(qty) : WalkBook(side, qty).cost = Cost(take)
                         /\ \A take \in Ways(qty) :
                              ~Cheaper(side, <<Cost(take), qty>>, <<WalkBook(side, qty).cost, qty>>)
                         /\ ~Cheaper(side, FillPrice(side, qty), <<WalkBook(side, qty).cost, qty>>)
                         /\ \A q \in 1 .. (qty - 1) :
                              ~Cheaper(side, FillPrice(side, qty), FillPrice(side, q))
  BY Zenon DEF FillsArePriced, Cheaper
<1>1. qty \in Nat \ {0}
  BY SlippageBounds
<1>2. WalkBook(side, qty).cost \in Nat
  BY <1>1, WalkFacts
<1> QED BY <1>1, <1>2, DepthIsEnough, WalkIsBest, ImpactIsACost, LargerIsNoBetter

LEMMA BookIsTyped == SlippageSpec => []BookTyped
<1>1. SlippageInit => BookTyped
  BY FS_EmptySet DEF SlippageInit, BookTyped
<1>2. BookTyped /\ [LevelListed]_slippageVars => BookTyped'
  <2> SUFFICES ASSUME BookTyped, [LevelListed]_slippageVars PROVE BookTyped'
    OBVIOUS
  <2>1. CASE LevelListed
    BY <2>1, FS_AddElement DEF LevelListed, BookTyped
  <2>2. CASE UNCHANGED slippageVars
    BY <2>2 DEF slippageVars, BookTyped
  <2> QED BY <2>1, <2>2
<1> QED BY <1>1, <1>2, PTL DEF SlippageSpec

(* However the book looks, a fill takes the best prices there are and is   *)
(* refused only when the book is too small, a larger order never gets a    *)
(* better price, and the impact is never in the trader's favour            *)
(* (slippage.py:50-115).                                                   *)
THEOREM FillsAreBest == SlippageSpec => []FillsArePriced
BY BookIsTyped, TypedFillsArePriced, PTL

=============================================================================
