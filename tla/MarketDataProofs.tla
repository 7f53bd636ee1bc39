-------------------------- MODULE MarketDataProofs ---------------------------
(***************************************************************************)
(* Proofs about MinuteBars, for all symbols, minutes, ticks and failures.  *)
(* A bar is followed by one expression, Readded: what the buffer would hold *)
(* if the flush in progress failed now.  Draining and putting back leave it *)
(* alone, because merge_older commutes with update.  And about Feed,       *)
(* WsClient and the run of all three, for any channels, handlers, topics,  *)
(* views, frames and faults.                                               *)
(***************************************************************************)
EXTENDS MCMarketData, FiniteSetTheorems, TLAPS

-----------------------------------------------------------------------------
(* Accumulators *)

\* update gives an accumulator.
LEMMA UpdateType ==
    ASSUME NEW bar \in Bars, NEW t \in Ticks
    PROVE  Update(bar, t) \in Bars
BY DEF Update, Bars, Ticks, Else, Higher, Lower

\* merge_older gives an accumulator.
LEMMA MergeType ==
    ASSUME NEW bar \in Bars, NEW older \in Bars
    PROVE  MergeOlder(bar, older) \in Bars
BY DEF MergeOlder, Bars, Else, Higher, Lower

LEMMA EmptyType == EmptyBar \in Bars
BY DEF EmptyBar, Bars

\* A new accumulator adds nothing to an older one.
LEMMA MergeEmpty ==
    ASSUME NEW older \in Bars
    PROVE  MergeOlder(EmptyBar, older) = older
BY DEF MergeOlder, EmptyBar, Bars, Else, Higher, Lower

\* Absent marks are neutral in Higher and Lower, which are associative.
LEMMA HigherAssociates ==
    ASSUME NEW a \in Marks \cup {NoValue}, NEW b \in Marks \cup {NoValue},
           NEW c \in Marks \cup {NoValue}
    PROVE  /\ Higher(Higher(a, c), b) = Higher(Higher(a, b), c)
           /\ Lower(Lower(a, c), b) = Lower(Lower(a, b), c)
BY BarsAssumption DEF BarsAssumption, Higher, Lower, Else

\* Updating and then merging what is older is merging it and then updating.
LEMMA MergeThenUpdate ==
    ASSUME NEW bar \in Bars, NEW older \in Bars, NEW t \in Ticks
    PROVE  MergeOlder(Update(bar, t), older) = Update(MergeOlder(bar, older), t)
<1>1. /\ bar.high \in Marks \cup {NoValue} /\ older.high \in Marks \cup {NoValue}
      /\ bar.low \in Marks \cup {NoValue} /\ older.low \in Marks \cup {NoValue}
      /\ t.mark \in Marks \cup {NoValue}
  BY DEF Bars, Ticks
<1>2. /\ Higher(Higher(bar.high, t.mark), older.high) = Higher(Higher(bar.high, older.high), t.mark)
      /\ Lower(Lower(bar.low, t.mark), older.low) = Lower(Lower(bar.low, older.low), t.mark)
  BY <1>1, HigherAssociates
<1>3. /\ Else(older.open, Else(bar.open, t.mark)) = Else(Else(older.open, bar.open), t.mark)
      /\ Else(Else(t.mark, bar.close), older.close) = Else(t.mark, Else(bar.close, older.close))
      /\ Else(Else(t.iv, bar.iv), older.iv) = Else(t.iv, Else(bar.iv, older.iv))
  BY DEF Else
<1> QED BY <1>2, <1>3 DEF MergeOlder, Update
-----------------------------------------------------------------------------
(* The bar of a sequence of ticks *)

\* The empty accumulator is the bar of no ticks.
LEMMA BarOfNothing == IsBarOf(EmptyBar, <<>>)
BY DEF IsBarOf, EmptyBar, Marked, Rated

\* The ticks of Append(s, t) with a mark, or with a volatility.
LEMMA AppendTicks ==
    ASSUME NEW s \in Seq(Ticks), NEW t \in Ticks
    PROVE  /\ Marked(Append(s, t)) = Marked(s) \cup (IF t.mark = NoValue THEN {} ELSE {Len(s) + 1})
           /\ Rated(Append(s, t)) = Rated(s) \cup (IF t.iv = NoValue THEN {} ELSE {Len(s) + 1})
           /\ Append(s, t)[Len(s) + 1] = t
           /\ \A i \in DOMAIN s : Append(s, t)[i] = s[i]
           /\ DOMAIN s = 1 .. Len(s) /\ Len(s) \in Nat
           /\ \A i \in DOMAIN s : s[i] \in Ticks
BY DEF Marked, Rated

\* update makes of the bar of some ticks the bar of one tick more.
LEMMA BarOfAppend ==
    ASSUME NEW s \in Seq(Ticks), NEW t \in Ticks, NEW bar \in Bars, IsBarOf(bar, s)
    PROVE  IsBarOf(Update(bar, t), Append(s, t))
<1> DEFINE n == Len(s) + 1
           a == Append(s, t)
           b == Update(bar, t)
<1>1. /\ Marked(a) = Marked(s) \cup (IF t.mark = NoValue THEN {} ELSE {n})
      /\ Rated(a) = Rated(s) \cup (IF t.iv = NoValue THEN {} ELSE {n})
      /\ a[n] = t
      /\ \A i \in DOMAIN s : a[i] = s[i]
  BY AppendTicks
<1>2. DOMAIN s = 1 .. Len(s) /\ n \in Nat /\ \A i \in 1 .. Len(s) : i <= n /\ ~(n <= i)
  BY AppendTicks
<1>3. /\ Marked(s) \subseteq DOMAIN s /\ Rated(s) \subseteq DOMAIN s
      /\ \A i \in Marked(s) : a[i] = s[i] /\ s[i].mark \in Int /\ s[i].mark # NoValue /\ i \in Nat /\ i <= n
      /\ \A i \in Rated(s) : a[i] = s[i] /\ s[i].iv # NoValue /\ i \in Nat /\ i <= n
  <2>1. \A u \in Ticks : u.mark # NoValue => u.mark \in Int
    BY BarsAssumption DEF Ticks, BarsAssumption
  <2>2. \A i \in DOMAIN s : s[i] \in Ticks
    BY AppendTicks
  <2>3. /\ Marked(s) \subseteq DOMAIN s /\ Rated(s) \subseteq DOMAIN s
        /\ \A i \in Marked(s) : s[i].mark # NoValue
        /\ \A i \in Rated(s) : s[i].iv # NoValue
    BY DEF Marked, Rated
  <2>4. \A i \in DOMAIN s : i \in Nat /\ i <= n
    BY <1>2
  <2> HIDE DEF n, a
  <2> QED BY <1>1, <2>1, <2>2, <2>3, <2>4
<1>4. /\ b.open = Else(bar.open, t.mark) /\ b.close = Else(t.mark, bar.close)
      /\ b.high = Higher(bar.high, t.mark) /\ b.low = Lower(bar.low, t.mark)
      /\ b.iv = Else(t.iv, bar.iv)
  BY DEF Update
<1>5. t.mark # NoValue => t.mark \in Int
  BY BarsAssumption DEF Ticks, BarsAssumption
<1> HIDE DEF n, a, b
<1>6. IF Rated(a) = {} THEN b.iv = NoValue
      ELSE \E i \in Rated(a) : b.iv = a[i].iv /\ \A j \in Rated(a) : j <= i
  <2>1. CASE t.iv = NoValue
    BY <2>1, <1>1, <1>3, <1>4 DEF IsBarOf, Else
  <2>2. CASE t.iv # NoValue
    <3>1. n \in Rated(a) /\ b.iv = a[n].iv
      BY <2>2, <1>1, <1>4 DEF Else
    <3>2. \A j \in Rated(a) : j <= n
      BY <2>2, <1>1, <1>2, <1>3
    <3> QED BY <3>1, <3>2
  <2> QED BY <2>1, <2>2
<1>7. CASE t.mark = NoValue
  <2>1. b.open = bar.open /\ b.close = bar.close /\ b.high = bar.high /\ b.low = bar.low
    BY <1>7, <1>4 DEF Else, Higher, Lower
  <2>2. Marked(a) = Marked(s) /\ \A i \in Marked(s) : a[i] = s[i]
    BY <1>7, <1>1, <1>3
  <2>3. IF Marked(a) = {}
        THEN b.open = NoValue /\ b.close = NoValue /\ b.high = NoValue /\ b.low = NoValue
        ELSE /\ \E i \in Marked(a) : b.open = a[i].mark /\ \A j \in Marked(a) : i <= j
             /\ \E i \in Marked(a) : b.close = a[i].mark /\ \A j \in Marked(a) : j <= i
             /\ \E i \in Marked(a) : b.high = a[i].mark /\ \A j \in Marked(a) : a[j].mark <= a[i].mark
             /\ \E i \in Marked(a) : b.low = a[i].mark /\ \A j \in Marked(a) : a[i].mark <= a[j].mark
    <3>1. CASE Marked(s) = {}
      BY <3>1, <2>1, <2>2 DEF IsBarOf
    <3>2. CASE Marked(s) # {}
      <4>1. \E i \in Marked(a) : b.open = a[i].mark /\ \A j \in Marked(a) : i <= j
        BY <3>2, <2>1, <2>2 DEF IsBarOf
      <4>2. \E i \in Marked(a) : b.close = a[i].mark /\ \A j \in Marked(a) : j <= i
        BY <3>2, <2>1, <2>2 DEF IsBarOf
      <4>3. \E i \in Marked(a) : b.high = a[i].mark /\ \A j \in Marked(a) : a[j].mark <= a[i].mark
        BY <3>2, <2>1, <2>2 DEF IsBarOf
      <4>4. \E i \in Marked(a) : b.low = a[i].mark /\ \A j \in Marked(a) : a[i].mark <= a[j].mark
        BY <3>2, <2>1, <2>2 DEF IsBarOf
      <4> QED BY <3>2, <2>2, <4>1, <4>2, <4>3, <4>4
    <3> QED BY <3>1, <3>2
  <2>4. IsBarOf(b, a)
    BY <1>6, <2>3 DEF IsBarOf
  <2> QED BY <2>4 DEF a, b
<1>8. CASE t.mark # NoValue /\ Marked(s) = {}
  <2>1. b.open = t.mark /\ b.close = t.mark /\ b.high = t.mark /\ b.low = t.mark
    BY <1>8, <1>4 DEF IsBarOf, Else, Higher, Lower
  <2>2. Marked(a) = {n} /\ a[n] = t /\ n <= n /\ t.mark <= t.mark
    BY <1>8, <1>1, <1>2, <1>5
  <2>3. IsBarOf(b, a)
    BY <1>6, <2>1, <2>2 DEF IsBarOf
  <2> QED BY <2>3 DEF a, b
<1>9. CASE t.mark # NoValue /\ Marked(s) # {}
  <2>1. Marked(a) = Marked(s) \cup {n} /\ a[n] = t
    BY <1>9, <1>1
  <2>2. \E i \in Marked(a) : b.open = a[i].mark /\ \A j \in Marked(a) : i <= j
    <3>1. PICK i \in Marked(s) : bar.open = s[i].mark /\ \A j \in Marked(s) : i <= j
      BY <1>9 DEF IsBarOf
    <3> QED BY <3>1, <2>1, <1>3, <1>4 DEF Else
  <2>3. \E i \in Marked(a) : b.close = a[i].mark /\ \A j \in Marked(a) : j <= i
    <3>1. b.close = a[n].mark /\ \A j \in Marked(a) : j <= n
      BY <1>9, <2>1, <1>2, <1>3, <1>4 DEF Else
    <3> QED BY <3>1, <2>1
  <2>4. \E i \in Marked(a) : b.high = a[i].mark /\ \A j \in Marked(a) : a[j].mark <= a[i].mark
    <3>1. PICK i \in Marked(s) : bar.high = s[i].mark /\ \A j \in Marked(s) : s[j].mark <= s[i].mark
      BY <1>9 DEF IsBarOf
    <3>2. b.high = IF s[i].mark >= t.mark THEN s[i].mark ELSE t.mark
      BY <3>1, <1>3, <1>4, <1>9 DEF Higher
    <3>3. s[i].mark \in Int /\ t.mark \in Int
      BY <1>3, <1>5, <1>9
    <3>4. CASE s[i].mark >= t.mark
      <4>1. b.high = a[i].mark /\ \A j \in Marked(a) : a[j].mark <= a[i].mark
        BY <3>1, <3>2, <3>3, <3>4, <2>1, <1>3
      <4> QED BY <4>1, <2>1
    <3>5. CASE ~(s[i].mark >= t.mark)
      <4>1. b.high = a[n].mark /\ \A j \in Marked(a) : a[j].mark <= a[n].mark
        BY <3>1, <3>2, <3>3, <3>5, <2>1, <1>3
      <4> QED BY <4>1, <2>1
    <3> QED BY <3>4, <3>5
  <2>5. \E i \in Marked(a) : b.low = a[i].mark /\ \A j \in Marked(a) : a[i].mark <= a[j].mark
    <3>1. PICK i \in Marked(s) : bar.low = s[i].mark /\ \A j \in Marked(s) : s[i].mark <= s[j].mark
      BY <1>9 DEF IsBarOf
    <3>2. b.low = IF s[i].mark <= t.mark THEN s[i].mark ELSE t.mark
      BY <3>1, <1>3, <1>4, <1>9 DEF Lower
    <3>3. s[i].mark \in Int /\ t.mark \in Int
      BY <1>3, <1>5, <1>9
    <3>4. CASE s[i].mark <= t.mark
      <4>1. b.low = a[i].mark /\ \A j \in Marked(a) : a[i].mark <= a[j].mark
        BY <3>1, <3>2, <3>3, <3>4, <2>1, <1>3
      <4> QED BY <4>1, <2>1
    <3>5. CASE ~(s[i].mark <= t.mark)
      <4>1. b.low = a[n].mark /\ \A j \in Marked(a) : a[n].mark <= a[j].mark
        BY <3>1, <3>2, <3>3, <3>5, <2>1, <1>3
      <4> QED BY <4>1, <2>1
    <3> QED BY <3>4, <3>5
  <2>6. IsBarOf(b, a)
    BY <1>6, <2>1, <2>2, <2>3, <2>4, <2>5 DEF IsBarOf
  <2> QED BY <2>6 DEF a, b
<1> QED BY <1>7, <1>8, <1>9 DEF a, b

-----------------------------------------------------------------------------
(* Types *)

\* merge_older and update leave accumulators in the buffer; what a failed flush
\* puts back is one.
LEMMA ReaddedType ==
    ASSUME TypeOK, NEW k \in Keys
    PROVE  /\ Readded(k) \in Bars \cup {NoBar}
           /\ Readded(k) = NoBar <=> buffer[k] = NoBar /\ flush.drained[k] = NoBar
<1>1. /\ buffer[k] \in Bars \cup {NoBar}
      /\ flush.drained[k] \in Bars \cup {NoBar}
      /\ NoBar \notin Bars
  BY BarsAssumption DEF TypeOK, BarsAssumption
<1>2. CASE buffer[k] # NoBar /\ flush.drained[k] # NoBar
  <2>1. MergeOlder(buffer[k], flush.drained[k]) \in Bars
    BY <1>1, <1>2, MergeType
  <2> QED BY <1>1, <1>2, <2>1 DEF Readded
<1>3. CASE buffer[k] = NoBar \/ flush.drained[k] = NoBar
  BY <1>1, <1>3 DEF Readded
<1> QED BY <1>2, <1>3

\* The state, the ticks seen and what has been drained have their types, and
\* only closed minutes are ever being flushed (drain_closed).
THEOREM TypeCorrect == Spec => []TypeOK
<1>1. Init => TypeOK
  <2> SUFFICES ASSUME Init PROVE TypeOK
    OBVIOUS
  <2>1. Idle \in [pc : {"sleep", "write", "close"}, drained : [Keys -> Bars \cup {NoBar}]]
    BY DEF Idle
  <2>2. Held(Idle.drained) = {}
    BY DEF Held, Idle
  <2>3. 1 \in 1 .. LastMinute + 1 /\ 0 \in 0 .. MaxFaults /\ 0 \in 0 .. MaxRestarts
    BY BarsAssumption DEF BarsAssumption
  <2>4. seen \in [Keys -> Seq(Ticks)]
    BY DEF Init
  <2> QED BY <2>1, <2>2, <2>3, <2>4 DEF Init, TypeOK
<1>2. TypeOK /\ [Next]_vars => TypeOK'
  <2> SUFFICES ASSUME TypeOK, [Next]_vars PROVE TypeOK'
    OBVIOUS
  <2>0. /\ LastMinute \in Nat /\ MaxFaults \in Nat /\ MaxRestarts \in Nat
        /\ \A k \in Keys : k[2] \in Nat
    BY BarsAssumption DEF BarsAssumption, Keys
  <2>1. ASSUME NEW k \in Keys, NEW t \in Ticks, Add(k, t) PROVE TypeOK'
    <3>1. Update(IF buffer[k] = NoBar THEN EmptyBar ELSE buffer[k], t) \in Bars
      BY UpdateType, EmptyType DEF TypeOK
    <3>2. buffer' \in [Keys -> Bars \cup {NoBar}]
      BY <2>1, <3>1 DEF Add, TypeOK
    <3>3. seen' \in [Keys -> Seq(Ticks)]
      <4>1. seen[k] \in Seq(Ticks)
        BY DEF TypeOK
      <4>2. Append(seen[k], t) \in Seq(Ticks)
        BY <4>1
      <4> QED BY <2>1, <4>2 DEF Add, TypeOK
    <3>4. torn' \subseteq Keys
      BY <2>1 DEF Add, TypeOK
    <3> QED BY <2>1, <3>2, <3>3, <3>4 DEF Add, TypeOK, Held
  <2>2. CASE NextMinute
    <3>1. now' \in 1 .. LastMinute + 1 /\ \A k \in Keys : k[2] < now => k[2] < now'
      BY <2>2, <2>0 DEF NextMinute, TypeOK
    <3> QED BY <2>2, <3>1 DEF NextMinute, TypeOK, Held
  <2>3. CASE Drain
    <3>1. buffer' \in [Keys -> Bars \cup {NoBar}]
      BY <2>3 DEF Drain, TypeOK
    <3>2. flush' \in [pc : {"sleep", "write", "close"}, drained : [Keys -> Bars \cup {NoBar}]]
      BY <2>3 DEF Drain, TypeOK
    <3>3. \A k \in Held(flush'.drained) : k[2] < now
      BY <2>3 DEF Drain, Held, Drained, Closed
    <3> QED BY <2>3, <3>1, <3>2, <3>3 DEF Drain, TypeOK, Held
  <2>4. CASE Write
    <3>1. /\ flush' \in [pc : {"sleep", "write", "close"}, drained : [Keys -> Bars \cup {NoBar}]]
          /\ flush'.drained = flush.drained
      BY <2>4 DEF Write, TypeOK
    <3>2. table' \in [Keys -> Bars \cup {NoBar}]
      BY <2>4 DEF Write, TypeOK
    <3> QED BY <2>4, <3>1, <3>2 DEF Write, TypeOK, Held
  <2>5. Idle \in [pc : {"sleep", "write", "close"}, drained : [Keys -> Bars \cup {NoBar}]]
        /\ Held(Idle.drained) = {}
    BY DEF Idle, Held
  <2>6. CASE Saved
    <3>1. saved' \subseteq Keys /\ torn' \subseteq Keys
      BY <2>6 DEF Saved, TypeOK, Held
    <3> QED BY <2>6, <2>5, <3>1 DEF Saved, TypeOK, Held
  <2>7. CASE FlushFails
    <3>1. buffer' \in [Keys -> Bars \cup {NoBar}]
      BY <2>7, ReaddedType DEF FlushFails
    <3>2. used' \in [faults : 0 .. MaxFaults, restarts : 0 .. MaxRestarts]
      <4>1. /\ used \in [faults : 0 .. MaxFaults, restarts : 0 .. MaxRestarts]
            /\ used' = [used EXCEPT !.faults = @ + 1] /\ used.faults < MaxFaults
        BY <2>7 DEF FlushFails, TypeOK
      <4>2. used.faults + 1 \in 0 .. MaxFaults
        BY <4>1, <2>0
      <4> QED BY <4>1, <4>2
    <3> QED BY <2>7, <2>5, <3>1, <3>2 DEF FlushFails, TypeOK, Held
  <2>8. CASE Restart
    <3>1. buffer' \in [Keys -> Bars \cup {NoBar}]
      BY <2>8 DEF Restart
    <3>2. used' \in [faults : 0 .. MaxFaults, restarts : 0 .. MaxRestarts]
      <4>1. /\ used \in [faults : 0 .. MaxFaults, restarts : 0 .. MaxRestarts]
            /\ used' = [used EXCEPT !.restarts = @ + 1] /\ used.restarts < MaxRestarts
        BY <2>8 DEF Restart, TypeOK
      <4>2. used.restarts + 1 \in 0 .. MaxRestarts
        BY <4>1, <2>0
      <4> QED BY <4>1, <4>2
    <3>3. torn' \subseteq Keys
      BY <2>8 DEF Restart, TypeOK, Held
    <3> QED BY <2>8, <2>5, <3>1, <3>2, <3>3 DEF Restart, TypeOK, Held
  <2>9. CASE UNCHANGED vars
    BY <2>9 DEF vars, TypeOK, Held
  <2> QED BY <2>1, <2>2, <2>3, <2>4, <2>6, <2>7, <2>8, <2>9 DEF Next, Aggregate
<1> QED BY <1>1, <1>2, PTL DEF Spec

-----------------------------------------------------------------------------
(* Bars *)

\* What a flush holds: nothing while the aggregator sleeps, and what it has
\* written when it is about to close the connection.
FlushInv ==
    /\ flush.pc = "sleep" => \A k \in Keys : flush.drained[k] = NoBar
    /\ flush.pc = "close" =>
           \A k \in Keys : flush.drained[k] # NoBar => table[k] = flush.drained[k]

\* A row is confirmed, or will be, or is torn; a confirmed row that is not torn
\* is all there is.
RowInv ==
    \A k \in Keys :
        /\ table[k] # NoBar /\ Readded(k) = NoBar => k \in saved \cup torn
        /\ k \in saved => table[k] # NoBar
        /\ k \in saved /\ k \notin torn => Readded(k) = NoBar

BarsInv == FlushInv /\ RowInv /\ BarsAreWhole


\* A tick goes into what the bar is, wherever its older part is.
LEMMA AddReadded ==
    ASSUME TypeOK, NEW k \in Keys, NEW t \in Ticks, Add(k, t)
    PROVE  /\ Readded(k)' = Update(IF Readded(k) = NoBar THEN EmptyBar ELSE Readded(k), t)
           /\ \A j \in Keys : j # k => Readded(j)' = Readded(j)
<1> DEFINE old == IF buffer[k] = NoBar THEN EmptyBar ELSE buffer[k]
<1>1. /\ buffer'[k] = Update(old, t)
      /\ \A j \in Keys : j # k => buffer'[j] = buffer[j]
      /\ flush' = flush
  BY DEF Add, TypeOK
<1>2. /\ buffer[k] \in Bars \cup {NoBar} /\ old \in Bars
      /\ flush.drained[k] \in Bars \cup {NoBar}
      /\ NoBar \notin Bars
  BY EmptyType, BarsAssumption DEF TypeOK, BarsAssumption
<1>3. Update(old, t) # NoBar
  BY <1>2, UpdateType
<1>4. \A j \in Keys : j # k => Readded(j)' = Readded(j)
  BY <1>1 DEF Readded
<1>5. CASE flush.drained[k] = NoBar
  BY <1>1, <1>4, <1>5 DEF Readded
<1>6. CASE flush.drained[k] # NoBar
  <2>1. Readded(k)' = MergeOlder(Update(old, t), flush.drained[k])
    BY <1>1, <1>3, <1>6 DEF Readded
  <2>2. MergeOlder(Update(old, t), flush.drained[k]) = Update(MergeOlder(old, flush.drained[k]), t)
    BY <1>2, <1>6, MergeThenUpdate
  <2>3. Readded(k) # NoBar /\ Readded(k) = MergeOlder(old, flush.drained[k])
    BY <1>2, <1>6, MergeEmpty, ReaddedType DEF Readded
  <2> QED BY <1>4, <2>1, <2>2, <2>3
<1> QED BY <1>5, <1>6

LEMMA AddBars ==
    ASSUME TypeOK, BarsInv, NEW k \in Keys, NEW t \in Ticks, Add(k, t)
    PROVE  BarsInv'
<1>1. /\ UNCHANGED <<flush, table, saved>>
      /\ torn \subseteq torn' /\ (k \in saved => k \in torn')
      /\ seen'[k] = Append(seen[k], t) /\ \A j \in Keys : j # k => seen'[j] = seen[j]
      /\ seen[k] \in Seq(Ticks)
  BY DEF Add, TypeOK
<1>2. /\ Readded(k)' = Update(IF Readded(k) = NoBar THEN EmptyBar ELSE Readded(k), t)
      /\ \A j \in Keys : j # k => Readded(j)' = Readded(j)
  BY AddReadded
<1>3. /\ Readded(k) \in Bars \cup {NoBar}
      /\ Readded(k)' \in Bars /\ Readded(k)' # NoBar
  BY <1>2, ReaddedType, EmptyType, UpdateType, BarsAssumption DEF BarsAssumption
<1>4. FlushInv'
  BY <1>1 DEF BarsInv, FlushInv
<1>5. RowInv'
  <2> SUFFICES ASSUME NEW j \in Keys
               PROVE  /\ table'[j] # NoBar /\ Readded(j)' = NoBar => j \in saved' \cup torn'
                      /\ j \in saved' => table'[j] # NoBar
                      /\ j \in saved' /\ j \notin torn' => Readded(j)' = NoBar
    BY DEF RowInv
  <2> QED BY <1>1, <1>2, <1>3 DEF BarsInv, RowInv
<1>6. BarsAreWhole'
  <2> SUFFICES ASSUME NEW j \in Keys, j \notin torn'
               PROVE  IF seen'[j] = <<>> THEN Whole(j)' = NoBar
                      ELSE Whole(j)' # NoBar /\ IsBarOf(Whole(j)', seen'[j])
    BY DEF BarsAreWhole, IsBarOf, Marked, Rated
  <2>1. CASE j # k
    <3>1. Whole(j)' = Whole(j) /\ seen'[j] = seen[j] /\ j \notin torn
      BY <1>1, <1>2, <2>1 DEF Whole
    <3> QED BY <3>1 DEF BarsInv, BarsAreWhole
  <2>2. CASE j = k
    <3>1. Whole(k)' = Readded(k)' /\ Whole(k)' # NoBar
      BY <1>3 DEF Whole
    <3>2. seen'[k] # <<>>
      BY <1>1
    <3>3. k \notin torn /\ k \notin saved
      BY <1>1, <2>2
    <3>4. CASE Readded(k) = NoBar
      <4>1. Whole(k) = NoBar
        BY <3>3, <3>4 DEF BarsInv, RowInv, Whole
      <4>2. seen[k] = <<>>
        BY <3>3, <4>1 DEF BarsInv, BarsAreWhole
      <4>3. IsBarOf(Update(EmptyBar, t), Append(seen[k], t))
        BY <1>1, <4>2, BarOfNothing, EmptyType, BarOfAppend
      <4> QED BY <1>1, <1>2, <2>2, <3>1, <3>2, <3>4, <4>3
    <3>5. CASE Readded(k) # NoBar
      <4>1. IsBarOf(Readded(k), seen[k])
        BY <3>3, <3>5 DEF BarsInv, BarsAreWhole, Whole
      <4>2. IsBarOf(Update(Readded(k), t), Append(seen[k], t))
        BY <1>1, <1>3, <3>5, <4>1, BarOfAppend
      <4> QED BY <1>1, <1>2, <2>2, <3>1, <3>2, <3>5, <4>2
    <3> QED BY <3>4, <3>5
  <2> QED BY <2>1, <2>2
<1> QED BY <1>4, <1>5, <1>6 DEF BarsInv

\* A step that takes no tick and leaves every bar where it can be found.
LEMMA QuietBars ==
    ASSUME BarsAreWhole, seen' = seen, torn \subseteq torn',
           \A k \in Keys : k \notin torn' => Whole(k)' = Whole(k)
    PROVE  BarsAreWhole'
<1> SUFFICES ASSUME NEW k \in Keys, k \notin torn'
             PROVE  IF seen'[k] = <<>> THEN Whole(k)' = NoBar
                    ELSE Whole(k)' # NoBar /\ IsBarOf(Whole(k)', seen'[k])
  BY DEF BarsAreWhole, IsBarOf, Marked, Rated
<1>1. Whole(k)' = Whole(k) /\ seen'[k] = seen[k] /\ k \notin torn
  OBVIOUS
<1> QED BY <1>1 DEF BarsAreWhole

\* Draining takes bars from the buffer into the flush.
LEMMA DrainBars ==
    ASSUME TypeOK, BarsInv, Drain
    PROVE  BarsInv'
<1>1. \A k \in Keys : Readded(k)' = Readded(k)
  BY DEF BarsInv, FlushInv, Drain, Readded, Drained, Held, TypeOK
<1>2. UNCHANGED <<table, seen, saved, torn>>
  BY DEF Drain
<1>3. FlushInv'
  BY DEF Drain, FlushInv
<1>4. RowInv'
  BY <1>1, <1>2 DEF BarsInv, RowInv
<1>5. \A k \in Keys : Whole(k)' = Whole(k)
  BY <1>1, <1>2 DEF Whole
<1> QED BY <1>2, <1>3, <1>4, <1>5, QuietBars DEF BarsInv

\* The commit writes rows whose bars are still in the flush.
LEMMA WriteBars ==
    ASSUME TypeOK, BarsInv, Write
    PROVE  BarsInv'
<1>1. /\ flush'.pc = "close" /\ flush'.drained = flush.drained
      /\ UNCHANGED <<buffer, seen, saved, torn>>
      /\ \A k \in Keys : table'[k] = IF flush.drained[k] # NoBar THEN flush.drained[k] ELSE table[k]
  BY DEF Write, TypeOK
<1>2. \A k \in Keys : Readded(k)' = Readded(k)
  BY <1>1 DEF Readded
<1>3. FlushInv'
  BY <1>1 DEF FlushInv
<1>4. \A k \in Keys : table'[k] = table[k] \/ (Readded(k) # NoBar /\ table'[k] # NoBar)
  BY <1>1, ReaddedType
<1>5. RowInv'
  <2> SUFFICES ASSUME NEW k \in Keys
               PROVE  /\ table'[k] # NoBar /\ Readded(k)' = NoBar => k \in saved' \cup torn'
                      /\ k \in saved' => table'[k] # NoBar
                      /\ k \in saved' /\ k \notin torn' => Readded(k)' = NoBar
    BY DEF RowInv
  <2> QED BY <1>1, <1>2, <1>4 DEF BarsInv, RowInv
<1>6. \A k \in Keys : Whole(k)' = Whole(k)
  BY <1>2, <1>4 DEF Whole
<1> QED BY <1>1, <1>3, <1>5, <1>6, QuietBars DEF BarsInv

\* Once the flush has returned, the row is the bar, unless a tick came meanwhile.
LEMMA SavedBars ==
    ASSUME TypeOK, BarsInv, Saved
    PROVE  BarsInv'
<1>1. /\ flush'.pc = "sleep" /\ \A k \in Keys : flush'.drained[k] = NoBar
      /\ UNCHANGED <<buffer, table, seen>>
      /\ saved' = saved \cup Held(flush.drained)
      /\ torn' = torn \cup (Held(flush.drained) \cap Held(buffer))
  BY DEF Saved, Idle
<1>2. \A k \in Keys : Readded(k)' = buffer[k]
  BY <1>1 DEF Readded
<1>3. FlushInv'
  BY <1>1 DEF FlushInv
<1>4. \A k \in Keys : flush.drained[k] # NoBar => table[k] = flush.drained[k]
  BY DEF BarsInv, FlushInv, Saved
<1>5. RowInv'
  <2> SUFFICES ASSUME NEW k \in Keys
               PROVE  /\ table'[k] # NoBar /\ Readded(k)' = NoBar => k \in saved' \cup torn'
                      /\ k \in saved' => table'[k] # NoBar
                      /\ k \in saved' /\ k \notin torn' => Readded(k)' = NoBar
    BY DEF RowInv
  <2>1. CASE flush.drained[k] = NoBar
    BY <1>1, <1>2, <2>1, ReaddedType DEF BarsInv, RowInv, Held
  <2>2. CASE flush.drained[k] # NoBar
    BY <1>1, <1>2, <1>4, <2>2 DEF Held
  <2> QED BY <2>1, <2>2
<1>6. \A k \in Keys : k \notin torn' => Whole(k)' = Whole(k)
  <2> SUFFICES ASSUME NEW k \in Keys, k \notin torn' PROVE Whole(k)' = Whole(k)
    OBVIOUS
  <2>1. CASE flush.drained[k] = NoBar
    BY <1>1, <1>2, <2>1 DEF Whole, Readded
  <2>2. CASE flush.drained[k] # NoBar
    <3>1. buffer[k] = NoBar
      BY <1>1, <2>2 DEF Held
    <3> QED BY <1>1, <1>2, <1>4, <2>2, <3>1 DEF Whole, Readded
  <2> QED BY <2>1, <2>2
<1> QED BY <1>1, <1>3, <1>5, <1>6, QuietBars DEF BarsInv

\* A failed flush puts back what Readded says.
LEMMA FailBars ==
    ASSUME TypeOK, BarsInv, FlushFails
    PROVE  BarsInv'
<1>1. /\ flush'.pc = "sleep" /\ \A k \in Keys : flush'.drained[k] = NoBar
      /\ \A k \in Keys : buffer'[k] = Readded(k)
      /\ UNCHANGED <<table, seen, saved, torn>>
  BY DEF FlushFails, Idle
<1>2. \A k \in Keys : Readded(k)' = Readded(k)
  <2> SUFFICES ASSUME NEW k \in Keys PROVE Readded(k)' = Readded(k)
    OBVIOUS
  <2>1. Readded(k)' = buffer'[k]
    BY <1>1 DEF Readded
  <2> QED BY <1>1, <2>1
<1>3. FlushInv'
  BY <1>1 DEF FlushInv
<1>4. RowInv'
  BY <1>1, <1>2 DEF BarsInv, RowInv
<1>5. \A k \in Keys : Whole(k)' = Whole(k)
  BY <1>1, <1>2 DEF Whole
<1> QED BY <1>1, <1>3, <1>4, <1>5, QuietBars DEF BarsInv

\* A restart loses what was in memory, and leaves the rows.
LEMMA RestartBars ==
    ASSUME TypeOK, BarsInv, Restart
    PROVE  BarsInv'
<1>1. /\ flush'.pc = "sleep" /\ \A k \in Keys : flush'.drained[k] = NoBar
      /\ \A k \in Keys : buffer'[k] = NoBar
      /\ UNCHANGED <<table, seen, saved>>
      /\ torn' = torn \cup Held(buffer) \cup Held(flush.drained)
  BY DEF Restart, Idle
<1>2. \A k \in Keys : /\ Readded(k)' = NoBar
                      /\ Readded(k) # NoBar => k \in torn'
  BY <1>1, ReaddedType DEF Readded, Held
<1>3. FlushInv'
  BY <1>1 DEF FlushInv
<1>4. RowInv'
  BY <1>1, <1>2 DEF BarsInv, RowInv
<1>5. \A k \in Keys : k \notin torn' => Whole(k)' = Whole(k)
  BY <1>1, <1>2 DEF Whole
<1> QED BY <1>1, <1>3, <1>4, <1>5, QuietBars DEF BarsInv

\* The inductive invariant.
LEMMA BarsInductive == Spec => [](TypeOK /\ BarsInv)
<1>1. Init => BarsInv
  <2> SUFFICES ASSUME Init PROVE BarsInv
    OBVIOUS
  <2>1. \A k \in Keys : /\ buffer[k] = NoBar /\ flush.drained[k] = NoBar
                        /\ table[k] = NoBar /\ seen[k] = <<>>
    BY DEF Init, Idle
  <2>2. flush.pc = "sleep" /\ saved = {}
    BY DEF Init, Idle
  <2>3. \A k \in Keys : Readded(k) = NoBar /\ Whole(k) = NoBar
    BY <2>1 DEF Readded, Whole
  <2> QED BY <2>1, <2>2, <2>3 DEF BarsInv, FlushInv, RowInv, BarsAreWhole
<1>2. TypeOK /\ BarsInv /\ [Next]_vars => BarsInv'
  <2> SUFFICES ASSUME TypeOK, BarsInv, [Next]_vars PROVE BarsInv'
    OBVIOUS
  <2>1. ASSUME NEW k \in Keys, NEW t \in Ticks, Add(k, t) PROVE BarsInv'
    BY <2>1, AddBars
  <2>2. ASSUME UNCHANGED <<buffer, flush, table, seen, saved, torn>> PROVE BarsInv'
    <3>1. \A k \in Keys : Readded(k)' = Readded(k) /\ Whole(k)' = Whole(k)
      BY <2>2 DEF Readded, Whole
    <3>2. FlushInv' /\ RowInv'
      BY <2>2, <3>1 DEF BarsInv, FlushInv, RowInv
    <3> QED BY <2>2, <3>1, <3>2, QuietBars DEF BarsInv
  <2>3. CASE NextMinute
    BY <2>2, <2>3 DEF NextMinute
  <2>4. CASE UNCHANGED vars
    BY <2>2, <2>4 DEF vars
  <2> QED BY <2>1, <2>3, <2>4, DrainBars, WriteBars, SavedBars, FailBars, RestartBars
          DEF Next, Aggregate
<1> QED BY <1>1, <1>2, TypeCorrect, PTL DEF Spec

\* However flushes fail and ticks arrive, a bar is that of exactly the ticks of
\* its minute (MinuteBuffer.readd, merge_older), unless it is torn.
THEOREM BarsStayWhole == Spec => []BarsAreWhole
<1>1. BarsInv => BarsAreWhole
  BY DEF BarsInv
<1> QED BY <1>1, BarsInductive, PTL

\* A confirmed row to which nothing came since is the whole bar
\* (MinuteAggregator.flush_once, _write).
THEOREM RowsAreWhole == Spec => []SavedRowsAreWhole
<1>1. TypeOK /\ BarsInv => SavedRowsAreWhole
  <2> SUFFICES ASSUME TypeOK, BarsInv, NEW k \in saved \ torn
               PROVE  table[k] # NoBar /\ IsBarOf(table[k], seen[k])
    BY DEF SavedRowsAreWhole
  <2>1. k \in Keys
    BY DEF TypeOK
  <2>2. table[k] # NoBar /\ Whole(k) = table[k]
    BY <2>1 DEF BarsInv, RowInv, Whole
  <2> QED BY <2>1, <2>2 DEF BarsInv, BarsAreWhole
<1> QED BY <1>1, BarsInductive, PTL

-----------------------------------------------------------------------------
(* The feed *)

\* The variables of the feed keep their types, whatever ends a connection and
\* whichever task dies (delta_ws.py, tick_normalizer.py, spot_indexer.py).
THEOREM FeedTypeCorrect == FeedSpec => []FeedTypeOK
  <1>1. FeedInit => FeedTypeOK
    BY DEF FeedInit, FeedTypeOK
  <1>2. FeedTypeOK /\ [FeedNext]_feedVars => FeedTypeOK'
    <2> SUFFICES ASSUME FeedTypeOK, [FeedNext]_feedVars PROVE FeedTypeOK'
      OBVIOUS
    <2> USE DEF FeedTypeOK
    <2>1. CASE BootstrapOk \/ StartsDegraded \/ ProcessStops
      BY <2>1 DEF BootstrapOk, StartsDegraded, ProcessStops, Starts
    <2>2. CASE Link \/ ConnectRaises \/ ConnectionLost \/ GoesSilent \/ PublishRaises
      BY <2>2 DEF Link, Connects, Resubscribe, Resubscribed, PingTimeout, BackoffEnds,
                  ConnectRaises, ConnectionLost, GoesSilent, PublishRaises, LinkEnds
    <2>3. ASSUME NEW c \in Channels, FrameArrives(c) \/ Handle(c) \/ Expires(c)
          PROVE  FeedTypeOK'
      BY <2>3 DEF FrameArrives, Handle, Expires
    <2>4. ASSUME NEW h \in Handlers, HandlerDies(h)
          PROVE  FeedTypeOK'
      BY <2>4 DEF HandlerDies
    <2>5. CASE UNCHANGED feedVars
      BY <2>5 DEF feedVars
    <2>6. QED
      BY <2>1, <2>2, <2>3, <2>4, <2>5 DEF FeedNext
  <1>3. QED
    BY <1>1, <1>2, PTL DEF FeedSpec

\* On a connection that is read the exchange sends what the process subscribed
\* to, all of it and nothing else, and no frame waits in Redis for a task that
\* has ended: of the ways from a subscription to its hash none is cut for good
\* but by the end of a task.
HeardAsWanted ==
    /\ heard = IF link = "reading" THEN wanted ELSE {}
    /\ silent => link = "reading"
    /\ connected <=> link \in {"open", "reading"}
    /\ \A c \in inRedis : HandlerOf[c] \in handling

\* However often the connection is lost, noticed or not, the next one is told all
\* the subscriptions again (delta_ws.py:76-126): the safety TicksResume rests on.
THEOREM SubscriptionsSurvive == FeedSpec => []HeardAsWanted
  <1>1. FeedInit => HeardAsWanted
    BY DEF FeedInit, HeardAsWanted
  <1>2. FeedTypeOK /\ HeardAsWanted /\ [FeedNext]_feedVars => HeardAsWanted'
    <2> SUFFICES ASSUME FeedTypeOK, HeardAsWanted, [FeedNext]_feedVars PROVE HeardAsWanted'
      OBVIOUS
    <2> USE FeedBounds DEF HeardAsWanted, FeedTypeOK
    <2>1. CASE BootstrapOk \/ StartsDegraded \/ ProcessStops
      BY <2>1 DEF BootstrapOk, StartsDegraded, ProcessStops, Starts
    <2>2. CASE Link \/ ConnectRaises \/ ConnectionLost \/ GoesSilent \/ PublishRaises
      BY <2>2 DEF Link, Connects, Resubscribe, Resubscribed, PingTimeout, BackoffEnds,
                  ConnectRaises, ConnectionLost, GoesSilent, PublishRaises, LinkEnds
    <2>3. ASSUME NEW c \in Channels, FrameArrives(c) \/ Handle(c) \/ Expires(c)
          PROVE  HeardAsWanted'
      BY <2>3 DEF FrameArrives, Handle, Expires
    <2>4. ASSUME NEW h \in Handlers, HandlerDies(h)
          PROVE  HeardAsWanted'
      BY <2>4 DEF HandlerDies
    <2>5. CASE UNCHANGED feedVars
      BY <2>5 DEF feedVars
    <2>6. QED
      BY <2>1, <2>2, <2>3, <2>4, <2>5 DEF FeedNext
  <1>3. QED
    BY <1>1, <1>2, FeedTypeCorrect, PTL DEF FeedSpec

-----------------------------------------------------------------------------
(* WsClient *)

(* The number of mounted views that use t. *)
Users(t) == {v \in mounted : TopicOf[v] = t}

(* The stores' counters count the mounted users.                           *)
RefsCountUsers ==
  \A t \in Topics \ Kept : /\ refs[t] = Cardinality(Users(t))
                           /\ t \in desired <=> refs[t] # 0

(* Nothing of a session outlives its socket.                               *)
SessionNeedsSocket == sock # "open" => up = <<>> /\ subs = {} /\ pushing = {}

Session == SessionNeedsSocket /\ SessionAsDesired
-----------------------------------------------------------------------------
(* send() puts at most one control message on the wire (ws.ts:253-257).    *)
LEMMA SentTyped ==
  ASSUME up \in Seq(Control), NEW t \in Topics, NEW on \in BOOLEAN
  PROVE  Sent(up, on, t) \in Seq(Control)
<1>1. [on |-> on, topic |-> t] \in Control
  BY DEF Control
<1>2. Append(up, [on |-> on, topic |-> t]) \in Seq(Control)
  BY <1>1
<1> QED BY <1>2 DEF Sent

(* A replay is a finite sequence of subscriptions (ws.ts:259-261).         *)
LEMMA ReplayTyped ==
  ASSUME desired \subseteq Topics, NEW s \in Replays
  PROVE  /\ DOMAIN s = 1..Cardinality(desired) /\ Cardinality(desired) \in Nat
         /\ \A i \in DOMAIN s : s[i] \in desired
         /\ \A t \in desired : \E i \in DOMAIN s : s[i] = t
         /\ [i \in DOMAIN s |-> [on |-> TRUE, topic |-> s[i]]] \in Seq(Control)
<1> DEFINE n == Cardinality(desired)
<1>1. n \in Nat
  BY TopicsFinite, FS_Subset, FS_CardinalityType
<1>2. s \in [1..n -> desired] /\ \A t \in desired : \E i \in DOMAIN s : s[i] = t
  BY DEF Replays
<1>3. \A i \in 1..n : [on |-> TRUE, topic |-> s[i]] \in Control
  BY <1>2 DEF Control
<1>4. [i \in 1..n |-> [on |-> TRUE, topic |-> s[i]]] \in Seq(Control)
  BY <1>1, <1>3
<1> QED BY <1>1, <1>2, <1>4

(* A non-empty set of positions of a batch has a last one: its distance    *)
(* from the end is the least (ws.ts:222-250).                              *)
NatLess == {ss \in Nat \X Nat : ss[1] < ss[2]}

LEMMA LastExists ==
  ASSUME NEW n \in Nat, NEW S \in SUBSET (1..n), S # {}
  PROVE  \E i \in S : \A j \in S : j <= i
<1> DEFINE Far == {n - i : i \in S}
<1>1. IsWellFoundedOn(NatLess, Nat)
  BY NatLessThanWellFounded DEF OpToRel, NatLess
<1>2. Far \subseteq Nat /\ Far # {}
  <2>1. \A i \in S : n - i \in Nat
    OBVIOUS
  <2>2. PICK i \in S : TRUE
    OBVIOUS
  <2>3. n - i \in Far
    OBVIOUS
  <2> QED BY <2>1, <2>3
<1>3. \E x \in Far : \A y \in Far : ~(<<y, x>> \in NatLess)
  <2> HIDE DEF Far, NatLess
  <2> QED BY <1>1, <1>2, WFMin
<1>4. PICK x \in Far : \A y \in Far : ~(y < x)
  BY <1>2, <1>3 DEF NatLess
<1>5. PICK i \in S : x = n - i
  BY <1>4
<1>6. ASSUME NEW j \in S PROVE j <= i
  <2>1. n - j \in Far
    OBVIOUS
  <2> QED BY <1>4, <1>5, <2>1
<1> QED BY <1>6

(* The last frame of a topic in a batch exists, and the store takes its    *)
(* version (ws.ts:145-165).                                                *)
LEMMA AppliedTyped ==
  ASSUME queue \in Seq(Frame), store \in [Topics -> Versions], NEW t \in Topics
  PROVE  Applied(t) \in Versions
<1> DEFINE mine == {i \in DOMAIN queue : queue[i].topic = t}
           newest == CHOOSE i \in mine : \A j \in mine : j <= i
<1>1. CASE mine = {}
  BY <1>1 DEF Applied
<1>2. CASE mine # {}
  <2>1. mine \subseteq 1..Len(queue) /\ Len(queue) \in Nat
    OBVIOUS
  <2>2. \E i \in mine : \A j \in mine : j <= i
    <3> HIDE DEF mine
    <3> QED BY <1>2, <2>1, LastExists
  <2>3. newest \in mine
    <3> HIDE DEF mine
    <3> QED BY <2>2
  <2>4. queue[newest] \in Frame
    BY <2>1, <2>3
  <2> QED BY <1>2, <2>4 DEF Applied, Frame, Versions
<1> QED BY <1>1, <1>2

-----------------------------------------------------------------------------
(* Every operation of the page, the connection and the hub keeps the       *)
(* types (ws.ts:200-302, stream.py:68-173).                                *)
THEOREM WsTypeCorrect == WsSpec => []WsTypeOK
<1>1. WsInit => WsTypeOK
  <2> SUFFICES ASSUME WsInit PROVE WsTypeOK
    OBVIOUS
  <2>1. up \in Seq(Control) /\ queue \in Seq(Frame)
    BY DEF WsInit
  <2>2. /\ source \in [Topics -> Nat] /\ refs \in [Topics -> Nat]
        /\ store \in [Topics -> Versions] /\ rest \in [Topics -> Versions]
        /\ snapshot \in [Views -> Versions]
    BY DEF WsInit, Versions
  <2>3. desired = {} /\ subs = {} /\ pushing = {} /\ mounted = {} /\ drops \in Nat
    BY DEF WsInit
  <2> QED BY <2>1, <2>2, <2>3 DEF WsInit, WsTypeOK
<1>2. WsTypeOK /\ [WsNext]_wsVars => WsTypeOK'
  <2> SUFFICES ASSUME WsTypeOK, [WsNext]_wsVars
               PROVE  WsTypeOK'
    OBVIOUS
  <2> USE HooksTyped DEF wire
  <2>1. ASSUME NEW v \in Views, Mount(v) PROVE WsTypeOK'
    <3> DEFINE t == TopicOf[v]
    <3>1. t \in Topics
      OBVIOUS
    <3>2. up' \in Seq(Control)
      BY <2>1, <3>1, SentTyped DEF Mount, Subscribe, WsTypeOK
    <3>3. refs' \in [Topics -> Nat]
      BY <2>1, <3>1 DEF Mount, Counted, WsTypeOK
    <3>4. desired' \subseteq Topics /\ mounted' \subseteq Views
      BY <2>1, <3>1 DEF Mount, Subscribe, WsTypeOK
    <3>5. sock' \in {"none", "connecting", "open", "closing"}
      BY <2>1 DEF Mount, Subscribe, Ensured, WsTypeOK
    <3>6. snapshot' \in [Views -> Versions]
      BY <2>1, <3>1 DEF Mount, WsTypeOK, Versions
    <3> QED BY <2>1, <3>2, <3>3, <3>4, <3>5, <3>6 DEF Mount, WsTypeOK
  <2>2. ASSUME NEW v \in Views, Unmount(v) PROVE WsTypeOK'
    <3> DEFINE t == TopicOf[v]
    <3>1. t \in Topics
      OBVIOUS
    <3>2. up' \in Seq(Control)
      BY <2>2, <3>1, SentTyped DEF Unmount, Unsubscribe, WsTypeOK
    <3>3. refs' \in [Topics -> Nat]
      <4>1. Released(t) \in Nat
        BY <3>1 DEF Released, WsTypeOK
      <4> QED BY <2>2, <3>1, <4>1 DEF Unmount, WsTypeOK
    <3>4. desired' \subseteq Topics /\ mounted' \subseteq Views /\ sock' = sock
      BY <2>2, <3>1 DEF Unmount, Unsubscribe, WsTypeOK
    <3>5. snapshot' \in [Views -> Versions]
      BY <2>2 DEF Unmount, WsTypeOK, Versions
    <3> QED BY <2>2, <3>2, <3>3, <3>4, <3>5 DEF Unmount, WsTypeOK
  <2>3. ASSUME NEW v \in Views, Sample(v) PROVE WsTypeOK'
    BY <2>3 DEF Sample, WsTypeOK
  <2>4. ASSUME NEW v \in Views, Refetch(v) PROVE WsTypeOK'
    BY <2>4 DEF Refetch, WsTypeOK, Versions
  <2>5. ASSUME SocketOpens PROVE WsTypeOK'
    <3>1. up' \in Seq(Control)
      BY <2>5, ReplayTyped DEF SocketOpens, WsTypeOK
    <3> QED BY <2>5, <3>1 DEF SocketOpens, WsTypeOK
  <2>6. ASSUME SocketLost PROVE WsTypeOK'
    <3>1. up' \in Seq(Control) /\ subs' \subseteq Topics /\ pushing' \subseteq Topics
      BY <2>6 DEF SocketLost
    <3>2. pusher' \in BOOLEAN
      BY <2>6 DEF SocketLost
    <3>3. drops' \in Nat
      BY <2>6 DEF SocketLost, WsTypeOK
    <3>4. sock' = "closing" /\ UNCHANGED <<source, held, timer, status, desired, refs, queue,
                                          store, rest, mounted, snapshot>>
      BY <2>6 DEF SocketLost
    <3> QED BY <3>1, <3>2, <3>3, <3>4 DEF WsTypeOK
  <2>7. ASSUME SocketCloses PROVE WsTypeOK'
    BY <2>7 DEF SocketCloses, ScheduleReconnect, WsTypeOK
  <2>8. ASSUME ConnectFails PROVE WsTypeOK'
    BY <2>8 DEF ConnectFails, ScheduleReconnect, WsTypeOK
  <2>9. ASSUME TimerFires PROVE WsTypeOK'
    BY <2>9 DEF TimerFires, Ensured, WsTypeOK
  <2>10. ASSUME HubHears PROVE WsTypeOK'
    <3>1. Head(up) \in Control /\ Tail(up) \in Seq(Control)
      BY <2>10 DEF HubHears, WsTypeOK
    <3>2. Head(up).topic \in Topics
      BY <3>1 DEF Control
    <3> QED BY <2>10, <3>1, <3>2 DEF HubHears, WsTypeOK
  <2>11. ASSUME HubTick \/ PushRaises PROVE WsTypeOK'
    <3>1. CASE HubTick
      BY <3>1 DEF HubTick, WsTypeOK
    <3>2. CASE PushRaises
      <4>1. pushing' \subseteq Topics
        BY <3>2 DEF PushRaises
      <4>2. pusher' \in BOOLEAN
        BY <3>2 DEF PushRaises
      <4>3. drops' \in Nat
        BY <3>2 DEF PushRaises, WsTypeOK
      <4>4. UNCHANGED <<source, held, sock, timer, status, desired, refs, up, subs, queue,
                        store, rest, mounted, snapshot>>
        BY <3>2 DEF PushRaises
      <4> QED BY <4>1, <4>2, <4>3, <4>4 DEF WsTypeOK
    <3> QED BY <2>11, <3>1, <3>2
  <2>12. ASSUME NEW t \in Topics, HubSends(t) PROVE WsTypeOK'
    <3>1. [topic |-> t, version |-> source[t]] \in Frame
      BY DEF WsTypeOK, Frame
    <3>2. queue' \in Seq(Frame)
      <4>1. queue' \in {queue, Append(queue, [topic |-> t, version |-> source[t]])}
        BY <2>12 DEF HubSends
      <4>2. queue \in Seq(Frame)
        BY DEF WsTypeOK
      <4> QED BY <3>1, <4>1, <4>2
    <3> QED BY <2>12, <3>2 DEF HubSends, WsTypeOK
  <2>13. ASSUME NEW t \in Topics, SourceChanges(t) \/ SourceLapses(t) PROVE WsTypeOK'
    <3>1. CASE SourceChanges(t)
      BY <3>1 DEF SourceChanges, WsTypeOK
    <3>2. CASE SourceLapses(t)
      BY <3>2 DEF SourceLapses, WsTypeOK
    <3> QED BY <2>13, <3>1, <3>2
  <2>14. ASSUME Flush PROVE WsTypeOK'
    <3>1. ASSUME NEW t \in Topics PROVE Applied(t) \in Versions
      BY AppliedTyped DEF WsTypeOK
    <3> QED BY <2>14, <3>1 DEF Flush, WsTypeOK
  <2>15. CASE UNCHANGED wsVars
    BY <2>15 DEF wsVars, WsTypeOK
  <2> QED BY <2>1, <2>2, <2>3, <2>4, <2>5, <2>6, <2>7, <2>8, <2>9, <2>10, <2>11,
             <2>12, <2>13, <2>14, <2>15 DEF WsNext, Page, Connection, Hub
<1> QED BY <1>1, <1>2, PTL DEF WsSpec

-----------------------------------------------------------------------------
(* Whatever is subscribed has a socket or a pending reconnect              *)
(* (ws.ts:263-302): every step that gives up the socket sets the timer,    *)
(* and the timer gives way only to a new socket.                           *)
THEOREM AlwaysConnecting == WsSpec => []NeverStranded
<1>1. WsInit => NeverStranded
  BY DEF WsInit, NeverStranded
<1>2. NeverStranded /\ [WsNext]_wsVars => NeverStranded'
  <2> SUFFICES ASSUME NeverStranded, [WsNext]_wsVars
               PROVE  NeverStranded'
    OBVIOUS
  <2> USE DEF NeverStranded
  <2>1. ASSUME NEW v \in Views, Mount(v) PROVE NeverStranded'
    BY <2>1 DEF Mount, Subscribe, Ensured
  <2>2. ASSUME NEW v \in Views, Unmount(v) PROVE NeverStranded'
    <3>1. desired' \subseteq desired /\ sock' = sock /\ timer' = timer
      BY <2>2 DEF Unmount, Unsubscribe
    <3> QED BY <3>1
  <2>3. ASSUME NEW v \in Views, Sample(v) \/ Refetch(v) PROVE NeverStranded'
    BY <2>3 DEF Sample, Refetch
  <2>4. ASSUME SocketOpens \/ SocketLost PROVE NeverStranded'
    BY <2>4 DEF SocketOpens, SocketLost
  <2>5. ASSUME SocketCloses \/ ConnectFails PROVE NeverStranded'
    BY <2>5 DEF SocketCloses, ConnectFails, ScheduleReconnect
  <2>6. ASSUME TimerFires PROVE NeverStranded'
    BY <2>6 DEF TimerFires, Ensured
  <2>7. ASSUME HubHears \/ HubTick \/ PushRaises \/ Flush PROVE NeverStranded'
    BY <2>7 DEF HubHears, HubTick, PushRaises, Flush
  <2>8. ASSUME NEW t \in Topics, HubSends(t) \/ SourceChanges(t) \/ SourceLapses(t)
        PROVE  NeverStranded'
    BY <2>8 DEF HubSends, SourceChanges, SourceLapses
  <2>9. CASE UNCHANGED wsVars
    BY <2>9 DEF wsVars
  <2> QED BY <2>1, <2>2, <2>3, <2>4, <2>5, <2>6, <2>7, <2>8, <2>9
          DEF WsNext, Page, Connection, Hub
<1> QED BY <1>1, <1>2, PTL DEF WsSpec

-----------------------------------------------------------------------------
(* The users of a topic are finitely many, and none is counted exactly     *)
(* when none is mounted.                                                   *)
LEMMA UsersFinite ==
  ASSUME mounted \subseteq Views, NEW t
  PROVE  /\ IsFiniteSet(Users(t)) /\ Cardinality(Users(t)) \in Nat
         /\ Cardinality(Users(t)) = 0 <=> Users(t) = {}
<1>1. Users(t) \in SUBSET Views
  BY DEF Users
<1>2. IsFiniteSet(Users(t))
  BY <1>1, ViewsFinite, FS_Subset
<1> QED BY <1>2, FS_CardinalityType, FS_EmptySet

(* A mount adds one user of its topic to the count (paperStore.ts:40-52).  *)
LEMMA MountCounts ==
  ASSUME WsTypeOK, RefsCountUsers, NEW v \in Views, Mount(v)
  PROVE  RefsCountUsers'
<1> DEFINE u == TopicOf[v]
<1>1. u \in Topics /\ mounted' = mounted \cup {v} /\ v \notin mounted
  BY HooksTyped DEF Mount
<1>2. desired' = desired \cup {u} /\ refs' = Counted(u)
  BY DEF Mount, Subscribe
<1> SUFFICES ASSUME NEW t \in Topics \ Kept
             PROVE  /\ refs'[t] = Cardinality(Users(t)')
                    /\ t \in desired' <=> refs'[t] # 0
  BY DEF RefsCountUsers
<1>3. /\ refs[t] = Cardinality(Users(t)) /\ refs[t] \in Nat
      /\ t \in desired <=> refs[t] # 0
  BY DEF RefsCountUsers, WsTypeOK
<1>4. CASE t = u
  <2>1. Users(t)' = Users(t) \cup {v} /\ v \notin Users(t)
    BY <1>1, <1>4 DEF Users
  <2>2. IsFiniteSet(Users(t))
    BY UsersFinite DEF WsTypeOK
  <2>3. Cardinality(Users(t)') = Cardinality(Users(t)) + 1
    <3> HIDE DEF u
    <3> QED BY <2>1, <2>2, FS_AddElement
  <2>4. refs'[t] = refs[t] + 1
    BY <1>1, <1>2, <1>4 DEF Counted, WsTypeOK
  <2> QED BY <1>2, <1>3, <1>4, <2>3, <2>4
<1>5. CASE t # u
  <2>1. Users(t)' = Users(t)
    BY <1>1, <1>5 DEF Users
  <2>2. refs'[t] = refs[t]
    BY <1>1, <1>2, <1>5 DEF Counted, WsTypeOK
  <2> QED BY <1>2, <1>3, <1>5, <2>1, <2>2
<1> QED BY <1>4, <1>5

(* A cleanup takes one user away, and the last one the subscription        *)
(* (liveStore.ts:58-88).                                                   *)
LEMMA UnmountCounts ==
  ASSUME WsTypeOK, RefsCountUsers, NEW v \in Views, Unmount(v)
  PROVE  RefsCountUsers'
<1> DEFINE u == TopicOf[v]
<1>1. u \in Topics /\ mounted' = mounted \ {v} /\ v \in mounted
  BY HooksTyped DEF Unmount
<1> SUFFICES ASSUME NEW t \in Topics \ Kept
             PROVE  /\ refs'[t] = Cardinality(Users(t)')
                    /\ t \in desired' <=> refs'[t] # 0
  BY DEF RefsCountUsers
<1>2. /\ refs[t] = Cardinality(Users(t)) /\ refs[t] \in Nat
      /\ t \in desired <=> refs[t] # 0
  BY DEF RefsCountUsers, WsTypeOK
<1>3. CASE t = u
  <2>1. Users(t)' = Users(t) \ {v} /\ v \in Users(t)
    BY <1>1, <1>3 DEF Users
  <2>2. IsFiniteSet(Users(t)) /\ Cardinality(Users(t)) # 0
    BY <2>1, UsersFinite DEF WsTypeOK
  <2>3. Cardinality(Users(t)') = Cardinality(Users(t)) - 1
    <3> HIDE DEF u
    <3> QED BY <2>1, <2>2, FS_RemoveElement
  <2>4. refs'[t] = refs[t] - 1
    <3>1. Released(t) = refs[t] - 1
      BY <1>2, <2>2 DEF Released
    <3> QED BY <1>1, <1>3, <3>1 DEF Unmount, WsTypeOK
  <2>5. desired' = IF refs[t] <= 1 THEN desired \ {t} ELSE desired
    BY <1>3 DEF Unmount, Unsubscribe
  <2> QED BY <1>2, <2>2, <2>3, <2>4, <2>5
<1>4. CASE t # u
  <2>1. Users(t)' = Users(t)
    BY <1>1, <1>4 DEF Users
  <2>2. refs'[t] = refs[t] /\ (t \in desired' <=> t \in desired)
    BY <1>1, <1>4 DEF Unmount, Unsubscribe, WsTypeOK
  <2> QED BY <1>2, <2>1, <2>2
<1> QED BY <1>3, <1>4

(* However many components share a topic, and in whatever order they come  *)
(* and go, it is subscribed exactly while one is mounted                   *)
(* (liveStore.ts:58-88, paperStore.ts:40-63).                              *)
THEOREM SubscribedWhileUsed == WsSpec => []SharedWhileMounted
<1>1. WsInit => RefsCountUsers
  <2> SUFFICES ASSUME WsInit, NEW t \in Topics
               PROVE  refs[t] = Cardinality(Users(t)) /\ (t \in desired <=> refs[t] # 0)
    BY DEF RefsCountUsers
  <2>1. Users(t) = {}
    BY DEF WsInit, Users
  <2> QED BY <2>1, FS_EmptySet DEF WsInit
<1>2. WsTypeOK /\ RefsCountUsers /\ [WsNext]_wsVars => RefsCountUsers'
  <2> SUFFICES ASSUME WsTypeOK, RefsCountUsers, [WsNext]_wsVars
               PROVE  RefsCountUsers'
    OBVIOUS
  <2>1. ASSUME NEW v \in Views, Mount(v) PROVE RefsCountUsers'
    BY <2>1, MountCounts
  <2>2. ASSUME NEW v \in Views, Unmount(v) PROVE RefsCountUsers'
    BY <2>2, UnmountCounts
  <2>3. ASSUME UNCHANGED <<desired, refs, mounted>> PROVE RefsCountUsers'
    BY <2>3 DEF RefsCountUsers, Users
  <2>4. ASSUME NEW v \in Views, Sample(v) \/ Refetch(v) PROVE RefsCountUsers'
    BY <2>3, <2>4 DEF Sample, Refetch
  <2>5. ASSUME Connection PROVE RefsCountUsers'
    BY <2>3, <2>5 DEF Connection, SocketOpens, SocketLost, SocketCloses,
                      ConnectFails, TimerFires
  <2>6. ASSUME Hub \/ Flush PROVE RefsCountUsers'
    BY <2>3, <2>6 DEF Hub, HubHears, HubTick, PushRaises, HubSends, SourceChanges,
                      SourceLapses, Flush
  <2>7. CASE UNCHANGED wsVars
    BY <2>3, <2>7 DEF wsVars
  <2> QED BY <2>1, <2>2, <2>4, <2>5, <2>6, <2>7 DEF WsNext, Page
<1>3. WsTypeOK /\ RefsCountUsers => SharedWhileMounted
  <2> SUFFICES ASSUME WsTypeOK, RefsCountUsers, NEW t \in Topics \ Kept
               PROVE  t \in desired <=> \E v \in mounted : TopicOf[v] = t
    BY DEF SharedWhileMounted
  <2>1. t \in desired <=> Users(t) # {}
    BY UsersFinite DEF RefsCountUsers, WsTypeOK
  <2> QED BY <2>1 DEF Users
<1> QED BY <1>1, <1>2, <1>3, WsTypeCorrect, PTL DEF WsSpec

-----------------------------------------------------------------------------
(* A new last message about u decides u and nothing else.                  *)
LEMMA WillServeAfterSend ==
  ASSUME WsTypeOK, sock = "open", NEW u \in Topics, NEW on \in BOOLEAN,
         up' = Sent(up, on, u), subs' = subs, NEW t \in Topics
  PROVE  WillServe(t)' <=> IF t = u THEN on ELSE WillServe(t)
<1> DEFINE msg == [on |-> on, topic |-> u]
           n == Len(up)
<1>1. up \in Seq(Control) /\ n \in Nat /\ DOMAIN up = 1..n
  BY DEF WsTypeOK
<1>2. up' = Append(up, msg) /\ DOMAIN up' = 1..(n + 1)
  BY <1>1 DEF Sent
<1>3. up'[n + 1] = msg /\ \A i \in 1..n : up'[i] = up[i]
  BY <1>1, <1>2
<1> HIDE DEF n
<1>4. msg.topic = u /\ msg.on = on
  OBVIOUS
<1>5. CASE t = u /\ on
  <2>1. msg = [on |-> TRUE, topic |-> t]
    BY <1>5
  <2>2. n + 1 \in DOMAIN up' /\ \A j \in DOMAIN up' : j <= n + 1
    BY <1>1, <1>2
  <2>3. WillServe(t)'
    BY <1>3, <2>1, <2>2 DEF WillServe
  <2> QED BY <1>5, <2>3
<1>6. CASE t = u /\ ~on
  <2>1. ~WillServe(t)'
    <3>1. n + 1 \in DOMAIN up' /\ up'[n + 1].topic = t /\ up'[n + 1].on = FALSE
      BY <1>1, <1>2, <1>3, <1>4, <1>6
    <3>2. ASSUME NEW i \in DOMAIN up', up'[i] = [on |-> TRUE, topic |-> t],
                 \A j \in DOMAIN up' : up'[j].topic = t => j <= i
          PROVE  FALSE
      <4>1. i = n + 1
        BY <1>1, <1>2, <3>1, <3>2
      <4>2. up'[i].on = TRUE
        BY <3>2
      <4> QED BY <3>1, <4>1, <4>2
    <3> QED BY <3>1, <3>2 DEF WillServe
  <2> QED BY <1>6, <2>1
<1>7. CASE t # u
  <2>1. \A i \in DOMAIN up' : up'[i].topic = t => i \in 1..n
    BY <1>1, <1>2, <1>3, <1>4, <1>7
  <2>2. \A i \in 1..n : i \in DOMAIN up' /\ up'[i] = up[i]
    BY <1>1, <1>2, <1>3
  <2>3. ASSUME WillServe(t)' PROVE WillServe(t)
    <3>1. CASE t \in subs' /\ \A j \in DOMAIN up' : up'[j].topic # t
      BY <1>1, <2>2, <3>1 DEF WillServe
    <3>2. CASE \E i \in DOMAIN up' : /\ up'[i] = [on |-> TRUE, topic |-> t]
                                     /\ \A j \in DOMAIN up' : up'[j].topic = t => j <= i
      <4>1. PICK i \in DOMAIN up' : /\ up'[i] = [on |-> TRUE, topic |-> t]
                                    /\ \A j \in DOMAIN up' : up'[j].topic = t => j <= i
        BY <3>2
      <4>2. i \in 1..n
        BY <2>1, <4>1
      <4> QED BY <1>1, <2>2, <4>1, <4>2 DEF WillServe
    <3> QED BY <2>3, <3>1, <3>2 DEF WillServe
  <2>4. ASSUME WillServe(t) PROVE WillServe(t)'
    <3>1. CASE t \in subs /\ \A j \in DOMAIN up : up[j].topic # t
      BY <1>1, <2>1, <2>2, <3>1 DEF WillServe
    <3>2. CASE \E i \in DOMAIN up : /\ up[i] = [on |-> TRUE, topic |-> t]
                                    /\ \A j \in DOMAIN up : up[j].topic = t => j <= i
      <4>1. PICK i \in DOMAIN up : /\ up[i] = [on |-> TRUE, topic |-> t]
                                   /\ \A j \in DOMAIN up : up[j].topic = t => j <= i
        BY <3>2
      <4>2. i \in DOMAIN up' /\ up'[i] = [on |-> TRUE, topic |-> t]
        BY <1>1, <2>2, <4>1
      <4>3. \A j \in DOMAIN up' : up'[j].topic = t => j <= i
        BY <1>1, <2>1, <2>2, <4>1
      <4> QED BY <4>2, <4>3 DEF WillServe
    <3> QED BY <2>4, <3>1, <3>2 DEF WillServe
  <2> QED BY <1>7, <2>3, <2>4
<1> QED BY <1>5, <1>6, <1>7

(* The hub's hearing the first message moves it from the wire into its     *)
(* subscriptions and decides no topic anew (stream.py:68-99).              *)
LEMMA WillServeAfterHearing ==
  ASSUME WsTypeOK, HubHears, NEW t \in Topics
  PROVE  WillServe(t)' <=> WillServe(t)
<1> DEFINE n == Len(up)
<1>1. up \in Seq(Control) /\ up # <<>> /\ n \in Nat /\ n > 0 /\ DOMAIN up = 1..n
  BY DEF WsTypeOK, HubHears
<1>2. up' = Tail(up) /\ DOMAIN up' = 1..(n - 1) /\ Head(up) = up[1]
  BY <1>1 DEF HubHears
<1>3. \A i \in 1..(n - 1) : up'[i] = up[i + 1]
  BY <1>1, <1>2
<1>4. subs' = IF up[1].on THEN subs \cup {up[1].topic} ELSE subs \ {up[1].topic}
  BY <1>2 DEF HubHears
<1>5. up[1] \in Control
  BY <1>1
<1> HIDE DEF n
<1>6. \A j \in DOMAIN up : j = 1 \/ (j - 1 \in 1..(n - 1) /\ up'[j - 1] = up[j])
  BY <1>1, <1>3
<1>7. \A i \in DOMAIN up' : i + 1 \in DOMAIN up /\ up[i + 1] = up'[i]
  BY <1>1, <1>2, <1>3
<1>8. ASSUME WillServe(t) PROVE WillServe(t)'
  <2>1. CASE t \in subs /\ \A j \in DOMAIN up : up[j].topic # t
    <3>1. t \in subs'
      BY <1>1, <1>4, <2>1
    <3> QED BY <1>7, <2>1, <3>1 DEF WillServe
  <2>2. CASE \E i \in DOMAIN up : /\ up[i] = [on |-> TRUE, topic |-> t]
                                  /\ \A j \in DOMAIN up : up[j].topic = t => j <= i
    <3>1. PICK i \in DOMAIN up : /\ up[i] = [on |-> TRUE, topic |-> t]
                                 /\ \A j \in DOMAIN up : up[j].topic = t => j <= i
      BY <2>2
    <3>2. CASE i = 1
      <4>1. t \in subs'
        BY <1>4, <3>1, <3>2
      <4>2. \A j \in DOMAIN up' : up'[j].topic # t
        BY <1>1, <1>2, <1>7, <3>1, <3>2
      <4> QED BY <4>1, <4>2 DEF WillServe
    <3>3. CASE i # 1
      <4>1. i - 1 \in DOMAIN up' /\ up'[i - 1] = [on |-> TRUE, topic |-> t]
        BY <1>2, <1>6, <3>1, <3>3
      <4>2. \A j \in DOMAIN up' : up'[j].topic = t => j <= i - 1
        BY <1>1, <1>2, <1>7, <3>1
      <4> QED BY <4>1, <4>2 DEF WillServe
    <3> QED BY <3>2, <3>3
  <2> QED BY <1>8, <2>1, <2>2 DEF WillServe
<1>9. ASSUME WillServe(t)' PROVE WillServe(t)
  <2>1. CASE \E i \in DOMAIN up' : /\ up'[i] = [on |-> TRUE, topic |-> t]
                                   /\ \A j \in DOMAIN up' : up'[j].topic = t => j <= i
    <3>1. PICK i \in DOMAIN up' : /\ up'[i] = [on |-> TRUE, topic |-> t]
                                  /\ \A j \in DOMAIN up' : up'[j].topic = t => j <= i
      BY <2>1
    <3>2. i + 1 \in DOMAIN up /\ up[i + 1] = [on |-> TRUE, topic |-> t]
      BY <1>7, <3>1
    <3>3. ASSUME NEW j \in DOMAIN up, up[j].topic = t PROVE j <= i + 1
      <4>1. j \in Int /\ i \in Int /\ i >= 1
        BY <1>1, <1>2
      <4>2. CASE j # 1
        <5>1. j - 1 \in DOMAIN up' /\ up'[j - 1] = up[j]
          BY <1>2, <1>6, <4>2
        <5>2. j - 1 <= i
          BY <3>1, <3>3, <5>1
        <5> QED BY <4>1, <5>2
      <4> QED BY <4>1, <4>2
    <3> QED BY <3>2, <3>3 DEF WillServe
  <2>2. CASE t \in subs' /\ \A j \in DOMAIN up' : up'[j].topic # t
    <3>1. \A j \in DOMAIN up : up[j].topic = t => j = 1
      BY <1>2, <1>6, <2>2
    <3>2. CASE up[1].topic = t
      <4>1. up[1].on = TRUE
        BY <1>4, <1>5, <2>2, <3>2 DEF Control
      <4>2. up[1] = [on |-> TRUE, topic |-> t]
        BY <1>5, <3>2, <4>1 DEF Control
      <4>3. 1 \in DOMAIN up /\ \A j \in DOMAIN up : up[j].topic = t => j <= 1
        BY <1>1, <3>1
      <4> QED BY <4>2, <4>3 DEF WillServe
    <3>3. CASE up[1].topic # t
      <4>1. t \in subs
        BY <1>4, <2>2, <3>3
      <4> QED BY <3>1, <3>3, <4>1 DEF WillServe
    <3> QED BY <3>2, <3>3
  <2> QED BY <1>9, <2>1, <2>2 DEF WillServe
<1> QED BY <1>8, <1>9

(* An open connection's subscriptions, once the hub has heard the wire,    *)
(* are the desired ones: replayed after every reconnect and kept up by     *)
(* every mount and unmount since (ws.ts:204-205, 259-275).                 *)
THEOREM HubFollowsTheClient == WsSpec => []SessionAsDesired
<1>1. WsInit => Session
  BY DEF WsInit, Session, SessionNeedsSocket, SessionAsDesired
<1>2. WsTypeOK /\ Session /\ [WsNext]_wsVars => Session'
  <2> SUFFICES ASSUME WsTypeOK, Session, [WsNext]_wsVars
               PROVE  Session'
    OBVIOUS
  <2>1. ASSUME NEW u \in Topics, NEW on \in BOOLEAN, sock = "open", sock' = sock,
               up' = Sent(up, on, u), subs' = subs,
               desired' = IF on THEN desired \cup {u} ELSE desired \ {u}
        PROVE  Session'
    <3>1. SessionNeedsSocket'
      BY <2>1 DEF SessionNeedsSocket
    <3>2. \A t \in Topics : WillServe(t)' <=> t \in desired'
      BY <2>1, WillServeAfterSend DEF Session, SessionAsDesired
    <3> QED BY <3>1, <3>2 DEF Session, SessionAsDesired
  <2>2. ASSUME sock # "open", sock' # "open", up' = up, subs' = subs, pushing' = pushing
        PROVE  Session'
    BY <2>2 DEF Session, SessionNeedsSocket, SessionAsDesired
  <2>3. ASSUME sock' = sock, up' = up, subs' = subs, desired' = desired,
               sock = "open" \/ pushing' = pushing
        PROVE  Session'
    BY <2>3 DEF Session, SessionNeedsSocket, SessionAsDesired, WillServe
  <2>4. ASSUME NEW v \in Views, Mount(v) PROVE Session'
    <3> DEFINE u == TopicOf[v]
    <3>1. /\ u \in Topics /\ desired' = desired \cup {u} /\ sock' = Ensured
          /\ up' = Sent(up, TRUE, u) /\ subs' = subs /\ pushing' = pushing
      BY <2>4, HooksTyped DEF Mount, Subscribe
    <3> HIDE DEF u
    <3>2. CASE sock = "open"
      BY <2>1, <3>1, <3>2 DEF Ensured
    <3>3. CASE sock # "open"
      BY <2>2, <3>1, <3>3 DEF Ensured, Sent
    <3> QED BY <3>2, <3>3
  <2>5. ASSUME NEW v \in Views, Unmount(v) PROVE Session'
    <3> DEFINE u == TopicOf[v]
    <3>1. u \in Topics /\ subs' = subs /\ pushing' = pushing /\ sock' = sock
      BY <2>5, HooksTyped DEF Unmount, Unsubscribe
    <3>2. \/ desired' = desired /\ up' = up
          \/ desired' = desired \ {u} /\ up' = Sent(up, FALSE, u)
      BY <2>5 DEF Unmount, Unsubscribe
    <3> HIDE DEF u
    <3>3. CASE desired' = desired /\ up' = up
      BY <2>3, <3>1, <3>3
    <3>4. CASE desired' = desired \ {u} /\ up' = Sent(up, FALSE, u)
      <4>1. CASE sock = "open"
        BY <2>1, <3>1, <3>4, <4>1
      <4>2. CASE sock # "open"
        BY <2>2, <3>1, <3>4, <4>2 DEF Sent
      <4> QED BY <4>1, <4>2
    <3> QED BY <3>2, <3>3, <3>4
  <2>6. ASSUME NEW v \in Views, Sample(v) \/ Refetch(v) PROVE Session'
    BY <2>3, <2>6 DEF Sample, Refetch, wire
  <2>7. ASSUME SocketOpens PROVE Session'
    <3>1. PICK s \in Replays : up' = [i \in DOMAIN s |-> [on |-> TRUE, topic |-> s[i]]]
      BY <2>7 DEF SocketOpens
    <3>2. /\ \A i \in DOMAIN s : s[i] \in desired
          /\ \A t \in desired : \E i \in DOMAIN s : s[i] = t
          /\ DOMAIN s = 1..Cardinality(desired) /\ Cardinality(desired) \in Nat
      BY ReplayTyped DEF WsTypeOK
    <3>3. /\ DOMAIN up' = DOMAIN s
          /\ \A i \in DOMAIN s : up'[i] = [on |-> TRUE, topic |-> s[i]]
      BY <3>1
    <3>4. sock' = "open" /\ sock # "open" /\ desired' = desired /\ subs' = {}
      BY <2>7 DEF SocketOpens, Session, SessionNeedsSocket
    <3>5. ASSUME NEW t \in Topics, WillServe(t)' PROVE t \in desired'
      BY <3>2, <3>3, <3>4, <3>5 DEF WillServe
    <3>6. ASSUME NEW t \in Topics, t \in desired' PROVE WillServe(t)'
      <4> DEFINE mine == {i \in DOMAIN s : s[i] = t}
      <4>1. mine \in SUBSET (1..Cardinality(desired)) /\ mine # {}
        BY <3>2, <3>4, <3>6
      <4>2. PICK i \in mine : \A j \in mine : j <= i
        <5> HIDE DEF mine
        <5> QED BY <3>2, <4>1, LastExists
      <4>3. i \in DOMAIN up' /\ up'[i] = [on |-> TRUE, topic |-> t]
        BY <3>3, <4>2
      <4>4. \A j \in DOMAIN up' : up'[j].topic = t => j <= i
        BY <3>3, <4>2
      <4> QED BY <4>3, <4>4 DEF WillServe
    <3> QED BY <3>4, <3>5, <3>6 DEF Session, SessionNeedsSocket, SessionAsDesired
  <2>8. ASSUME SocketLost PROVE Session'
    BY <2>8 DEF SocketLost, Session, SessionNeedsSocket, SessionAsDesired
  <2>9. ASSUME SocketCloses \/ ConnectFails \/ TimerFires PROVE Session'
    <3>1. up' = up /\ subs' = subs /\ pushing' = pushing /\ desired' = desired
      BY <2>9 DEF SocketCloses, ConnectFails, TimerFires, wire
    <3>2. CASE sock' # "open" /\ sock # "open"
      BY <2>2, <3>1, <3>2
    <3>3. CASE sock' = sock
      BY <2>3, <3>1, <3>3
    <3> QED BY <2>9, <3>2, <3>3
            DEF SocketCloses, ConnectFails, TimerFires, ScheduleReconnect, Ensured
  <2>10. ASSUME HubHears PROVE Session'
    <3>1. sock = "open" /\ sock' = sock /\ desired' = desired
      BY <2>10 DEF HubHears, Session, SessionNeedsSocket
    <3>2. \A t \in Topics : WillServe(t)' <=> t \in desired'
      BY <2>10, <3>1, WillServeAfterHearing DEF Session, SessionAsDesired
    <3> QED BY <3>1, <3>2 DEF Session, SessionNeedsSocket, SessionAsDesired
  <2>11. ASSUME HubTick PROVE Session'
    BY <2>3, <2>11 DEF HubTick
  <2>12. ASSUME NEW t \in Topics, HubSends(t) PROVE Session'
    <3>1. sock = "open"
      BY <2>12 DEF HubSends, Session, SessionNeedsSocket
    <3> QED BY <2>3, <2>12, <3>1 DEF HubSends
  <2>13. ASSUME NEW t \in Topics, SourceChanges(t) \/ SourceLapses(t) PROVE Session'
    BY <2>3, <2>13 DEF SourceChanges, SourceLapses, wire
  <2>14. ASSUME Flush PROVE Session'
    BY <2>3, <2>14 DEF Flush, wire
  <2>15. ASSUME PushRaises PROVE Session'
    <3>1. sock = "open"
      BY <2>15 DEF PushRaises, Session, SessionNeedsSocket
    <3> QED BY <2>3, <2>15, <3>1 DEF PushRaises
  <2>16. CASE UNCHANGED wsVars
    BY <2>3, <2>16 DEF wsVars, wire
  <2> QED BY <2>4, <2>5, <2>6, <2>7, <2>8, <2>9, <2>10, <2>11, <2>12, <2>13, <2>14,
             <2>15, <2>16 DEF WsNext, Page, Connection, Hub
<1>3. Session => SessionAsDesired
  BY DEF Session
<1> QED BY <1>1, <1>2, <1>3, WsTypeCorrect, PTL DEF WsSpec

-----------------------------------------------------------------------------
(* All parts *)

\* A behaviour of the run of the market data is a behaviour of each part: a step of
\* the part chosen at the start, and of the others none.
LEMMA EachPartRunsAlone == MarketDataSpec => Spec /\ FeedSpec /\ WsSpec
  <1>1. MarketDataInit => Init /\ FeedInit /\ WsInit
    BY DEF MarketDataInit
  <1>2. [MarketDataNext]_<<part, vars, feedVars, wsVars>>
          => [Next]_vars /\ [FeedNext]_feedVars /\ [WsNext]_wsVars
    BY DEF MarketDataNext
  <1>3. QED
    BY <1>1, <1>2, PTL DEF MarketDataSpec, Spec, FeedSpec, WsSpec

\* Whichever part runs, the variables of all keep their types.
THEOREM MarketDataTypeCorrect == MarketDataSpec => []MarketDataTypeOK
  BY EachPartRunsAlone, TypeCorrect, FeedTypeCorrect, WsTypeCorrect, PTL DEF MarketDataTypeOK
=============================================================================
