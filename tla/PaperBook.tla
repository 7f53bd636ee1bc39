------------------------------ MODULE PaperBook ------------------------------
(***************************************************************************)
(* The paper-trading book: PaperEngine.execute and PaperEngine.close as    *)
(* the requests of several clients on one Postgres database.  A request    *)
(* reads the legs, fetches market data, and then applies its plan in one   *)
(* READ COMMITTED transaction that locks the legs but not the position.    *)
(* Written values are invisible to others until the commit, so a           *)
(* transaction is three steps: read the position, lock the legs, commit.   *)
(***************************************************************************)
EXTENDS Integers, FiniteSets, Functions

CONSTANTS
    Positions,   \* ids of paper_positions
    LegsOf,      \* the ids of the paper_legs of each position
    Side,        \* 1 for a leg that was bought, -1 for one that was sold
    Qty,         \* lots of each leg, as executed (one lot is one contract unit)
    Prices,      \* the fill prices compute_fill may find
    Quantities,  \* lots a close request may ask of a leg
    NotGiven,    \* a leg the close request does not name
    Clients,     \* requests that may be in flight together
    NoClient,    \* nobody: an idle request has no position, a free lock no holder
    MaxCloses,   \* bound: close requests
    MaxFaults    \* bound: requests that die before they answer

LegIds == UNION {LegsOf[p] : p \in Positions}

ASSUME BookAssumption ==
    /\ \A p \in Positions : LegsOf[p] # {} /\ IsFiniteSet(LegsOf[p])
    /\ \A p, q \in Positions : p # q => LegsOf[p] \cap LegsOf[q] = {}
    /\ Side \in [LegIds -> {1, -1}]
    /\ Qty \in [LegIds -> Nat \ {0}]
    /\ Prices \subseteq Nat \ {0}
    /\ Quantities \subseteq Int
    /\ NotGiven \notin Int
    /\ NoClient \notin Clients \cup Positions
    /\ MaxCloses \in Nat
    /\ MaxFaults \in Nat

VARIABLES
    status,    \* paper_positions.status
    realized,  \* paper_positions.realized_pnl
    leg,       \* paper_legs: qty_open, entry_fill, status
    lots,      \* paper_fills of kind close: the lots of each leg they add up to
    gain,      \* and what they realized
    audit,     \* paper_events: the kinds written for each position
    lock,      \* who holds FOR UPDATE on the legs of each position
    client,    \* the request each client has in flight
    total,     \* the realized_pnl its transaction has read
    spent,     \* how much of each bound is used
    \* Observer: no action of the program reads it.
    crossed    \* positions two closes of which were in their transactions at once

bookVars == <<status, realized, leg, lots, gain>>
vars == <<bookVars, audit, lock, client, total, spent, crossed>>

-----------------------------------------------------------------------------
(* Values *)

Statuses == {"open", "partially_closed", "closed"}

NoLeg == [open |-> 0, entry |-> 0, status |-> "absent"]

\* A request in flight: the position, the lots it plans to close of each leg,
\* the fill prices found, the status and the open lots its transaction read,
\* and the audit row it still has to write.
Idle == [pc |-> "idle", pos |-> NoClient, plan |-> [l \in LegIds |-> 0],
         price |-> [l \in LegIds |-> 0], seen |-> "absent",
         fresh |-> [l \in LegIds |-> 0], kind |-> "none"]

ClientPcs == {"idle", "insert", "market", "begin", "lock", "commit", "event"}
Kinds == {"executed", "closed", "partial_close"}

Leg == [open : Nat, entry : Prices \cup {0}, status : Statuses \cup {"absent"}]

Request == [pc : ClientPcs, pos : Positions \cup {NoClient}, plan : [LegIds -> Nat],
            price : [LegIds -> Prices \cup {0}], seen : Statuses \cup {"absent"},
            fresh : [LegIds -> Nat], kind : Kinds \cup {"none"}]

ShapeOK ==
    /\ status \in [Positions -> Statuses \cup {"absent"}]
    /\ leg \in [LegIds -> Leg]
    /\ lots \in [LegIds -> Nat]
    /\ audit \in [Positions -> SUBSET Kinds]
    /\ lock \in [Positions -> Clients \cup {NoClient}]
    /\ client \in [Clients -> Request]
    /\ \A c \in Clients :
          /\ client[c].pc # "idle" => client[c].pos \in Positions
          /\ client[c].pc = "event" => client[c].kind \in Kinds
    /\ spent \in [closes : 0 .. MaxCloses, faults : 0 .. MaxFaults]
    /\ crossed \subseteq Positions

MoneyOK ==
    /\ realized \in [Positions -> Int]
    /\ gain \in [LegIds -> Int]
    /\ total \in [Clients -> Int]

TypeOK == ShapeOK /\ MoneyOK

Init ==
    /\ status = [p \in Positions |-> "absent"]
    /\ realized = [p \in Positions |-> 0]
    /\ leg = [l \in LegIds |-> NoLeg]
    /\ lots = [l \in LegIds |-> 0]
    /\ gain = [l \in LegIds |-> 0]
    /\ audit = [p \in Positions |-> {}]
    /\ lock = [p \in Positions |-> NoClient]
    /\ client = [c \in Clients |-> Idle]
    /\ total = [c \in Clients |-> 0]
    /\ spent = [closes |-> 0, faults |-> 0]
    /\ crossed = {}

-----------------------------------------------------------------------------
(* PaperEngine.execute *)

\* preview finds a fill for every leg.  If one has not enough depth the request
\* ends with 409 and nothing has changed.
Preview(c, p) ==
    /\ client[c].pc = "idle"
    /\ status[p] = "absent"
    /\ \A d \in Clients : client[d].pos # p
    /\ \E fill \in [LegsOf[p] -> Prices] :
          client' = [client EXCEPT ![c] =
                        [Idle EXCEPT !.pc = "insert", !.pos = p,
                                     !.price = [l \in LegIds |->
                                                   IF l \in LegsOf[p] THEN fill[l] ELSE 0]]]
    /\ UNCHANGED <<bookVars, audit, lock, total, spent, crossed>>

\* One transaction inserts the position, its legs and their entry fills.
Insert(c) ==
    /\ client[c].pc = "insert"
    /\ LET p == client[c].pos IN
       /\ status' = [status EXCEPT ![p] = "open"]
       /\ leg' = [l \in LegIds |->
                    IF l \in LegsOf[p]
                    THEN [open |-> Qty[l], entry |-> client[c].price[l], status |-> "open"]
                    ELSE leg[l]]
    /\ client' = [client EXCEPT ![c].pc = "event", ![c].kind = "executed"]
    /\ UNCHANGED <<realized, lots, gain, audit, lock, total, spent, crossed>>

-----------------------------------------------------------------------------
(* PaperEngine.close *)

Lesser(m, n) == IF m < n THEN m ELSE n

\* Lots of a leg with `open` lots a request plans to close: a leg it does not
\* name is closed in full, like every leg of a request that names none, and a
\* quantity that is not positive leaves the leg out.
Planned(asked, open) ==
    IF asked = NotGiven THEN open
    ELSE IF asked <= 0 THEN 0
    ELSE Lesser(asked, open)

\* The legs are read in a session of their own and the plan is made from them.
\* A plan without legs is answered 404 and changes nothing.
ReadLegs(c, p, asked) ==
    /\ client[c].pc = "idle"
    /\ status[p] # "absent"
    /\ spent.closes < MaxCloses
    /\ LET plan == [l \in LegIds |->
                      IF l \in LegsOf[p] THEN Planned(asked[l], leg[l].open) ELSE 0]
       IN  /\ \E l \in LegsOf[p] : plan[l] > 0
           /\ client' = [client EXCEPT ![c] =
                            [Idle EXCEPT !.pc = "market", !.pos = p, !.plan = plan]]
    /\ spent' = [spent EXCEPT !.closes = @ + 1]
    /\ UNCHANGED <<bookVars, audit, lock, total, crossed>>

\* The books are fetched and execute_close finds a fill for every planned leg.
Market(c) ==
    /\ client[c].pc = "market"
    /\ \E fill \in [{l \in LegIds : client[c].plan[l] > 0} -> Prices] :
          client' = [client EXCEPT ![c].pc = "begin",
                                   ![c].price = [l \in LegIds |->
                                                   IF client[c].plan[l] > 0
                                                   THEN fill[l] ELSE 0]]
    /\ UNCHANGED <<bookVars, audit, lock, total, spent, crossed>>

\* A leg has not enough depth: 409, and nothing has changed.
InsufficientDepth(c) ==
    /\ client[c].pc = "market"
    /\ client' = [client EXCEPT ![c] = Idle]
    /\ UNCHANGED <<bookVars, audit, lock, total, spent, crossed>>

InTransaction(c, p) == client[c].pos = p /\ client[c].pc \in {"lock", "commit"}

\* The transaction begins with session.get, which takes no lock.
Begin(c) ==
    /\ client[c].pc = "begin"
    /\ LET p == client[c].pos IN
       /\ client' = [client EXCEPT ![c].pc = "lock", ![c].seen = status[p]]
       /\ total' = [total EXCEPT ![c] = realized[p]]
       /\ crossed' = IF \E d \in Clients : InTransaction(d, p)
                     THEN crossed \cup {p} ELSE crossed
    /\ UNCHANGED <<bookVars, audit, lock, spent>>

\* Mutant of Lock: the legs are read again without FOR UPDATE.
ReadUnlocked(c) ==
    /\ client[c].pc = "lock"
    /\ client' = [client EXCEPT ![c].pc = "commit", ![c].fresh = [l \in LegIds |-> leg[l].open]]
    /\ UNCHANGED <<bookVars, audit, lock, total, spent, crossed>>

\* SELECT ... FOR UPDATE waits for the legs and returns what is committed then.
Lock(c) ==
    /\ client[c].pc = "lock"
    /\ lock[client[c].pos] = NoClient
    /\ lock' = [lock EXCEPT ![client[c].pos] = c]
    /\ client' = [client EXCEPT ![c].pc = "commit", ![c].fresh = [l \in LegIds |-> leg[l].open]]
    /\ UNCHANGED <<bookVars, audit, total, spent, crossed>>

\* Mutant of Taken: the plan is applied as it was made.
TakenAsPlanned(c, l) == client[c].plan[l]

\* What the transaction takes of a leg: clamped to what is still open.
Taken(c, l) == Lesser(client[c].plan[l], client[c].fresh[l])

\* realized_pnl_slice of what is taken; Realized adds the legs up.
Slice(c, l) == Side[l] * Taken(c, l) * (client[c].price[l] - leg[l].entry)

Realized(c) == SumFunctionOnSet([l \in LegIds |-> Slice(c, l)], LegsOf[client[c].pos])

\* Mutant of AllClosed: only the legs of the plan are looked at.
PlanClosed(c) ==
    \A l \in LegsOf[client[c].pos] :
        client[c].plan[l] > 0 => client[c].fresh[l] - Taken(c, l) <= 0

AllClosed(c) == \A l \in LegsOf[client[c].pos] : client[c].fresh[l] - Taken(c, l) <= 0

\* Mutant of NextStatus: a close that leaves something open leaves the status.
StatusKept(c) == IF AllClosed(c) THEN "closed" ELSE client[c].seen

NextStatus(c) == IF AllClosed(c) THEN "closed" ELSE "partially_closed"

\* Mutant of Gained: the total is set to what this close gained.
GainedAlone(c) == Realized(c)

\* An attribute of the row is only written when its value differs from the
\* one that was read, and then as the sum on what was read.
Gained(c) ==
    IF Realized(c) = 0 THEN realized[client[c].pos]
    ELSE total[c] + Realized(c)

Written(c) == IF NextStatus(c) = client[c].seen
              THEN status[client[c].pos] ELSE NextStatus(c)

LegAfter(c, l) ==
    LET open == client[c].fresh[l] - Taken(c, l) IN
    IF Taken(c, l) > 0
    THEN [leg[l] EXCEPT !.open = open,
                        !.status = IF open <= 0 THEN "closed" ELSE "partially_closed"]
    ELSE leg[l]

Commit(c) ==
    /\ client[c].pc = "commit"
    /\ LET p == client[c].pos IN
       /\ leg' = [l \in LegIds |-> IF l \in LegsOf[p] THEN LegAfter(c, l) ELSE leg[l]]
       /\ lots' = [l \in LegIds |->
                     IF l \in LegsOf[p] THEN lots[l] + Taken(c, l) ELSE lots[l]]
       /\ gain' = [l \in LegIds |->
                     IF l \in LegsOf[p] THEN gain[l] + Slice(c, l) ELSE gain[l]]
       /\ status' = [status EXCEPT ![p] = Written(c)]
       /\ realized' = [realized EXCEPT ![p] = Gained(c)]
       /\ lock' = [lock EXCEPT ![p] = IF @ = c THEN NoClient ELSE @]
    /\ client' = [client EXCEPT ![c].pc = "event",
                                ![c].kind = IF AllClosed(c) THEN "closed" ELSE "partial_close"]
    /\ UNCHANGED <<audit, total, spent, crossed>>

-----------------------------------------------------------------------------
(* The end of both requests *)

\* The audit row is a transaction of its own, after the one it tells of.
Event(c) ==
    /\ client[c].pc = "event"
    /\ audit' = [audit EXCEPT ![client[c].pos] = @ \cup {client[c].kind}]
    /\ client' = [client EXCEPT ![c] = Idle]
    /\ UNCHANGED <<bookVars, lock, total, spent, crossed>>

\* The database raises or the process stops: an open transaction is rolled back.
Dies(c) ==
    /\ client[c].pc # "idle"
    /\ spent.faults < MaxFaults
    /\ spent' = [spent EXCEPT !.faults = @ + 1]
    /\ lock' = [p \in Positions |-> IF lock[p] = c THEN NoClient ELSE lock[p]]
    /\ client' = [client EXCEPT ![c] = Idle]
    /\ UNCHANGED <<bookVars, audit, total, crossed>>

Execute(c) == (\E p \in Positions : Preview(c, p)) \/ Insert(c)

Close(c) ==
    \/ \E p \in Positions : \E asked \in [LegsOf[p] -> Quantities \cup {NotGiven}] :
          ReadLegs(c, p, asked)
    \/ Market(c)
    \/ InsufficientDepth(c)
    \/ Begin(c)
    \/ Lock(c)
    \/ Commit(c)

Next == \E c \in Clients : Execute(c) \/ Close(c) \/ Event(c) \/ Dies(c)

Spec == Init /\ [][Next]_vars

-----------------------------------------------------------------------------
(* Safety *)

Entered(p) == status[p] # "absent"

\* Every lot of a position is either still open or in exactly one close fill,
\* however many closes overlap: none is closed twice and none is lost (the
\* lock and the clamp in close).
LotsConserved ==
    \A p \in Positions : Entered(p) =>
        \A l \in LegsOf[p] : leg[l].open + lots[l] = Qty[l]

\* The status of the position and of its legs says what is open, although the
\* status is decided from a row read before the lock.
StatusIsTrue ==
    \A p \in Positions : Entered(p) =>
        /\ status[p] = "closed" <=> \A l \in LegsOf[p] : leg[l].open = 0
        /\ status[p] = "open" <=> \A l \in LegsOf[p] : leg[l].open = Qty[l]
        /\ \A l \in LegsOf[p] : leg[l].status = "closed" <=> leg[l].open = 0

Gain(p) == SumFunctionOnSet([l \in LegIds |-> gain[l]], LegsOf[p])

\* The realized PnL of a position is the sum over its close fills, for any order
\* of closes whose transactions do not overlap, failed ones included.
RealizedIsSumAlone ==
    \A p \in Positions : p \notin crossed => realized[p] = Gain(p)

\* The audit log never claims more than was committed: a position it calls
\* closed is closed, one it calls partially closed has a close fill.
AuditIsTrue ==
    \A p \in Positions :
        /\ "executed" \in audit[p] => Entered(p)
        /\ "closed" \in audit[p] => status[p] = "closed"
        /\ "partial_close" \in audit[p] => \E l \in LegsOf[p] : lots[l] > 0

=============================================================================
