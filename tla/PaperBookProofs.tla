-------------------------- MODULE PaperBookProofs ----------------------------
(***************************************************************************)
(* Theorems about PaperBook: for every number of positions, legs and       *)
(* overlapping requests no lot is lost or closed twice, and the statuses   *)
(* say what is open.                                                       *)
(***************************************************************************)
EXTENDS PaperBook, Induction, TLAPS

USE BookAssumption

-----------------------------------------------------------------------------
(* Shapes: the types of everything but the sums of money *)

LEMMA LegOfPosition ==
  ASSUME NEW p \in Positions, NEW l \in LegsOf[p]
  PROVE  l \in LegIds
  BY DEF LegIds

LEMMA IdleShape == Idle \in Request
  BY DEF Idle, Request, ClientPcs

LEMMA InitShape == Init => ShapeOK
  BY IdleShape DEF Init, ShapeOK, NoLeg, Leg, Idle

\* What a step leaves in a client's request has the shape of a request.
LEMMA RequestShape ==
  ASSUME ShapeOK, NEW c \in Clients, NEW r \in Request,
         r.pc # "idle" => r.pos \in Positions,
         r.pc = "event" => r.kind \in Kinds,
         client' = [client EXCEPT ![c] = r],
         UNCHANGED <<status, leg, lots, audit>>,
         lock' \in [Positions -> Clients \cup {NoClient}],
         spent' \in [closes : 0 .. MaxCloses, faults : 0 .. MaxFaults],
         crossed' \subseteq Positions
  PROVE  ShapeOK'
  BY DEF ShapeOK

\* What close plans for a leg and what it takes of it are natural numbers, and
\* it never takes more than there is.
LEMMA PlannedShape ==
  ASSUME NEW asked \in Quantities \cup {NotGiven}, NEW open \in Nat
  PROVE  Planned(asked, open) \in Nat /\ Planned(asked, open) <= open
  <1>1. CASE asked = NotGiven
    BY <1>1 DEF Planned
  <1>2. CASE asked # NotGiven
    <2>1. asked \in Int
      BY <1>2
    <2>2. Planned(asked, open) = IF asked <= 0 THEN 0 ELSE Lesser(asked, open)
      BY <1>2 DEF Planned
    <2>3. QED
      BY <2>1, <2>2 DEF Lesser
  <1>3. QED
    BY <1>1, <1>2

LEMMA TakenShape ==
  ASSUME ShapeOK, NEW c \in Clients, NEW l \in LegIds
  PROVE  Taken(c, l) \in Nat /\ Taken(c, l) <= client[c].fresh[l]
  <1>1. client[c].plan[l] \in Nat /\ client[c].fresh[l] \in Nat
    BY DEF ShapeOK, Request
  <1>2. QED
    BY <1>1 DEF Taken, Lesser

LEMMA AfterShape ==
  ASSUME NEW g \in Leg, NEW n \in Nat, NEW s \in Statuses
  PROVE  [g EXCEPT !.open = n, !.status = s] \in Leg
  BY DEF Leg

LEMMA NextShape ==
  ASSUME ShapeOK, [Next]_vars
  PROVE  ShapeOK'
  <1> USE IdleShape
  <1>1. ASSUME NEW c \in Clients, NEW p \in Positions, Preview(c, p)
        PROVE  ShapeOK'
    <2>1. PICK fill \in [LegsOf[p] -> Prices] :
             client' = [client EXCEPT ![c] =
                [Idle EXCEPT !.pc = "insert", !.pos = p,
                             !.price = [l \in LegIds |->
                                           IF l \in LegsOf[p] THEN fill[l] ELSE 0]]]
      BY <1>1 DEF Preview
    <2> DEFINE price == [l \in LegIds |-> IF l \in LegsOf[p] THEN fill[l] ELSE 0]
               r == [Idle EXCEPT !.pc = "insert", !.pos = p, !.price = price]
    <2>2. price \in [LegIds -> Prices \cup {0}]
      OBVIOUS
    <2>3. r \in Request /\ r.pos = p /\ r.pc = "insert"
      <3> HIDE DEF price
      <3>1. QED
        BY <2>2 DEF Request, ClientPcs
    <2>4. client' = [client EXCEPT ![c] = r]
      BY <2>1
    <2>5. QED
      <3> HIDE DEF r
      <3>1. QED
        BY <1>1, <2>3, <2>4, RequestShape DEF Preview, bookVars, ShapeOK
  <1>2. ASSUME NEW c \in Clients, Insert(c)
        PROVE  ShapeOK'
    <2> DEFINE p == client[c].pos
               r == [client[c] EXCEPT !.pc = "event", !.kind = "executed"]
    <2>1. client[c] \in Request /\ p \in Positions
      BY <1>2 DEF Insert, ShapeOK
    <2>2. r \in Request /\ r.pos = p /\ r.kind \in Kinds
      BY <2>1 DEF Request, ClientPcs, Kinds
    <2>3. client' = [client EXCEPT ![c] = r]
      BY <1>2 DEF Insert
    <2>4. client' \in [Clients -> Request]
          /\ \A d \in Clients :
                /\ client'[d].pc # "idle" => client'[d].pos \in Positions
                /\ client'[d].pc = "event" => client'[d].kind \in Kinds
      <3> HIDE DEF r
      <3>1. QED
        BY <2>1, <2>2, <2>3 DEF ShapeOK
    <2>5. \A l \in LegsOf[p] :
             [open |-> Qty[l], entry |-> client[c].price[l], status |-> "open"] \in Leg
      BY <2>1, LegOfPosition DEF Request, Leg, Statuses
    <2>6. leg' \in [LegIds -> Leg]
      BY <1>2, <2>5 DEF Insert, ShapeOK
    <2>7. status' \in [Positions -> Statuses \cup {"absent"}]
      BY <1>2 DEF Insert, ShapeOK, Statuses
    <2>8. QED
      BY <1>2, <2>4, <2>6, <2>7 DEF Insert, ShapeOK
  <1>3. ASSUME NEW c \in Clients, NEW p \in Positions,
               NEW asked \in [LegsOf[p] -> Quantities \cup {NotGiven}], ReadLegs(c, p, asked)
        PROVE  ShapeOK'
    <2> DEFINE plan == [l \in LegIds |->
                          IF l \in LegsOf[p] THEN Planned(asked[l], leg[l].open) ELSE 0]
               r == [Idle EXCEPT !.pc = "market", !.pos = p, !.plan = plan]
    <2>1. plan \in [LegIds -> Nat]
      BY PlannedShape DEF ShapeOK, Leg
    <2>2. r \in Request /\ r.pos = p /\ r.pc = "market"
      <3> HIDE DEF plan
      <3>1. QED
        BY <2>1 DEF Request, ClientPcs
    <2>3. client' = [client EXCEPT ![c] = r]
      BY <1>3 DEF ReadLegs
    <2>4. spent' \in [closes : 0 .. MaxCloses, faults : 0 .. MaxFaults]
      BY <1>3 DEF ReadLegs, ShapeOK
    <2>5. QED
      <3> HIDE DEF r
      <3>1. QED
        BY <1>3, <2>2, <2>3, <2>4, RequestShape DEF ReadLegs, bookVars, ShapeOK
  <1>4. ASSUME NEW c \in Clients, Market(c)
        PROVE  ShapeOK'
    <2>1. PICK fill \in [{l \in LegIds : client[c].plan[l] > 0} -> Prices] :
             client' = [client EXCEPT ![c].pc = "begin",
                          ![c].price = [l \in LegIds |-> IF client[c].plan[l] > 0
                                                         THEN fill[l] ELSE 0]]
      BY <1>4 DEF Market
    <2> DEFINE price == [l \in LegIds |-> IF client[c].plan[l] > 0 THEN fill[l] ELSE 0]
               r == [client[c] EXCEPT !.pc = "begin", !.price = price]
    <2>2. price \in [LegIds -> Prices \cup {0}]
      OBVIOUS
    <2>3. client[c] \in Request /\ client[c].pos \in Positions
      BY <1>4 DEF Market, ShapeOK
    <2>4. r \in Request /\ r.pos = client[c].pos /\ r.pc = "begin"
      <3> HIDE DEF price
      <3>1. QED
        BY <2>2, <2>3 DEF Request, ClientPcs
    <2>5. client' = [client EXCEPT ![c] = r]
      <3> HIDE DEF price
      <3>1. client' = [client EXCEPT ![c].pc = "begin", ![c].price = price]
        BY <2>1 DEF price
      <3>2. QED
        BY <3>1 DEF ShapeOK
    <2>6. QED
      <3> HIDE DEF r
      <3>1. QED
        BY <1>4, <2>3, <2>4, <2>5, RequestShape DEF Market, bookVars, ShapeOK
  <1>5. ASSUME NEW c \in Clients, InsufficientDepth(c)
        PROVE  ShapeOK'
    BY <1>5, RequestShape DEF InsufficientDepth, bookVars, ShapeOK, Idle
  <1>6. ASSUME NEW c \in Clients, Begin(c)
        PROVE  ShapeOK'
    <2> DEFINE p == client[c].pos
               r == [client[c] EXCEPT !.pc = "lock", !.seen = status[p]]
    <2>1. client[c] \in Request /\ p \in Positions
      BY <1>6 DEF Begin, ShapeOK
    <2>2. r \in Request /\ r.pos = p /\ r.pc = "lock"
      BY <2>1 DEF Request, ClientPcs, ShapeOK
    <2>3. client' = [client EXCEPT ![c] = r]
      BY <1>6 DEF Begin
    <2>4. QED
      <3> HIDE DEF r
      <3>1. QED
        BY <1>6, <2>1, <2>2, <2>3, RequestShape DEF Begin, bookVars, ShapeOK
  <1>7. ASSUME NEW c \in Clients, Lock(c)
        PROVE  ShapeOK'
    <2> DEFINE fresh == [l \in LegIds |-> leg[l].open]
               r == [client[c] EXCEPT !.pc = "commit", !.fresh = fresh]
    <2>1. client[c] \in Request /\ client[c].pos \in Positions
      BY <1>7 DEF Lock, ShapeOK
    <2>2. fresh \in [LegIds -> Nat]
      BY DEF ShapeOK, Leg
    <2>3. r \in Request /\ r.pos = client[c].pos /\ r.pc = "commit"
      <3> HIDE DEF fresh
      <3>1. QED
        BY <2>1, <2>2 DEF Request, ClientPcs
    <2>4. client' = [client EXCEPT ![c] = r]
      BY <1>7 DEF Lock
    <2>5. lock' \in [Positions -> Clients \cup {NoClient}]
      BY <1>7 DEF Lock, ShapeOK
    <2>6. /\ UNCHANGED <<status, leg, lots, audit>>
          /\ spent' \in [closes : 0 .. MaxCloses, faults : 0 .. MaxFaults]
          /\ crossed' \subseteq Positions
      BY <1>7 DEF Lock, bookVars, ShapeOK
    <2>7. QED
      <3> HIDE DEF r
      <3>1. QED
        BY <2>1, <2>3, <2>4, <2>5, <2>6, RequestShape
  <1>8. ASSUME NEW c \in Clients, Commit(c)
        PROVE  ShapeOK'
    <2> DEFINE p == client[c].pos
               k == IF AllClosed(c) THEN "closed" ELSE "partial_close"
               r == [client[c] EXCEPT !.pc = "event", !.kind = k]
    <2>1. client[c] \in Request /\ p \in Positions
      BY <1>8 DEF Commit, ShapeOK
    <2>2. r \in Request /\ r.pos = p /\ r.kind \in Kinds
      <3>1. k \in Kinds
        BY DEF Kinds
      <3> HIDE DEF k
      <3>2. QED
        BY <2>1, <3>1 DEF Request, ClientPcs
    <2>3. client' = [client EXCEPT ![c] = r]
      BY <1>8 DEF Commit
    <2>4. client' \in [Clients -> Request]
          /\ \A d \in Clients :
                /\ client'[d].pc # "idle" => client'[d].pos \in Positions
                /\ client'[d].pc = "event" => client'[d].kind \in Kinds
      <3> HIDE DEF r
      <3>1. QED
        BY <2>1, <2>2, <2>3 DEF ShapeOK
    <2>5. status' \in [Positions -> Statuses \cup {"absent"}]
      <3>1. Written(c) \in Statuses \cup {"absent"}
        BY <2>1 DEF Written, NextStatus, ShapeOK, Statuses
      <3>2. QED
        BY <1>8, <3>1 DEF Commit, ShapeOK
    <2>6. \A l \in LegIds : Taken(c, l) \in Nat /\ client[c].fresh[l] - Taken(c, l) \in Nat
      <3>1. \A l \in LegIds : client[c].fresh[l] \in Nat
        BY <2>1 DEF Request
      <3>2. QED
        BY <3>1, TakenShape
    <2>7. lots' \in [LegIds -> Nat]
      BY <1>8, <2>6 DEF Commit, ShapeOK
    <2>8. leg' \in [LegIds -> Leg]
      <3>1. ASSUME NEW l \in LegIds PROVE LegAfter(c, l) \in Leg
        BY <2>6, AfterShape DEF LegAfter, ShapeOK, Statuses
      <3>2. QED
        BY <1>8, <3>1 DEF Commit, ShapeOK
    <2>9. lock' \in [Positions -> Clients \cup {NoClient}]
      BY <1>8 DEF Commit, ShapeOK
    <2>10. QED
      BY <1>8, <2>4, <2>5, <2>7, <2>8, <2>9 DEF Commit, ShapeOK
  <1>9. ASSUME NEW c \in Clients, Event(c)
        PROVE  ShapeOK'
    <2>1. client[c].kind \in Kinds /\ client[c].pos \in Positions
      BY <1>9 DEF Event, ShapeOK
    <2>2. Idle.pc = "idle"
      BY DEF Idle
    <2>3. client' \in [Clients -> Request]
          /\ \A d \in Clients :
                /\ client'[d].pc # "idle" => client'[d].pos \in Positions
                /\ client'[d].pc = "event" => client'[d].kind \in Kinds
      BY <1>9, <2>2 DEF Event, ShapeOK
    <2>4. QED
      BY <1>9, <2>1, <2>3 DEF Event, bookVars, ShapeOK
  <1>10. ASSUME NEW c \in Clients, Dies(c)
         PROVE  ShapeOK'
    <2>1. spent' \in [closes : 0 .. MaxCloses, faults : 0 .. MaxFaults]
      BY <1>10 DEF Dies, ShapeOK
    <2>2. QED
      BY <1>10, <2>1, RequestShape DEF Dies, bookVars, ShapeOK, Idle
  <1>11. CASE UNCHANGED vars
    BY <1>11 DEF vars, bookVars, ShapeOK
  <1>12. QED
    BY <1>1, <1>2, <1>3, <1>4, <1>5, <1>6, <1>7, <1>8, <1>9, <1>10, <1>11
    DEF Next, Execute, Close

-----------------------------------------------------------------------------
(* The inductive invariant *)

\* Between the lock and the commit the legs are as the transaction read them.
Locked ==
    \A c \in Clients : client[c].pc = "commit" =>
        /\ lock[client[c].pos] = c
        /\ \A l \in LegsOf[client[c].pos] : client[c].fresh[l] = leg[l].open

\* A close in flight is for a position that exists, and takes something of it.
Aimed ==
    \A c \in Clients : client[c].pc \in {"market", "begin", "lock", "commit"} =>
        /\ Entered(client[c].pos)
        /\ \E l \in LegsOf[client[c].pos] : client[c].plan[l] > 0

\* The position of an execute request in flight is nobody else's.
Reserved ==
    \A c \in Clients : client[c].pc = "insert" =>
        /\ ~Entered(client[c].pos)
        /\ \A d \in Clients : client[d].pos = client[c].pos => d = c

\* Legs of a position nobody has entered have no fills.
Untouched == \A p \in Positions : ~Entered(p) => \A l \in LegsOf[p] : lots[l] = 0

\* What a transaction remembers of the status is still true of the legs, which
\* only shrink.
Remembered ==
    \A c \in Clients : client[c].pc \in {"lock", "commit"} =>
        LET p == client[c].pos IN
        /\ client[c].seen = "closed" => \A l \in LegsOf[p] : leg[l].open = 0
        /\ client[c].seen = "partially_closed" => \E l \in LegsOf[p] : leg[l].open # Qty[l]

BookInv ==
    Locked /\ Aimed /\ Reserved /\ Untouched /\ Remembered /\ LotsConserved /\ StatusIsTrue

LEMMA InitBook == Init => BookInv
  <1> SUFFICES ASSUME Init PROVE BookInv
    OBVIOUS
  <1>1. \A c \in Clients : client[c].pc = "idle"
    BY DEF Init, Idle
  <1>2. Locked /\ Aimed /\ Reserved /\ Remembered
    BY <1>1 DEF Locked, Aimed, Reserved, Remembered
  <1>3. \A p \in Positions : ~Entered(p) /\ \A l \in LegsOf[p] : lots[l] = 0
    BY LegOfPosition DEF Init, Entered
  <1>4. QED
    BY <1>2, <1>3 DEF BookInv, Untouched, LotsConserved, StatusIsTrue

\* What the invariant asks of a request r of client c, given the holders of
\* the locks.
Fits(c, r, holder) ==
    /\ r.pc = "commit" =>
          /\ holder[r.pos] = c
          /\ \A l \in LegsOf[r.pos] : r.fresh[l] = leg[l].open
    /\ r.pc \in {"market", "begin", "lock", "commit"} =>
          /\ Entered(r.pos)
          /\ \E l \in LegsOf[r.pos] : r.plan[l] > 0
    /\ r.pc = "insert" =>
          /\ ~Entered(r.pos)
          /\ \A d \in Clients \ {c} : client[d].pos # r.pos
    /\ \A d \in Clients \ {c} : client[d].pc = "insert" => client[d].pos # r.pos
    /\ r.pc \in {"lock", "commit"} =>
          /\ r.seen = "closed" => \A l \in LegsOf[r.pos] : leg[l].open = 0
          /\ r.seen = "partially_closed" => \E l \in LegsOf[r.pos] : leg[l].open # Qty[l]

\* A request that is under way fits whatever it does not change.
LEMMA OthersInsertElsewhere ==
  ASSUME BookInv, NEW c \in Clients
  PROVE  \A d \in Clients \ {c} : client[d].pc = "insert" => client[d].pos # client[c].pos
  BY DEF BookInv, Reserved

\* A step of client c that leaves the book alone keeps the invariant when its
\* new request fits.
LEMMA ClientStep ==
  ASSUME ShapeOK, BookInv, NEW c \in Clients, NEW r,
         client' = [client EXCEPT ![c] = r],
         UNCHANGED <<status, leg, lots>>,
         \A p \in Positions, d \in Clients \ {c} : lock[p] = d => lock'[p] = d,
         Fits(c, r, lock')
  PROVE  BookInv'
  <1>1. client'[c] = r /\ \A d \in Clients \ {c} : client'[d] = client[d]
    BY DEF ShapeOK
  <1>2. \A p : Entered(p)' <=> Entered(p)
    BY DEF Entered
  <1>3. Locked'
    <2>1. \A d \in Clients \ {c} : client[d].pc = "commit" => client[d].pos \in Positions
      BY DEF ShapeOK
    <2>2. QED
      BY <1>1, <2>1 DEF BookInv, Locked, Fits
  <1>4. Aimed'
    BY <1>1, <1>2 DEF BookInv, Aimed, Fits
  <1>5. Reserved'
    BY <1>1, <1>2 DEF BookInv, Reserved, Fits
  <1>6. Remembered'
    BY <1>1 DEF BookInv, Remembered, Fits
  <1>7. Untouched' /\ LotsConserved' /\ StatusIsTrue'
    BY <1>2 DEF BookInv, Untouched, LotsConserved, StatusIsTrue
  <1>8. QED
    BY <1>3, <1>4, <1>5, <1>6, <1>7 DEF BookInv

LEMMA PreviewBook ==
  ASSUME ShapeOK, BookInv, NEW c \in Clients, NEW p \in Positions, Preview(c, p)
  PROVE  BookInv'
  <1>1. PICK fill \in [LegsOf[p] -> Prices] :
           client' = [client EXCEPT ![c] =
              [Idle EXCEPT !.pc = "insert", !.pos = p,
                           !.price = [l \in LegIds |->
                                         IF l \in LegsOf[p] THEN fill[l] ELSE 0]]]
    BY DEF Preview
  <1> DEFINE r == [Idle EXCEPT !.pc = "insert", !.pos = p,
                     !.price = [l \in LegIds |-> IF l \in LegsOf[p] THEN fill[l] ELSE 0]]
  <1>2. r.pc = "insert" /\ r.pos = p
    BY DEF Idle
  <1>3. client' = [client EXCEPT ![c] = r]
    BY <1>1
  <1> HIDE DEF r
  <1>4. UNCHANGED <<status, leg, lots, lock>> /\ ~Entered(p)
    BY DEF Preview, bookVars, Entered
  <1>5. \A d \in Clients : client[d].pos # p
    BY DEF Preview
  <1>6. Fits(c, r, lock')
    BY <1>2, <1>4, <1>5 DEF Fits
  <1>7. QED
    BY <1>3, <1>4, <1>6, ClientStep

LEMMA ReadLegsBook ==
  ASSUME ShapeOK, BookInv, NEW c \in Clients, NEW p \in Positions,
         NEW asked \in [LegsOf[p] -> Quantities \cup {NotGiven}], ReadLegs(c, p, asked)
  PROVE  BookInv'
  <1> DEFINE plan == [l \in LegIds |->
                        IF l \in LegsOf[p] THEN Planned(asked[l], leg[l].open) ELSE 0]
             r == [Idle EXCEPT !.pc = "market", !.pos = p, !.plan = plan]
  <1>1. r.pc = "market" /\ r.pos = p /\ r.plan = plan
    BY DEF Idle
  <1>2. client' = [client EXCEPT ![c] = r] /\ \E l \in LegsOf[p] : plan[l] > 0
    BY DEF ReadLegs
  <1> HIDE DEF r
  <1>3. UNCHANGED <<status, leg, lots, lock>> /\ Entered(p)
    BY DEF ReadLegs, bookVars, Entered
  <1>4. \A d \in Clients \ {c} : client[d].pc = "insert" => client[d].pos # p
    BY <1>3 DEF BookInv, Reserved
  <1>5. Fits(c, r, lock')
    BY <1>1, <1>2, <1>3, <1>4 DEF Fits
  <1>6. QED
    BY <1>2, <1>3, <1>5, ClientStep

LEMMA MarketBook ==
  ASSUME ShapeOK, BookInv, NEW c \in Clients, Market(c)
  PROVE  BookInv'
  <1>1. PICK fill \in [{l \in LegIds : client[c].plan[l] > 0} -> Prices] :
           client' = [client EXCEPT ![c].pc = "begin",
                        ![c].price = [l \in LegIds |-> IF client[c].plan[l] > 0
                                                       THEN fill[l] ELSE 0]]
    BY DEF Market
  <1> DEFINE price == [l \in LegIds |-> IF client[c].plan[l] > 0 THEN fill[l] ELSE 0]
             r == [client[c] EXCEPT !.pc = "begin", !.price = price]
  <1>2. client[c] \in Request /\ client[c].pc = "market"
    BY DEF Market, ShapeOK
  <1>3. client' = [client EXCEPT ![c] = r]
    <2> HIDE DEF price
    <2>1. client' = [client EXCEPT ![c].pc = "begin", ![c].price = price]
      BY <1>1 DEF price
    <2>2. QED
      BY <2>1 DEF ShapeOK
  <1>4. r.pc = "begin" /\ r.pos = client[c].pos /\ r.plan = client[c].plan
    <2> HIDE DEF price
    <2>1. QED
      BY <1>2 DEF Request
  <1> HIDE DEF r
  <1>5. UNCHANGED <<status, leg, lots, lock>>
    BY DEF Market, bookVars
  <1>6. Entered(client[c].pos) /\ \E l \in LegsOf[client[c].pos] : client[c].plan[l] > 0
    BY <1>2 DEF BookInv, Aimed
  <1>7. Fits(c, r, lock')
    BY <1>4, <1>6, OthersInsertElsewhere DEF Fits
  <1>8. QED
    BY <1>3, <1>5, <1>7, ClientStep

\* The steps that end a request without touching the book.
LEMMA EndBook ==
  ASSUME ShapeOK, BookInv, NEW c \in Clients,
         InsufficientDepth(c) \/ Event(c) \/ Dies(c)
  PROVE  BookInv'
  <1>1. Idle.pc = "idle" /\ Idle.pos = NoClient
    BY DEF Idle
  <1>2. client' = [client EXCEPT ![c] = Idle] /\ UNCHANGED <<status, leg, lots>>
    BY DEF InsufficientDepth, Event, Dies, bookVars
  <1>3. \A p \in Positions, d \in Clients \ {c} : lock[p] = d => lock'[p] = d
    BY DEF InsufficientDepth, Event, Dies, ShapeOK
  <1>4. \A d \in Clients \ {c} : client[d].pc = "insert" => client[d].pos # Idle.pos
    BY <1>1 DEF ShapeOK
  <1>5. Fits(c, Idle, lock')
    BY <1>1, <1>4 DEF Fits
  <1>6. QED
    BY <1>2, <1>3, <1>5, ClientStep

LEMMA BeginBook ==
  ASSUME ShapeOK, BookInv, NEW c \in Clients, Begin(c)
  PROVE  BookInv'
  <1> DEFINE p == client[c].pos
             r == [client[c] EXCEPT !.pc = "lock", !.seen = status[p]]
  <1>1. client[c] \in Request /\ p \in Positions /\ client[c].pc = "begin"
    BY DEF Begin, ShapeOK
  <1>2. r.pc = "lock" /\ r.pos = p /\ r.plan = client[c].plan /\ r.seen = status[p]
    BY <1>1 DEF Request
  <1>3. client' = [client EXCEPT ![c] = r]
    BY DEF Begin
  <1> HIDE DEF r
  <1>4. UNCHANGED <<status, leg, lots, lock>>
    BY DEF Begin, bookVars
  <1>5. Entered(p) /\ \E l \in LegsOf[p] : client[c].plan[l] > 0
    BY <1>1 DEF BookInv, Aimed
  <1>6. /\ status[p] = "closed" => \A l \in LegsOf[p] : leg[l].open = 0
        /\ status[p] = "partially_closed" => \E l \in LegsOf[p] : leg[l].open # Qty[l]
    BY <1>1, <1>5 DEF BookInv, StatusIsTrue
  <1>7. Fits(c, r, lock')
    BY <1>2, <1>5, <1>6, OthersInsertElsewhere DEF Fits
  <1>8. QED
    BY <1>3, <1>4, <1>7, ClientStep

LEMMA LockBook ==
  ASSUME ShapeOK, BookInv, NEW c \in Clients, Lock(c)
  PROVE  BookInv'
  <1> DEFINE p == client[c].pos
             fresh == [l \in LegIds |-> leg[l].open]
             r == [client[c] EXCEPT !.pc = "commit", !.fresh = fresh]
  <1>1. client[c] \in Request /\ p \in Positions /\ client[c].pc = "lock"
    BY DEF Lock, ShapeOK
  <1>2. /\ r.pc = "commit" /\ r.pos = p /\ r.plan = client[c].plan
        /\ r.seen = client[c].seen /\ r.fresh = fresh
    BY <1>1 DEF Request
  <1>3. client' = [client EXCEPT ![c] = r]
    BY DEF Lock
  <1> HIDE DEF r
  <1>4. UNCHANGED <<status, leg, lots>> /\ lock' = [lock EXCEPT ![p] = c] /\ lock[p] = NoClient
    BY DEF Lock, bookVars
  <1>5. lock'[p] = c /\ \A q \in Positions, d \in Clients \ {c} : lock[q] = d => lock'[q] = d
    BY <1>1, <1>4 DEF ShapeOK
  <1>6. \A l \in LegsOf[p] : fresh[l] = leg[l].open
    BY <1>1, LegOfPosition
  <1>7. /\ Entered(p) /\ \E l \in LegsOf[p] : client[c].plan[l] > 0
        /\ client[c].seen = "closed" => \A l \in LegsOf[p] : leg[l].open = 0
        /\ client[c].seen = "partially_closed" => \E l \in LegsOf[p] : leg[l].open # Qty[l]
    BY <1>1 DEF BookInv, Aimed, Remembered
  <1>8. Fits(c, r, lock')
    BY <1>2, <1>5, <1>6, <1>7, OthersInsertElsewhere DEF Fits
  <1>9. QED
    BY <1>3, <1>4, <1>5, <1>8, ClientStep

\* Legs of other positions are other legs.
LEMMA LegsApart ==
  ASSUME NEW p \in Positions, NEW q \in Positions \ {p}, NEW l \in LegsOf[q]
  PROVE  l \in LegIds /\ l \notin LegsOf[p]
  BY LegOfPosition

\* A step of client c that changes the book of position p alone keeps the
\* invariant when it does for p what the invariant says, its own request is at
\* its audit row, and no other request is in its commit of p or about to insert p.
LEMMA PositionStep ==
  ASSUME ShapeOK, BookInv, NEW c \in Clients, NEW p \in Positions,
         client'[c].pc = "event", client'[c].pos = p,
         \A d \in Clients \ {c} : client'[d] = client[d],
         \A d \in Clients \ {c} :
            client[d].pos = p => client[d].pc \notin {"insert", "commit"},
         \A q \in Positions \ {p} : status'[q] = status[q] /\ lock'[q] = lock[q],
         \A q \in Positions \ {p} : \A l \in LegsOf[q] : leg'[l] = leg[l] /\ lots'[l] = lots[l],
         status'[p] \in Statuses,
         \A l \in LegsOf[p] : leg'[l].open + lots'[l] = Qty[l],
         status'[p] = "closed" <=> \A l \in LegsOf[p] : leg'[l].open = 0,
         status'[p] = "open" <=> \A l \in LegsOf[p] : leg'[l].open = Qty[l],
         \A l \in LegsOf[p] : leg'[l].status = "closed" <=> leg'[l].open = 0,
         Entered(p) => \A l \in LegsOf[p] :
            /\ leg[l].open = 0 => leg'[l].open = 0
            /\ leg[l].open # Qty[l] => leg'[l].open # Qty[l]
  PROVE  BookInv'
  <1>1. Entered(p)' /\ \A q \in Positions \ {p} : Entered(q)' <=> Entered(q)
    BY DEF Entered, Statuses
  <1>2. \A d \in Clients \ {c} : client[d].pc # "idle" => client[d].pos \in Positions
    BY DEF ShapeOK
  <1>3. Locked'
    <2> SUFFICES ASSUME NEW d \in Clients, client'[d].pc = "commit"
                 PROVE  /\ lock'[client'[d].pos] = d
                        /\ \A l \in LegsOf[client'[d].pos] :
                              client'[d].fresh[l] = leg'[l].open
      BY DEF Locked
    <2>1. d # c /\ client'[d] = client[d] /\ client[d].pos \in Positions \ {p}
      BY <1>2
    <2>2. QED
      BY <2>1 DEF BookInv, Locked
  <1>4. Aimed'
    <2> SUFFICES ASSUME NEW d \in Clients,
                        client'[d].pc \in {"market", "begin", "lock", "commit"}
                 PROVE  /\ status'[client'[d].pos] # "absent"
                        /\ \E l \in LegsOf[client'[d].pos] : client'[d].plan[l] > 0
      BY DEF Aimed, Entered
    <2>1. d # c /\ client'[d] = client[d] /\ client[d].pos \in Positions
      BY <1>2
    <2>2. Entered(client[d].pos) /\ \E l \in LegsOf[client[d].pos] : client[d].plan[l] > 0
      BY <2>1 DEF BookInv, Aimed
    <2>3. status'[client[d].pos] # "absent"
      BY <1>1, <2>1, <2>2 DEF Entered
    <2>4. QED
      BY <2>1, <2>2, <2>3
  <1>5. Reserved'
    <2> SUFFICES ASSUME NEW d \in Clients, client'[d].pc = "insert"
                 PROVE  /\ status'[client'[d].pos] = "absent"
                        /\ \A e \in Clients : client'[e].pos = client'[d].pos => e = d
      BY DEF Reserved, Entered
    <2>1. d # c /\ client'[d] = client[d] /\ client[d].pos \in Positions \ {p}
      BY <1>2
    <2>2. QED
      BY <2>1 DEF BookInv, Reserved, Entered
  <1>6. Remembered'
    <2> SUFFICES ASSUME NEW d \in Clients, client'[d].pc \in {"lock", "commit"}
                 PROVE  /\ client'[d].seen = "closed" =>
                             \A l \in LegsOf[client'[d].pos] : leg'[l].open = 0
                        /\ client'[d].seen = "partially_closed" =>
                             \E l \in LegsOf[client'[d].pos] : leg'[l].open # Qty[l]
      BY DEF Remembered
    <2>1. d # c /\ client'[d] = client[d] /\ client[d].pos \in Positions
      BY <1>2
    <2>2. /\ Entered(client[d].pos)
          /\ client[d].seen = "closed" => \A l \in LegsOf[client[d].pos] : leg[l].open = 0
          /\ client[d].seen = "partially_closed" =>
                \E l \in LegsOf[client[d].pos] : leg[l].open # Qty[l]
      BY <2>1 DEF BookInv, Remembered, Aimed
    <2>3. CASE client[d].pos = p
      BY <2>1, <2>2, <2>3
    <2>4. CASE client[d].pos # p
      BY <2>1, <2>2, <2>4
    <2>5. QED
      BY <2>3, <2>4
  <1>7. Untouched'
    BY <1>1 DEF BookInv, Untouched, Entered
  <1>8. LotsConserved'
    BY <1>1 DEF BookInv, LotsConserved, Entered
  <1>9. StatusIsTrue'
    <2> SUFFICES ASSUME NEW q \in Positions, Entered(q)'
                 PROVE  /\ status'[q] = "closed" <=> \A l \in LegsOf[q] : leg'[l].open = 0
                        /\ status'[q] = "open" <=> \A l \in LegsOf[q] : leg'[l].open = Qty[l]
                        /\ \A l \in LegsOf[q] : leg'[l].status = "closed" <=> leg'[l].open = 0
      BY DEF StatusIsTrue, Entered
    <2>1. CASE q = p
      BY <2>1
    <2>2. CASE q # p
      BY <1>1, <2>2 DEF BookInv, StatusIsTrue, Entered
    <2>3. QED
      BY <2>1, <2>2
  <1>10. QED
    BY <1>3, <1>4, <1>5, <1>6, <1>7, <1>8, <1>9 DEF BookInv


LEMMA InsertBook ==
  ASSUME ShapeOK, BookInv, NEW c \in Clients, Insert(c)
  PROVE  BookInv'
  <1> DEFINE p == client[c].pos
             r == [client[c] EXCEPT !.pc = "event", !.kind = "executed"]
  <1>1. client[c] \in Request /\ p \in Positions /\ client[c].pc = "insert"
    BY DEF Insert, ShapeOK
  <1>2. ~Entered(p) /\ \A d \in Clients : client[d].pos = p => d = c
    BY <1>1 DEF BookInv, Reserved
  <1>3. client' = [client EXCEPT ![c] = r] /\ r.pc = "event" /\ r.pos = p
    <2>1. client' = [client EXCEPT ![c] = r]
      BY DEF Insert
    <2>2. r.pc = "event" /\ r.pos = p
      BY <1>1 DEF Request
    <2>3. QED
      BY <2>1, <2>2
  <1>4. client'[c].pc = "event" /\ client'[c].pos = p
        /\ \A d \in Clients \ {c} : client'[d] = client[d]
    <2> HIDE DEF r
    <2>1. QED
      BY <1>3 DEF ShapeOK
  <1>5. \A q \in Positions \ {p} : status'[q] = status[q] /\ lock'[q] = lock[q]
    BY <1>1 DEF Insert, ShapeOK
  <1>6. \A q \in Positions \ {p} : \A l \in LegsOf[q] : leg'[l] = leg[l] /\ lots'[l] = lots[l]
    BY <1>1, LegsApart DEF Insert
  <1>7. status'[p] = "open"
    BY <1>1 DEF Insert, ShapeOK
  <1>8. \A l \in LegsOf[p] : leg'[l].open = Qty[l] /\ leg'[l].status = "open" /\ lots'[l] = 0
    BY <1>1, <1>2, LegOfPosition DEF Insert, BookInv, Untouched
  <1>9. \A l \in LegsOf[p] : Qty[l] \in Nat \ {0}
    BY <1>1, LegOfPosition
  <1>10. LegsOf[p] # {}
    BY <1>1
  <1> HIDE DEF p, r
  <1>11. status'[p] \in Statuses /\ p \in Positions
    BY <1>1, <1>7 DEF Statuses
  <1>12. /\ \A l \in LegsOf[p] : leg'[l].open + lots'[l] = Qty[l]
         /\ status'[p] = "closed" <=> \A l \in LegsOf[p] : leg'[l].open = 0
         /\ status'[p] = "open" <=> \A l \in LegsOf[p] : leg'[l].open = Qty[l]
         /\ \A l \in LegsOf[p] : leg'[l].status = "closed" <=> leg'[l].open = 0
    BY <1>7, <1>8, <1>9, <1>10
  <1>13. QED
    BY <1>2, <1>4, <1>5, <1>6, <1>11, <1>12, PositionStep

\* What a commit leaves of the legs of its position.
LEMMA CommitLegs ==
  ASSUME ShapeOK, BookInv, NEW c \in Clients, Commit(c), NEW l \in LegsOf[client[c].pos]
  PROVE  /\ client[c].fresh[l] = leg[l].open
         /\ leg[l].open \in Nat /\ Qty[l] \in Nat \ {0} /\ leg[l].open <= Qty[l]
         /\ Taken(c, l) \in Nat /\ Taken(c, l) <= leg[l].open
         /\ leg'[l].open = leg[l].open - Taken(c, l)
         /\ lots[l] \in Nat /\ lots'[l] = lots[l] + Taken(c, l)
         /\ leg'[l].open + lots'[l] = Qty[l]
         /\ leg'[l].status = "closed" <=> leg'[l].open = 0
  <1> DEFINE p == client[c].pos
  <1>1. client[c] \in Request /\ p \in Positions /\ client[c].pc = "commit" /\ l \in LegIds
    BY LegOfPosition DEF Commit, ShapeOK
  <1>2. client[c].fresh[l] = leg[l].open /\ Entered(p)
    BY <1>1 DEF BookInv, Locked, Aimed
  <1>3. Taken(c, l) \in Nat /\ Taken(c, l) <= leg[l].open
    BY <1>1, <1>2, TakenShape
  <1>4. leg[l] \in Leg /\ lots[l] \in Nat /\ Qty[l] \in Nat \ {0}
    BY <1>1 DEF ShapeOK
  <1>5. leg[l].open + lots[l] = Qty[l] /\ (leg[l].status = "closed" <=> leg[l].open = 0)
    BY <1>1, <1>2 DEF BookInv, LotsConserved, StatusIsTrue
  <1>6. leg'[l] = LegAfter(c, l) /\ lots'[l] = lots[l] + Taken(c, l)
    BY <1>1 DEF Commit
  <1>7. leg[l].open \in Nat
    BY <1>4 DEF Leg
  <1>8. CASE Taken(c, l) > 0
    <2>1. /\ LegAfter(c, l).open = leg[l].open - Taken(c, l)
          /\ LegAfter(c, l).status =
                IF leg[l].open - Taken(c, l) <= 0 THEN "closed" ELSE "partially_closed"
      BY <1>2, <1>4, <1>8 DEF LegAfter, Leg
    <2>2. QED
      BY <1>2, <1>3, <1>4, <1>5, <1>6, <1>7, <2>1
  <1>9. CASE Taken(c, l) = 0
    BY <1>2, <1>3, <1>4, <1>5, <1>6, <1>7, <1>9 DEF LegAfter
  <1>10. QED
    BY <1>3, <1>8, <1>9

\* What a commit writes as the status is what it leaves of the legs.
LEMMA CommitStatus ==
  ASSUME ShapeOK, BookInv, NEW c \in Clients, Commit(c)
  PROVE  LET p == client[c].pos IN
         /\ Written(c) \in Statuses
         /\ Written(c) = "closed" <=> \A l \in LegsOf[p] : leg'[l].open = 0
         /\ Written(c) # "open"
         /\ ~ \A l \in LegsOf[p] : leg'[l].open = Qty[l]
  <1> DEFINE p == client[c].pos
  <1>1. client[c] \in Request /\ p \in Positions /\ client[c].pc = "commit"
    BY DEF Commit, ShapeOK
  <1>2. PICK k \in LegsOf[p] : client[c].plan[k] > 0
    BY <1>1 DEF BookInv, Aimed
  <1>3. status[p] \in Statuses
    BY <1>1 DEF BookInv, Aimed, Entered, ShapeOK
  <1>4. /\ status[p] = "closed" <=> \A l \in LegsOf[p] : leg[l].open = 0
        /\ status[p] = "open" <=> \A l \in LegsOf[p] : leg[l].open = Qty[l]
    BY <1>1 DEF BookInv, Aimed, StatusIsTrue
  <1>5. /\ client[c].seen = "closed" => \A l \in LegsOf[p] : leg[l].open = 0
        /\ client[c].seen = "partially_closed" => \E l \in LegsOf[p] : leg[l].open # Qty[l]
    BY <1>1 DEF BookInv, Remembered
  <1>6. AllClosed(c) <=> \A l \in LegsOf[p] : leg'[l].open = 0
    <2>1. \A l \in LegsOf[p] : client[c].fresh[l] - Taken(c, l) <= 0 <=> leg'[l].open = 0
      BY CommitLegs
    <2>2. QED
      BY <2>1 DEF AllClosed
  <1>7. leg'[k].open # Qty[k]
    <2>1. client[c].plan[k] \in Nat /\ client[c].fresh[k] = leg[k].open
      BY <1>1, <1>2, CommitLegs, LegOfPosition DEF Request
    <2>2. leg[k].open # 0 => Taken(c, k) > 0
      BY <1>2, <2>1, CommitLegs DEF Taken, Lesser
    <2>3. QED
      BY <1>2, <2>2, CommitLegs
  <1>8. \A l \in LegsOf[p] : leg[l].open = 0 => leg'[l].open = 0
    BY CommitLegs
  <1>9. CASE AllClosed(c)
    BY <1>3, <1>4, <1>5, <1>6, <1>7, <1>9 DEF Written, NextStatus, Statuses
  <1>10. CASE ~AllClosed(c)
    BY <1>3, <1>4, <1>5, <1>6, <1>7, <1>8, <1>10 DEF Written, NextStatus, Statuses
  <1>11. QED
    BY <1>9, <1>10

LEMMA CommitBook ==
  ASSUME ShapeOK, BookInv, NEW c \in Clients, Commit(c)
  PROVE  BookInv'
  <1> DEFINE p == client[c].pos
             r == [client[c] EXCEPT !.pc = "event",
                      !.kind = IF AllClosed(c) THEN "closed" ELSE "partial_close"]
  <1>1. client[c] \in Request /\ p \in Positions /\ client[c].pc = "commit"
    BY DEF Commit, ShapeOK
  <1>2. client' = [client EXCEPT ![c] = r] /\ r.pc = "event" /\ r.pos = p
    <2>1. client' = [client EXCEPT ![c] = r]
      BY DEF Commit
    <2>2. r.pc = "event" /\ r.pos = p
      BY <1>1 DEF Request
    <2>3. QED
      BY <2>1, <2>2
  <1>3. client'[c].pc = "event" /\ client'[c].pos = p
        /\ \A d \in Clients \ {c} : client'[d] = client[d]
    <2> HIDE DEF r
    <2>1. QED
      BY <1>2 DEF ShapeOK
  <1>4. \A d \in Clients \ {c} : client[d].pos = p => client[d].pc \notin {"insert", "commit"}
    BY <1>1 DEF BookInv, Reserved, Locked
  <1>5. \A q \in Positions \ {p} : status'[q] = status[q] /\ lock'[q] = lock[q]
    BY <1>1 DEF Commit, ShapeOK
  <1>6. \A q \in Positions \ {p} : \A l \in LegsOf[q] : leg'[l] = leg[l] /\ lots'[l] = lots[l]
    BY <1>1, LegsApart DEF Commit
  <1>7. status'[p] = Written(c)
    BY <1>1 DEF Commit, ShapeOK
  <1>8. /\ \A l \in LegsOf[p] : leg'[l].open + lots'[l] = Qty[l]
        /\ \A l \in LegsOf[p] : leg'[l].status = "closed" <=> leg'[l].open = 0
    BY CommitLegs
  <1>9. \A l \in LegsOf[p] :
           /\ leg[l].open = 0 => leg'[l].open = 0
           /\ leg[l].open # Qty[l] => leg'[l].open # Qty[l]
    BY CommitLegs
  <1>10. /\ status'[p] \in Statuses
         /\ status'[p] = "closed" <=> \A l \in LegsOf[p] : leg'[l].open = 0
         /\ status'[p] = "open" <=> \A l \in LegsOf[p] : leg'[l].open = Qty[l]
    BY <1>7, CommitStatus
  <1> HIDE DEF p, r
  <1>11. p \in Positions
    BY <1>1
  <1>12. QED
    BY <1>3, <1>4, <1>5, <1>6, <1>8, <1>9, <1>10, <1>11, PositionStep

LEMMA NextBook ==
  ASSUME ShapeOK, BookInv, [Next]_vars
  PROVE  BookInv'
  <1>1. CASE UNCHANGED vars
    BY <1>1 DEF vars, bookVars, BookInv, Locked, Aimed, Reserved, Untouched, Remembered,
                LotsConserved, StatusIsTrue, Entered
  <1>2. CASE Next
    <2>1. PICK c \in Clients : Execute(c) \/ Close(c) \/ Event(c) \/ Dies(c)
      BY <1>2 DEF Next
    <2>2. CASE Execute(c)
      BY <2>2, PreviewBook, InsertBook DEF Execute
    <2>3. CASE Close(c)
      BY <2>3, ReadLegsBook, MarketBook, EndBook, BeginBook, LockBook, CommitBook DEF Close
    <2>4. CASE Event(c) \/ Dies(c)
      BY <2>4, EndBook
    <2>5. QED
      BY <2>1, <2>2, <2>3, <2>4
  <1>3. QED
    BY <1>1, <1>2

-----------------------------------------------------------------------------
(* Theorems *)

\* The inductive invariant of the book: what a transaction has locked, planned and
\* read stays true of the tables until it commits (engine.py 190-289).
THEOREM BookInvariant == Spec => [](ShapeOK /\ BookInv)
  <1>1. Init => ShapeOK /\ BookInv
    BY InitShape, InitBook
  <1>2. ShapeOK /\ BookInv /\ [Next]_vars => (ShapeOK /\ BookInv)'
    BY NextShape, NextBook
  <1>3. QED
    BY <1>1, <1>2, PTL DEF Spec

\* Every lot of an executed position is open or in exactly one close fill,
\* whatever requests overlap, die or find no depth (engine.py 190-289).
THEOREM LotsAreConserved == Spec => []LotsConserved
  <1>1. BookInv => LotsConserved
    BY DEF BookInv
  <1>2. QED
    BY <1>1, BookInvariant, PTL

\* The statuses of a position and its legs say what is open, although close
\* decides the position's from a row it read before it had the lock
\* (engine.py 231-283).
THEOREM StatusesAreTrue == Spec => []StatusIsTrue
  <1>1. BookInv => StatusIsTrue
    BY DEF BookInv
  <1>2. QED
    BY <1>1, BookInvariant, PTL


-----------------------------------------------------------------------------
(* The audit log *)

\* What a row of each kind claims of its position.
Supported(p, kind) ==
    /\ kind = "executed" => Entered(p)
    /\ kind = "closed" => status[p] = "closed"
    /\ kind = "partial_close" => \E l \in LegsOf[p] : lots[l] > 0

\* The rows written, and those still to be written, claim what is so.
AuditInv ==
    /\ \A p \in Positions : \A kind \in audit[p] : Supported(p, kind)
    /\ \A c \in Clients : client[c].pc = "event" => Supported(client[c].pos, client[c].kind)

\* A step of one client leaves the requests of the others alone.
LEMMA OthersWait ==
  ASSUME ShapeOK, NEW c \in Clients, Execute(c) \/ Close(c) \/ Event(c) \/ Dies(c),
         NEW d \in Clients, d # c
  PROVE  client'[d] = client[d]
  <1>1. CASE Execute(c)
    BY <1>1 DEF Execute, Preview, Insert, ShapeOK
  <1>2. CASE \E p \in Positions : \E asked \in [LegsOf[p] -> Quantities \cup {NotGiven}] :
                ReadLegs(c, p, asked)
    BY <1>2 DEF ReadLegs, ShapeOK
  <1>3. CASE Market(c)
    BY <1>3 DEF Market, ShapeOK
  <1>4. CASE InsufficientDepth(c) \/ Begin(c) \/ Lock(c)
    BY <1>4 DEF InsufficientDepth, Begin, Lock, ShapeOK
  <1>5. CASE Commit(c)
    BY <1>5 DEF Commit, ShapeOK
  <1>6. CASE Event(c) \/ Dies(c)
    BY <1>6 DEF Event, Dies, ShapeOK
  <1>7. QED
    BY <1>1, <1>2, <1>3, <1>4, <1>5, <1>6 DEF Close

\* Only an insert and a commit change what the claims are about.
LEMMA BookUnchanged ==
  ASSUME NEW c \in Clients, Execute(c) \/ Close(c) \/ Event(c) \/ Dies(c),
         ~Insert(c), ~Commit(c)
  PROVE  UNCHANGED <<status, leg, lots>>
  BY DEF Execute, Close, Preview, ReadLegs, Market, InsufficientDepth, Begin, Lock, Event,
         Dies, bookVars

\* Only an insert and a commit bring a request to its audit row.
LEMMA CloseStepPc ==
  ASSUME ShapeOK, NEW c \in Clients, Execute(c) \/ Close(c), ~Insert(c), ~Commit(c)
  PROVE  client'[c].pc # "event"
  <1>1. Idle.pc = "idle"
    BY DEF Idle
  <1>2. ASSUME NEW p \in Positions, Preview(c, p) PROVE client'[c].pc = "insert"
    BY <1>2 DEF Preview, ShapeOK, Idle
  <1>3. ASSUME NEW p \in Positions, NEW asked, ReadLegs(c, p, asked)
        PROVE  client'[c].pc = "market"
    BY <1>3 DEF ReadLegs, ShapeOK, Idle
  <1>4. CASE Market(c)
    BY <1>4 DEF Market, ShapeOK, Request
  <1>5. CASE InsufficientDepth(c)
    BY <1>1, <1>5 DEF InsufficientDepth, ShapeOK
  <1>6. CASE Begin(c) \/ Lock(c)
    BY <1>6 DEF Begin, Lock, ShapeOK, Request
  <1>7. QED
    BY <1>2, <1>3, <1>4, <1>5, <1>6 DEF Execute, Close

\* No step takes a claim back.
LEMMA SupportKept ==
  ASSUME ShapeOK, BookInv, BookInv', NEW c \in Clients,
         Execute(c) \/ Close(c) \/ Event(c) \/ Dies(c),
         NEW p \in Positions, NEW kind, Supported(p, kind)
  PROVE  Supported(p, kind)'
  <1>1. CASE ~Insert(c) /\ ~Commit(c)
    BY <1>1, BookUnchanged DEF Supported, Entered
  <1>2. CASE Insert(c)
    <2>1. client[c].pos \in Positions /\ status[client[c].pos] = "absent"
      BY <1>2 DEF Insert, ShapeOK, BookInv, Reserved, Entered
    <2>2. lots' = lots /\ (status[p] # "absent" => status'[p] = status[p])
      BY <1>2, <2>1 DEF Insert, ShapeOK
    <2>3. QED
      BY <2>2 DEF Supported, Entered
  <1>3. CASE Commit(c)
    <2>1. client[c].pos \in Positions
      BY <1>3 DEF Commit, ShapeOK
    <2>2. CASE p = client[c].pos
      <3>1. status'[p] = Written(c) /\ Written(c) \in Statuses
        BY <1>3, <2>1, <2>2, CommitStatus DEF Commit, ShapeOK
      <3>2. status[p] = "closed" => \A l \in LegsOf[p] : leg[l].open = 0
        BY DEF BookInv, StatusIsTrue, Entered
      <3>3. (\A l \in LegsOf[p] : leg[l].open = 0) => status'[p] = "closed"
        BY <1>3, <2>2, <3>1, CommitLegs, CommitStatus
      <3>4. ASSUME NEW l \in LegsOf[p]
            PROVE  lots[l] \in Nat /\ lots'[l] \in Nat /\ lots'[l] >= lots[l]
        <4>1. lots'[l] = lots[l] + Taken(c, l) /\ Taken(c, l) \in Nat /\ lots[l] \in Nat
          BY <1>3, <2>2, CommitLegs
        <4>2. QED
          BY <4>1
      <3>5. QED
        BY <3>1, <3>2, <3>3, <3>4 DEF Supported, Entered, Statuses
    <2>3. CASE p # client[c].pos
      <3>1. status'[p] = status[p] /\ \A l \in LegsOf[p] : lots'[l] = lots[l]
        BY <1>3, <2>1, <2>3, LegsApart DEF Commit, ShapeOK
      <3>2. QED
        BY <3>1 DEF Supported, Entered
    <2>4. QED
      BY <2>2, <2>3
  <1>4. QED
    BY <1>1, <1>2, <1>3

\* The row a request is about to write after its commit claims what is so.
LEMMA NewClaim ==
  ASSUME ShapeOK, BookInv, NEW c \in Clients, Insert(c) \/ Commit(c),
         NEW p, NEW kind, p = client'[c].pos, kind = client'[c].kind
  PROVE  Supported(p, kind)'
  <1>1. client[c] \in Request /\ client[c].pos \in Positions
    BY DEF Insert, Commit, ShapeOK
  <1>2. CASE Insert(c)
    <2>1. p = client[c].pos /\ kind = "executed" /\ status'[p] = "open"
      BY <1>1, <1>2 DEF Insert, ShapeOK, Request
    <2>2. QED
      BY <2>1 DEF Supported, Entered
  <1>3. CASE Commit(c)
    <2>1. p = client[c].pos /\ kind = (IF AllClosed(c) THEN "closed" ELSE "partial_close")
      BY <1>1, <1>3 DEF Commit, ShapeOK, Request
    <2>2. status'[p] = Written(c)
      BY <1>1, <1>3, <2>1 DEF Commit, ShapeOK
    <2>3. CASE AllClosed(c)
      <3>1. \A l \in LegsOf[p] : leg'[l].open = 0
        BY <1>3, <2>1, <2>3, CommitLegs DEF AllClosed
      <3>2. QED
        BY <1>3, <2>1, <2>2, <2>3, <3>1, CommitStatus DEF Supported
    <2>4. CASE ~AllClosed(c)
      <3>1. PICK k \in LegsOf[p] : leg'[k].open # Qty[k]
        BY <1>3, <2>1, CommitStatus
      <3>2. leg'[k].open + lots'[k] = Qty[k] /\ Qty[k] \in Nat /\ leg'[k].open \in Int
        BY <1>3, <2>1, <3>1, CommitLegs
      <3>3. lots'[k] \in Nat
        <4>1. lots'[k] = lots[k] + Taken(c, k) /\ Taken(c, k) \in Nat /\ lots[k] \in Nat
          BY <1>3, <2>1, <3>1, CommitLegs
        <4>2. QED
          BY <4>1
      <3>4. lots'[k] > 0
        BY <3>1, <3>2, <3>3
      <3>5. QED
        BY <2>1, <2>4, <3>1, <3>4 DEF Supported
    <2>5. QED
      BY <2>3, <2>4
  <1>4. QED
    BY <1>2, <1>3

LEMMA NextAudit ==
  ASSUME ShapeOK, ShapeOK', BookInv, BookInv', AuditInv, [Next]_vars
  PROVE  AuditInv'
  <1>1. CASE UNCHANGED vars
    BY <1>1 DEF vars, bookVars, AuditInv, Supported, Entered
  <1>2. CASE Next
    <2>1. PICK c \in Clients : Execute(c) \/ Close(c) \/ Event(c) \/ Dies(c)
      BY <1>2 DEF Next
    <2>2. ASSUME NEW p \in Positions, NEW kind \in audit'[p]
          PROVE  Supported(p, kind)'
      <3>1. kind \in audit[p] \/ (client[c].pc = "event" /\ p = client[c].pos
                                    /\ kind = client[c].kind)
        <4>1. CASE Event(c)
          BY <2>2, <4>1 DEF Event, ShapeOK
        <4>2. CASE ~Event(c)
          <5>1. audit' = audit
            BY <2>1, <4>2 DEF Execute, Close, Preview, Insert, ReadLegs, Market,
               InsufficientDepth, Begin, Lock, Commit, Dies
          <5>2. QED
            BY <2>2, <5>1
        <4>3. QED
          BY <4>1, <4>2
      <3>2. Supported(p, kind)
        BY <3>1 DEF AuditInv
      <3>3. QED
        BY <2>1, <3>2, SupportKept
    <2>3. ASSUME NEW d \in Clients, client'[d].pc = "event", NEW p, NEW kind,
                 p = client'[d].pos, kind = client'[d].kind
          PROVE  Supported(p, kind)'
      <3>1. p \in Positions
        BY <2>3 DEF ShapeOK
      <3>2. CASE Insert(c) \/ Commit(c)
        <4>1. CASE d = c
          BY <2>3, <3>2, <4>1, NewClaim
        <4>2. CASE d # c
          <5>1. client'[d] = client[d]
            BY <2>1, <4>2, OthersWait
          <5>2. Supported(p, kind)
            BY <2>3, <5>1 DEF AuditInv
          <5>3. QED
            BY <2>1, <3>1, <5>2, SupportKept
        <4>3. QED
          BY <4>1, <4>2
      <3>3. CASE ~Insert(c) /\ ~Commit(c)
        <4>1. client'[d] = client[d]
          <5>1. d # c => client'[d] = client[d]
            BY <2>1, OthersWait
          <5>2. client'[c].pc # "event"
            <6>1. Idle.pc = "idle"
              BY DEF Idle
            <6>2. CASE Close(c)
              BY <3>3, <6>1, <6>2, CloseStepPc
            <6>3. CASE Execute(c)
              BY <3>3, <6>1, <6>3, CloseStepPc
            <6>4. CASE Event(c) \/ Dies(c)
              BY <6>1, <6>4 DEF Event, Dies, ShapeOK
            <6>5. QED
              BY <2>1, <6>2, <6>3, <6>4
          <5>3. QED
            BY <2>3, <5>1, <5>2
        <4>2. Supported(p, kind)
          BY <2>3, <4>1 DEF AuditInv
        <4>3. QED
          BY <2>1, <3>1, <4>2, SupportKept
      <3>4. QED
        BY <3>2, <3>3
    <2>4. QED
      BY <2>2, <2>3 DEF AuditInv, Supported, Entered
  <1>3. QED
    BY <1>1, <1>2

\* The audit log never claims what was not committed: the row is written by a
\* transaction after the one it tells of, and no later close takes it back
\* (engine.py 183, 285-301).
THEOREM AuditTellsTheTruth == Spec => []AuditIsTrue
  <1>1. Init => AuditInv
    BY DEF Init, AuditInv, Idle
  <1>2. ShapeOK /\ BookInv /\ ShapeOK' /\ BookInv' /\ AuditInv /\ [Next]_vars => AuditInv'
    BY NextAudit
  <1>3. AuditInv => AuditIsTrue
    BY DEF AuditInv, AuditIsTrue, Supported
  <1>4. QED
    BY <1>1, <1>2, <1>3, BookInvariant, PTL DEF Spec

-----------------------------------------------------------------------------
(* The money *)

\* What a close realizes is an integer, leg by leg and in all.
LEMMA SliceType ==
  ASSUME ShapeOK, NEW c \in Clients, NEW l \in LegIds
  PROVE  Slice(c, l) \in Int
  <1>1. Taken(c, l) \in Int /\ client[c].price[l] \in Int /\ leg[l].entry \in Int
    <2>1. Taken(c, l) \in Int
      BY TakenShape
    <2>2. client[c].price[l] \in Prices \cup {0} /\ leg[l].entry \in Prices \cup {0}
      BY DEF ShapeOK, Request, Leg
    <2>3. \A m \in Prices \cup {0} : m \in Int
      OBVIOUS
    <2>4. QED
      BY <2>1, <2>2, <2>3
  <1>2. Side[l] \in Int /\ client[c].price[l] - leg[l].entry \in Int
    BY <1>1
  <1>3. Side[l] * Taken(c, l) \in Int
    BY <1>1, <1>2
  <1>4. QED
    BY <1>2, <1>3 DEF Slice

LEMMA RealizedType ==
  ASSUME ShapeOK, NEW c \in Clients, client[c].pos \in Positions
  PROVE  Realized(c) \in Int
  <1> DEFINE p == client[c].pos
             f == [l \in LegIds |-> Slice(c, l)]
  <1>1. \A l \in LegsOf[p] : f[l] \in Int
    BY SliceType, LegOfPosition
  <1>2. IsFiniteSet(LegsOf[p])
    OBVIOUS
  <1> HIDE DEF f
  <1>3. SumFunctionOnSet(f, LegsOf[p]) \in Int
    BY <1>1, <1>2, SumType
  <1>4. QED
    BY <1>3 DEF Realized, f

\* A commit adds what it realizes to the gain of its position, and to no other.
LEMMA GainGrows ==
  ASSUME ShapeOK, MoneyOK, NEW c \in Clients, Commit(c), NEW q \in Positions
  PROVE  Gain(q)' = IF q = client[c].pos THEN Gain(q) + Realized(c) ELSE Gain(q)
  <1> DEFINE p == client[c].pos
             f == [l \in LegIds |-> gain[l]]
             g == [l \in LegIds |-> Slice(c, l)]
             h == [l \in LegIds |-> gain'[l]]
  <1>1. p \in Positions /\ IsFiniteSet(LegsOf[q])
    BY DEF Commit, ShapeOK
  <1>2. Gain(q) = SumFunctionOnSet(f, LegsOf[q]) /\ Gain(q)' = SumFunctionOnSet(h, LegsOf[q])
    BY DEF Gain
  <1>3. CASE q = p
    <2>1. Realized(c) = SumFunctionOnSet(g, LegsOf[q])
      BY <1>3 DEF Realized
    <2>2. \A l \in LegsOf[q] : f[l] \in Int /\ g[l] \in Int /\ h[l] = f[l] + g[l]
      BY <1>3, SliceType, LegOfPosition DEF Commit, MoneyOK
    <2> HIDE DEF f, g, h
    <2>3. SumFunctionOnSet(h, LegsOf[q])
            = SumFunctionOnSet(f, LegsOf[q]) + SumFunctionOnSet(g, LegsOf[q])
      BY <1>1, <2>2, SumAdds
    <2>4. QED
      BY <1>2, <1>3, <2>1, <2>3
  <1>4. CASE q # p
    <2>1. \A l \in LegsOf[q] : f[l] = h[l]
      BY <1>1, <1>4, LegsApart DEF Commit
    <2> HIDE DEF f, h
    <2>2. SumFunctionOnSet(f, LegsOf[q]) = SumFunctionOnSet(h, LegsOf[q])
      BY <1>1, <2>1, SumSame
    <2>3. QED
      BY <1>2, <1>4, <2>2
  <1>5. QED
    BY <1>3, <1>4

\* Only the read at the begin of a transaction and its commit touch the money.
LEMMA MoneyUnchanged ==
  ASSUME NEW c \in Clients, Execute(c) \/ Close(c) \/ Event(c) \/ Dies(c),
         ~Begin(c), ~Commit(c)
  PROVE  UNCHANGED <<realized, gain, total, crossed>>
  BY DEF Execute, Close, Preview, Insert, ReadLegs, Market, InsufficientDepth, Lock, Event,
         Dies, bookVars

LEMMA NextMoney ==
  ASSUME ShapeOK, MoneyOK, [Next]_vars
  PROVE  MoneyOK'
  <1>1. CASE UNCHANGED vars
    BY <1>1 DEF vars, bookVars, MoneyOK
  <1>2. ASSUME NEW c \in Clients, Begin(c)
        PROVE  MoneyOK'
    <2>1. client[c].pos \in Positions
      BY <1>2 DEF Begin, ShapeOK
    <2>2. QED
      BY <1>2, <2>1 DEF Begin, bookVars, MoneyOK
  <1>3. ASSUME NEW c \in Clients, Commit(c)
        PROVE  MoneyOK'
    <2>1. client[c].pos \in Positions
      BY <1>3 DEF Commit, ShapeOK
    <2>2. Gained(c) \in Int
      BY <2>1, RealizedType DEF Gained, MoneyOK
    <2>3. realized' \in [Positions -> Int]
      BY <1>3, <2>1, <2>2 DEF Commit, MoneyOK
    <2>4. \A l \in LegIds : gain[l] \in Int /\ Slice(c, l) \in Int
      BY SliceType DEF MoneyOK
    <2>5. \A l \in LegIds : gain[l] + Slice(c, l) \in Int
      BY <2>4
    <2>6. gain' \in [LegIds -> Int]
      BY <1>3, <2>4, <2>5 DEF Commit
    <2>7. QED
      BY <1>3, <2>3, <2>6 DEF Commit, MoneyOK
  <1>4. ASSUME NEW c \in Clients, Execute(c) \/ Close(c) \/ Event(c) \/ Dies(c),
               ~Begin(c), ~Commit(c)
        PROVE  MoneyOK'
    BY <1>4, MoneyUnchanged DEF MoneyOK
  <1>5. QED
    BY <1>1, <1>2, <1>3, <1>4 DEF Next

\* Every variable of the book keeps its type: the sums of money too, which are
\* folds over the legs.
THEOREM BookTypeCorrect == Spec => []TypeOK
  <1>1. Init => ShapeOK /\ MoneyOK
    BY InitShape DEF Init, MoneyOK
  <1>2. ShapeOK /\ MoneyOK /\ [Next]_vars => (ShapeOK /\ MoneyOK)'
    BY NextShape, NextMoney
  <1>3. QED
    BY <1>1, <1>2, PTL DEF Spec, TypeOK

-----------------------------------------------------------------------------
(* The realized total of a position whose closes do not overlap *)

\* Such a position has one transaction at a time, and the total it has read is
\* still the one in the row, which is the sum over the fills.
Alone ==
    \A p \in Positions : p \notin crossed =>
        /\ realized[p] = Gain(p)
        /\ \A c, d \in Clients : InTransaction(c, p) /\ InTransaction(d, p) => c = d
        /\ \A c \in Clients : InTransaction(c, p) => total[c] = realized[p]

\* A request comes into a transaction by its begin only.
LEMMA EntersByBegin ==
  ASSUME ShapeOK, NEW c \in Clients, Execute(c) \/ Close(c) \/ Event(c) \/ Dies(c),
         ~Begin(c), NEW p \in Positions, InTransaction(c, p)'
  PROVE  InTransaction(c, p) /\ ~Commit(c)
  <1> USE DEF InTransaction, ShapeOK
  <1>1. Idle.pc = "idle"
    BY DEF Idle
  <1>2. ASSUME NEW q \in Positions, Preview(c, q) PROVE FALSE
    BY <1>2 DEF Preview, Idle
  <1>3. ASSUME NEW q \in Positions, NEW asked, ReadLegs(c, q, asked) PROVE FALSE
    BY <1>3 DEF ReadLegs, Idle
  <1>4. CASE Insert(c) \/ Commit(c) \/ Market(c)
    <2>1. CASE Insert(c)
      BY <2>1 DEF Insert
    <2>2. CASE Commit(c)
      BY <2>2 DEF Commit
    <2>3. CASE Market(c)
      BY <2>3 DEF Market
    <2>4. QED
      BY <1>4, <2>1, <2>2, <2>3
  <1>5. CASE InsufficientDepth(c) \/ Event(c) \/ Dies(c)
    BY <1>1, <1>5 DEF InsufficientDepth, Event, Dies
  <1>6. CASE Lock(c)
    BY <1>6 DEF Lock, Commit, Request
  <1>7. QED
    BY <1>2, <1>3, <1>4, <1>5, <1>6 DEF Execute, Close

LEMMA NextAlone ==
  ASSUME ShapeOK, MoneyOK, Alone, [Next]_vars
  PROVE  Alone'
  <1>1. CASE UNCHANGED vars
    BY <1>1 DEF vars, bookVars, Alone, Gain, InTransaction
  <1>2. ASSUME NEW c \in Clients, Execute(c) \/ Close(c) \/ Event(c) \/ Dies(c)
        PROVE  Alone'
    <2> SUFFICES ASSUME NEW p \in Positions, p \notin crossed'
                 PROVE  /\ realized'[p] = Gain(p)'
                        /\ \A b, d \in Clients :
                              InTransaction(b, p)' /\ InTransaction(d, p)' => b = d
                        /\ \A d \in Clients : InTransaction(d, p)' => total'[d] = realized'[p]
      BY DEF Alone
    <2>1. \A d \in Clients \ {c} : InTransaction(d, p)' <=> InTransaction(d, p)
      BY <1>2, OthersWait DEF InTransaction
    <2>2. CASE Begin(c)
      <3>1. /\ UNCHANGED <<realized, gain>> /\ crossed \subseteq crossed'
            /\ total' = [total EXCEPT ![c] = realized[client[c].pos]]
            /\ client'[c].pos = client[c].pos /\ client[c].pc = "begin"
        BY <2>2 DEF Begin, bookVars, ShapeOK, Request
      <3>2. /\ realized[p] = Gain(p)
            /\ \A b, d \in Clients : InTransaction(b, p) /\ InTransaction(d, p) => b = d
            /\ \A d \in Clients : InTransaction(d, p) => total[d] = realized[p]
        BY <3>1 DEF Alone
      <3>3. Gain(p)' = Gain(p)
        BY <3>1 DEF Gain
      <3>4. client[c].pos = p => \A d \in Clients : ~InTransaction(d, p)
        BY <2>2 DEF Begin
      <3>5. InTransaction(c, p)' => client[c].pos = p /\ total'[c] = realized[p]
        BY <3>1 DEF InTransaction, MoneyOK
      <3>6. \A d \in Clients \ {c} : total'[d] = total[d]
        BY <3>1 DEF MoneyOK
      <3>7. QED
        BY <2>1, <3>1, <3>2, <3>3, <3>4, <3>5, <3>6
    <2>3. CASE Commit(c)
      <3>1. /\ UNCHANGED <<total, crossed>> /\ client[c].pos \in Positions
            /\ InTransaction(c, client[c].pos) /\ ~InTransaction(c, p)'
            /\ realized' = [realized EXCEPT ![client[c].pos] = Gained(c)]
        BY <2>3 DEF Commit, InTransaction, ShapeOK, Request
      <3>2. /\ realized[p] = Gain(p)
            /\ \A b, d \in Clients : InTransaction(b, p) /\ InTransaction(d, p) => b = d
            /\ \A d \in Clients : InTransaction(d, p) => total[d] = realized[p]
        BY <3>1 DEF Alone
      <3>3. CASE client[c].pos = p
        <4>1. Realized(c) \in Int /\ realized[p] \in Int /\ total[c] = realized[p]
          BY <3>1, <3>2, <3>3, RealizedType DEF MoneyOK
        <4>2. Gained(c) = realized[p] + Realized(c)
          BY <3>3, <4>1 DEF Gained
        <4>3. Gain(p)' = Gain(p) + Realized(c)
          BY <2>3, <3>3, GainGrows
        <4>4. realized'[p] = Gain(p)'
          BY <3>1, <3>2, <3>3, <4>2, <4>3 DEF MoneyOK
        <4>5. \A d \in Clients : ~InTransaction(d, p)'
          BY <2>1, <3>1, <3>2, <3>3
        <4>6. QED
          BY <4>4, <4>5
      <3>4. CASE client[c].pos # p
        <4>1. Gain(p)' = Gain(p) /\ realized'[p] = realized[p]
          BY <2>3, <3>1, <3>4, GainGrows DEF MoneyOK
        <4>2. QED
          BY <2>1, <3>1, <3>2, <4>1
      <3>5. QED
        BY <3>3, <3>4
    <2>4. CASE ~Begin(c) /\ ~Commit(c)
      <3>1. UNCHANGED <<realized, gain, total, crossed>>
        BY <1>2, <2>4, MoneyUnchanged
      <3>2. InTransaction(c, p)' => InTransaction(c, p)
        BY <1>2, <2>4, EntersByBegin
      <3>3. Gain(p)' = Gain(p)
        BY <3>1 DEF Gain
      <3>4. QED
        BY <2>1, <3>1, <3>2, <3>3 DEF Alone
    <2>5. QED
      BY <2>2, <2>3, <2>4
  <1>3. QED
    BY <1>1, <1>2 DEF Next

\* The realized total of a position is the sum over its close fills as long as
\* no two of its closes were in their transactions at once, whatever else
\* overlaps and whatever died (close's session.get before its lock).
THEOREM RealizedIsTheSum == Spec => []RealizedIsSumAlone
  <1>1. Init => Alone
    <2> SUFFICES ASSUME Init, NEW p \in Positions
                 PROVE  /\ realized[p] = Gain(p)
                        /\ \A c \in Clients : ~InTransaction(c, p)
      BY DEF Alone
    <2>1. \A c \in Clients : ~InTransaction(c, p)
      BY DEF Init, Idle, InTransaction
    <2> DEFINE f == [l \in LegIds |-> gain[l]]
    <2>2. \A l \in LegsOf[p] : f[l] = 0
      BY LegOfPosition DEF Init
    <2>3. IsFiniteSet(LegsOf[p]) /\ realized[p] = 0
      BY DEF Init
    <2>4. SumFunctionOnSet(f, LegsOf[p]) = 0
      <3> HIDE DEF f
      <3>1. QED
        BY <2>2, <2>3, SumType
    <2>5. QED
      BY <2>1, <2>3, <2>4 DEF Gain
  <1>2. ShapeOK /\ MoneyOK /\ Alone /\ [Next]_vars => Alone'
    BY NextAlone
  <1>3. Alone => RealizedIsSumAlone
    BY DEF Alone, RealizedIsSumAlone
  <1>4. QED
    BY <1>1, <1>2, <1>3, BookTypeCorrect, PTL DEF Spec, TypeOK

=============================================================================
