------------------------------ MODULE PnlCurve ------------------------------
(***************************************************************************)
(* The profit-and-loss curve of the detail panels (LiveStrategyDetail.tsx, *)
(* PaperPositionDetail.tsx): seeded once from the history the server       *)
(* keeps, then appended to, and drawn green above zero and red below.  The *)
(* pages give the panel no key, so the panel, and its curve, outlive a     *)
(* change of the selection.  Browser and server have the same clock.       *)
(***************************************************************************)
EXTENDS Integers, Sequences, FiniteSets

CONSTANTS
  Selectable, Nobody,
  Kinds,       \* "live", "paper": the panels differ in when they append
  Pnls,        \* the values the profit takes
  CurveCap,    \* 1800 in the code
  MaxHistory,  \* bound on the points of the server's history
  MaxClock

ASSUME CurveBounds ==
  /\ CurveCap \in Nat \ {0} /\ {MaxHistory, MaxClock} \subseteq Nat \ {0}
  /\ Pnls \subseteq Int

VARIABLES
  kind,      \* which panel this is
  selection, \* what it shows, or Nobody
  seeded,    \* seededRef
  curve,     \* the points
  pnlShown,  \* the value the append effect last ran for
  clock

curveVars == <<kind, selection, seeded, curve, pnlShown, clock>>

Points == [at : 0..MaxClock, pnl : Pnls]

CurveInit ==
  /\ kind \in Kinds
  /\ selection = Nobody /\ seeded = FALSE /\ curve = <<>> /\ pnlShown = Nobody
  /\ clock = 1

-----------------------------------------------------------------------------
(* A row is clicked: the panel is mounted, or shows another one. *)
SelectRow(s) ==
  /\ s # selection
  /\ selection' = s
  /\ UNCHANGED <<kind, seeded, curve, pnlShown, clock>>

(* What is shown disappears from the list. *)
SelectionGone ==
  /\ selection # Nobody
  /\ selection' = Nobody
  /\ seeded' = FALSE /\ curve' = <<>> /\ pnlShown' = Nobody
  /\ UNCHANGED <<kind, clock>>

(* The server's history: points from before the answer, in order. *)
Histories == {h \in UNION {[1..n -> Points] : n \in 0..MaxHistory} :
                /\ \A i \in DOMAIN h : h[i].at <= clock
                /\ \A i, j \in DOMAIN h : i < j => h[i].at < h[j].at}

\* Mutant of Seeded: the history goes behind what was appended meanwhile.
SeededBehind(h) == curve \o h

(* It replaces whatever was appended while it was fetched. *)
Seeded(h) == h

HistoryArrives ==
  /\ selection # Nobody /\ ~seeded
  /\ seeded' = TRUE
  /\ \E h \in Histories : curve' = Seeded(h)
  /\ UNCHANGED <<kind, selection, pnlShown, clock>>

Appended(p) ==
  LET next == Append(curve, p)
  IN  IF Len(next) > CurveCap THEN SubSeq(next, Len(next) - CurveCap + 1, Len(next))
                              ELSE next

(* The effect on the value of the profit. *)
LiveSample(v) ==
  /\ kind = "live" /\ selection # Nobody /\ v # pnlShown
  /\ pnlShown' = v
  /\ curve' = Appended([at |-> clock, pnl |-> v])
  /\ UNCHANGED <<kind, selection, seeded, clock>>

(* The effect on the sampled snapshot, a new one each time. *)
PaperSample(v) ==
  /\ kind = "paper" /\ selection # Nobody
  /\ pnlShown' = v
  /\ curve' = Appended([at |-> clock, pnl |-> v])
  /\ UNCHANGED <<kind, selection, seeded, clock>>

ClockTicks ==
  /\ clock < MaxClock
  /\ clock' = clock + 1
  /\ UNCHANGED <<kind, selection, seeded, curve, pnlShown>>

CurveNext ==
  \/ \E s \in Selectable : SelectRow(s)
  \/ SelectionGone \/ HistoryArrives \/ ClockTicks
  \/ \E v \in Pnls : LiveSample(v) \/ PaperSample(v)

CurveSpec == CurveInit /\ [][CurveNext]_curveVars

-----------------------------------------------------------------------------
(* PnlChart: the extent of the curve and zero. *)
PnlOf(points) == {points[i].pnl : i \in DOMAIN points}
Highest(points) == CHOOSE v \in PnlOf(points) \cup {0} :
                     \A w \in PnlOf(points) \cup {0} : w <= v
Lowest(points) == CHOOSE v \in PnlOf(points) \cup {0} :
                     \A w \in PnlOf(points) \cup {0} : v <= w

\* Mutant of ZeroOffset: it is measured from the bottom.
OffsetFromBottom(points) ==
  LET range == Highest(points) - Lowest(points)
  IN  IF range = 0 THEN <<1, 1>> ELSE <<-Lowest(points), range>>

(* Where the gradient changes, from the top of the drawing, as a fraction. *)
ZeroOffset(points) ==
  LET range == Highest(points) - Lowest(points)
  IN  IF range = 0 THEN <<1, 1>> ELSE <<Highest(points), range>>

(* The drawing reaches from the lowest to the highest value of the curve   *)
(* alone, and so does the gradient on it.                                  *)
DrawnGreen(points, v) ==
  LET top == CHOOSE w \in PnlOf(points) : \A u \in PnlOf(points) : u <= w
      bottom == CHOOSE w \in PnlOf(points) : \A u \in PnlOf(points) : w <= u
      zero == ZeroOffset(points)
  IN  (top - v) * zero[2] < zero[1] * (top - bottom)

-----------------------------------------------------------------------------
(* The curve is in the order of time, however the answer with the history, *)
(* the samples and changes of the selection interleave: the axis of the    *)
(* chart takes the points as they come.  PaperPositionDetail.tsx:64-92.    *)
CurveInOrder ==
  \A i, j \in DOMAIN curve : i < j => curve[i].at <= curve[j].at

(* Every stretch of the curve above zero is green and every stretch below  *)
(* is red, although gradient and zero are measured on different extents.   *)
(* The lowest value of a curve all in profit is not claimed: it lies on    *)
(* the last stop, where the red begins.  PaperPositionDetail.tsx:227-241,  *)
(* 247-259.                                                                *)
GreenIffProfit ==
  \A v \in Pnls :
    (\E u, w \in PnlOf(curve) : u <= v /\ v <= w /\ u < w) =>
      /\ v > 0 /\ (\E u \in PnlOf(curve) : u < v) => DrawnGreen(curve, v)
      /\ v < 0 => ~DrawnGreen(curve, v)

=============================================================================
