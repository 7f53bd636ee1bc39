-------------------------- MODULE StopLossLiveness ---------------------------
(***************************************************************************)
(* What the stop-loss must eventually do, under the fairness of the event  *)
(* loop: it keeps running the monitor and the requests it has accepted,    *)
(* while users, the market and the failures owe nothing.                   *)
(***************************************************************************)
EXTENDS StopLoss, Functions

\* The event loop keeps running the tasks it holds; the environment may do
\* nothing at all.
FairSpec ==
    /\ Spec
    /\ WF_vars(MonitorStep)
    /\ \A c \in Calls : WF_vars(\E s \in Strategies :
                                 ArmIndex(c, s) \/ ArmDone(c, s) \/ DisarmDelete(c, s)
                                     \/ DisarmUnindex(c, s) \/ DisarmDone(c, s))

\* A close that started ends, also when the process restarts or a tick fails in
\* the middle of it: _tick resumes CLOSING (with no disarm under way).
CloseEnds ==
    \A s \in Strategies : hash[s].state = "CLOSING" ~> hash[s].state \in {"CLOSED", "FAILED"}

\* What the monitor would find if it looked at strategy s now.
LegView(x) == WithLeg(EmptyAggregate, x, snap[x], latest[x])

BreachingNow(s) ==
    Breaching([loss   |-> SumFunctionOnSet([x \in Symbols |-> LegView(x).loss], Legs[s]),
               margin |-> SumFunctionOnSet([x \in Symbols |-> LegView(x).margin], Legs[s]),
               stale  |-> \E x \in Legs[s] : LegView(x).stale], hash[s])

\* An armed stop-loss whose breach lasts fires: with the copies of the account
\* and the marks at rest from some point on, a strategy does not stay confirmed
\* ARMED and breaching for ever.  (While they move, the legs are read one after
\* the other and may add up to a loss no instant shows.)
LastingBreachFires ==
    \A s \in Strategies :
        ~ /\ <>[](hash[s].state = "ARMED" /\ reply[s] = "armed" /\ BreachingNow(s))
          /\ <>[][FALSE]_<<snap, latest>>

=============================================================================
