---------------------------- MODULE StopLossDocs -----------------------------
(***************************************************************************)
(* What the documents and comments say of the stop-loss and the code does  *)
(* not do.  Each property below is violated by a run of its own.           *)
(***************************************************************************)
EXTENDS StopLossLiveness

\* RUNBOOK_LIVE 48: "Then Disarm (badge clears) and confirm no orders fire."
\* No order is outstanding for a strategy whose disarming was confirmed.  disarm
\* and the monitor do not exclude each other: the monitor acts on the hash it
\* read before the disarm.
NoOrderAfterDisarm ==
    mon.pc = "place" /\ Pending # {} => reply[mon.sid] # "disarmed"

\* ADR 0004, 242: "CLOSING --> CLOSED: all legs flat (size==0)".  An order that is
\* accepted counts as a closed leg, however little of it was filled.
ClosedMeansFlat ==
    [][\A s \in Strategies :
          hash[s].state # "CLOSED" /\ hash'[s].state = "CLOSED"
             => \A x \in Legs[s] : position[x] = 0]_hash

\* ADR 0004, 230: "A per-ARMED-strategy worker watches aggregated MTM."  A strategy
\* re-armed while its last close ends is confirmed ARMED and then dropped from
\* the index by that close.  (A disarm request that overlaps the arm drops it the
\* same way, which takes two requests at once and no close.)
RearmedStopIsWatched ==
    \A s \in Strategies : reply[s] = "armed" /\ hash[s].state = "ARMED" => s \in index

=============================================================================
