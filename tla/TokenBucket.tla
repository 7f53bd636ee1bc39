----------------------------- MODULE TokenBucket -----------------------------
(***************************************************************************)
(* The token bucket before every authenticated call (live/auth_gate.py:    *)
(* 58-83, delta_rest.py:98-104).  The clock runs in steps that are worth   *)
(* one unit, and Unit units are a token, so that parts of a token exist.   *)
(* The lock of asyncio is handed on in the order it was asked for.         *)
(***************************************************************************)
EXTENDS Integers, Sequences, FiniteSets

CONSTANTS
  Callers,
  OrderPlacing,   \* those that place orders, and do not wait for a token
  NoCaller,
  Unit,           \* units in a token: the rate is 1 / Unit per step
  Capacity,       \* tokens, "burst"
  MaxSteps        \* bound on the clock

ASSUME BucketBounds ==
  /\ OrderPlacing \subseteq Callers /\ NoCaller \notin Callers
  /\ {Unit, Capacity} \subseteq Nat \ {0} /\ MaxSteps \in Nat

VARIABLES
  steps,     \* time.monotonic()
  tokens,    \* _tokens, in units
  updated,   \* _updated
  sleeper,   \* who sleeps in acquire, with the lock
  wakesAt,   \* when its sleep is over
  lockQueue, \* who waits for the lock
  granted    \* observer: when each token was handed out

bucketVars == <<steps, tokens, updated, sleeper, wakesAt, lockQueue, granted>>

BucketInit ==
  /\ steps = 0 /\ tokens = Capacity * Unit /\ updated = 0
  /\ sleeper = NoCaller /\ wakesAt = 0 /\ lockQueue = <<>>
  /\ granted = <<>>

StepPasses ==
  /\ steps < MaxSteps
  /\ steps' = steps + 1
  /\ UNCHANGED <<tokens, updated, sleeper, wakesAt, lockQueue, granted>>

-----------------------------------------------------------------------------
\* Mutant of Refilled: an idle bucket fills without end.
RefilledUncapped == tokens + (steps - updated)

Refilled ==
  LET full == Capacity * Unit
      now == tokens + (steps - updated)
  IN  IF now < full THEN now ELSE full

(* The lock is taken at once, or after those that asked before. *)
Acquire(c) ==
  /\ c # sleeper /\ \A i \in DOMAIN lockQueue : lockQueue[i] # c
  /\ lockQueue' = Append(lockQueue, c)
  /\ UNCHANGED <<steps, tokens, updated, sleeper, wakesAt, granted>>

LockHandedOn == sleeper = NoCaller /\ lockQueue # <<>>

(* A token is there: one step of the event loop, from the lock to its end. *)
Granted ==
  /\ LockHandedOn /\ Refilled >= Unit
  /\ tokens' = Refilled - Unit /\ updated' = steps
  /\ lockQueue' = Tail(lockQueue)
  /\ granted' = Append(granted, steps)
  /\ UNCHANGED <<steps, sleeper, wakesAt>>

(* RateLimitError, for a call that places an order. *)
Refused ==
  /\ LockHandedOn /\ Refilled < Unit /\ Head(lockQueue) \in OrderPlacing
  /\ tokens' = Refilled /\ updated' = steps
  /\ lockQueue' = Tail(lockQueue)
  /\ UNCHANGED <<steps, sleeper, wakesAt, granted>>

(* Any other call sleeps, and holds the lock. *)
Sleeps ==
  /\ LockHandedOn /\ Refilled < Unit /\ Head(lockQueue) \notin OrderPlacing
  /\ tokens' = Refilled /\ updated' = steps
  /\ sleeper' = Head(lockQueue) /\ wakesAt' = steps + (Unit - Refilled)
  /\ lockQueue' = Tail(lockQueue)
  /\ UNCHANGED <<steps, granted>>

(* It wakes when its time is over, or later (a timer that fires a little   *)
(* early is left out), and takes the token unasked.                        *)
Wakes ==
  /\ sleeper # NoCaller /\ steps >= wakesAt
  /\ tokens' = Refilled - Unit /\ updated' = steps
  /\ sleeper' = NoCaller
  /\ granted' = Append(granted, steps)
  /\ UNCHANGED <<steps, wakesAt, lockQueue>>

(* A request is cancelled while it waits; the lock is released with it. *)
Cancelled(c) ==
  /\ \/ sleeper = c /\ sleeper' = NoCaller /\ UNCHANGED lockQueue
     \/ \E i \in DOMAIN lockQueue :
          /\ lockQueue[i] = c
          /\ lockQueue' = [j \in 1..(Len(lockQueue) - 1) |->
                             lockQueue[IF j < i THEN j ELSE j + 1]]
          /\ UNCHANGED sleeper
  /\ UNCHANGED <<steps, tokens, updated, wakesAt, granted>>

BucketNext ==
  \/ \E c \in Callers : Acquire(c) \/ Cancelled(c)
  \/ StepPasses \/ Granted \/ Refused \/ Sleeps \/ Wakes

BucketSpec == BucketInit /\ [][BucketNext]_bucketVars

-----------------------------------------------------------------------------
BucketTypeOK ==
  /\ steps \in 0..MaxSteps /\ updated \in 0..steps /\ tokens \in 0..(Capacity * Unit)
  /\ sleeper \in Callers \cup {NoCaller} /\ wakesAt \in Nat
  /\ lockQueue \in Seq(Callers) /\ granted \in Seq(0..MaxSteps)

(* "close burst can't push the account over Delta's rate limit": in every  *)
(* stretch of time no more calls are let through than a full bucket and    *)
(* what the rate adds, whoever sleeps, wakes late or gives up in it.       *)
(* auth_gate.py:68-83.                                                     *)
RateHeld ==
  \A i, j \in DOMAIN granted :
    i <= j => (j - i + 1) * Unit <= Capacity * Unit + (granted[j] - granted[i])

=============================================================================
