----------------------------- MODULE RateLimiter -----------------------------
(***************************************************************************)
(* SlidingWindowRateLimiter (app/core/security.py): per key a deque of the *)
(* attempts allowed within the last Window time units, at most Limit of    *)
(* them.  Each call is one step under the limiter's lock.                  *)
(***************************************************************************)
EXTENDS Naturals, Sequences, FiniteSets

CONSTANTS Keys, Limit, Window

ASSUME LimiterAssumption == Limit \in Nat \ {0} /\ Window \in Nat \ {0}

VARIABLES
  clock,      \* time.monotonic()
  attempts,   \* key -> the deque of its allowed attempts
  granted     \* history: key -> every attempt ever allowed

limiterVars == <<attempts, granted>>

InitLimiter ==
  /\ clock = 0
  /\ attempts = [k \in Keys |-> <<>>]
  /\ granted = [k \in Keys |-> <<>>]

\* Mutant: an attempt exactly one window old still counts.
PassedLate(t) == clock - t > Window

\* An attempt that has left the window.
Passed(t) == clock - t >= Window

\* Mutant: the whole deque goes with its first attempt.
RecentOrNone(k) ==
  IF attempts[k] # <<>> /\ Passed(attempts[k][1]) THEN <<>> ELSE attempts[k]

\* The loop of popleft stops at the first attempt that has not passed.
Recent(k) ==
  LET kept == {i \in 1..Len(attempts[k]) : ~Passed(attempts[k][i])}
      first == CHOOSE i \in kept : \A j \in kept : i <= j
  IN IF kept = {} THEN <<>> ELSE SubSeq(attempts[k], first, Len(attempts[k]))

Allow(k) ==
  /\ Len(Recent(k)) < Limit
  /\ attempts' = [attempts EXCEPT ![k] = Append(Recent(k), clock)]
  /\ granted' = [granted EXCEPT ![k] = Append(granted[k], clock)]

Refuse(k) ==
  /\ Len(Recent(k)) >= Limit
  /\ attempts' = [attempts EXCEPT ![k] = Recent(k)]
  /\ UNCHANGED granted

\* The attempts allowed in the window that ends now.
InWindow(k) == {i \in 1..Len(granted[k]) : clock - granted[k][i] < Window}

-----------------------------------------------------------------------------
\* Over the whole history of a key no window holds more than Limit attempts.
NoWindowOverfull == \A k \in Keys : Cardinality(InWindow(k)) <= Limit

\* The deque forgets nothing that still counts: at any time an attempt would
\* be refused exactly when the window is full.
RefusesOnlyWhenFull ==
  \A k \in Keys : Len(Recent(k)) >= Limit <=> Cardinality(InWindow(k)) >= Limit
=============================================================================
