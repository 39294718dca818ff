----------------------------- MODULE RateLimiter -----------------------------
(***************************************************************************)
(* rate_limit::check of thaumiel-server, over the incr of whichever Cache  *)
(* is configured: MemoryLimiter and RedisLimiter extend this module with   *)
(* theirs.  A window starts when a counter is created and ends when the    *)
(* counter expires; time is counted in ticks.                              *)
(***************************************************************************)
EXTENDS Naturals

CONSTANTS
    Callers,    \* requests that may be at the limiter at the same time
    Keys,       \* limited identities (API key prefixes)
    Limit,      \* calls let through per window
    Window,     \* length of a window, in ticks
    None

ASSUME LimiterAssumption ==
    /\ Limit \in Nat \ {0} /\ Window \in Nat \ {0}
    /\ None \notin Keys \cup 1 .. Window

VARIABLES
    pc,         \* where each caller is, "idle" when not at the limiter
    key,        \* the key each caller is counted under
    verdict,    \* what check returned to each caller last
    passed      \* history: passed[k][a] calls of k were let through at most a
                \* ticks ago

Ages == 0 .. Window - 1

\* Counters are i64 values; past the limit their value no longer matters.
CountCap == Limit + 1
Counted(n) == IF n < CountCap THEN n + 1 ELSE n

LimiterInit ==
    /\ pc = [c \in Callers |-> "idle"]
    /\ key = [c \in Callers |-> None]
    /\ verdict = [c \in Callers |-> "none"]
    /\ passed = [k \in Keys |-> [a \in Ages |-> 0]]

\* A call of check is counted under one key.
Arrive(c, step) ==
    /\ pc[c] = "idle"
    /\ pc' = [pc EXCEPT ![c] = step]
    /\ \E k \in Keys : key' = [key EXCEPT ![c] = k]
    /\ verdict' = [verdict EXCEPT ![c] = "none"]
    /\ UNCHANGED passed

Leave(c, answer) ==
    /\ pc' = [pc EXCEPT ![c] = "idle"]
    /\ key' = [key EXCEPT ![c] = None]
    /\ verdict' = [verdict EXCEPT ![c] = answer]

\* Mutant of Allows: one call too many.
AllowsOneMore(count) == count <= Limit + 1

Allows(count) == count <= Limit

Verdict(count) == IF Allows(count) THEN "ok" ELSE "limited"

\* The call that is counted now is let through unless the limit is exceeded.
\* (The caller may yet fail and never hear so.)
Pass(k, count) ==
    passed' = IF Allows(count)
              THEN [passed EXCEPT ![k] = [a \in Ages |-> @[a] + 1]]
              ELSE passed

PassedAge ==
    passed' = [k \in Keys |-> [a \in Ages |-> IF a = 0 THEN 0 ELSE passed[k][a - 1]]]

LimiterTypeOK ==
    /\ key \in [Callers -> Keys \cup {None}]
    /\ verdict \in [Callers -> {"none", "ok", "limited", "error"}]
    /\ passed \in [Keys -> [Ages -> Nat]]

\* A fixed window lets a burst through at its end and another at the start of
\* the next, but never more: two limits within a span of ticks.
BurstWithin(span) ==
    \A k \in Keys, a \in Ages : a < span => passed[k][a] <= 2 * Limit

\* A caller at the limiter is counted under a key.
Keyed == \A c \in Callers : pc[c] # "idle" => key[c] \in Keys

\* The calls let through by a counter that has come to this value.
Used(count) == IF count < Limit THEN count ELSE Limit
=============================================================================
