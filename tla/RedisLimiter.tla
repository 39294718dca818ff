----------------------------- MODULE RedisLimiter -----------------------------
(***************************************************************************)
(* The rate limiter over RedisCache.  incr is two commands to a server      *)
(* shared by every instance: INCR, and EXPIRE if INCR created the counter.  *)
(* Each may fail, or the handler be dropped while it waits for the answer   *)
(* (30 s TimeoutLayer, a crash of the instance).  The server removes a      *)
(* counter when its time to live is over.                                  *)
(***************************************************************************)
EXTENDS RateLimiter, Integers

VARIABLES
    counter,    \* per key the value of its counter, 0 when there is none
    ttl         \* per key the ticks it has left, None when it never expires

vars == <<pc, key, verdict, passed, counter, ttl>>

Init ==
    /\ LimiterInit
    /\ counter = [k \in Keys |-> 0]
    /\ ttl = [k \in Keys |-> None]

Call(c) ==
    /\ Arrive(c, "incr")
    /\ UNCHANGED <<counter, ttl>>

\* Mutant of Incr: every caller that is let through goes on to EXPIRE.
IncrThenExpire(c) ==
    /\ pc[c] = "incr"
    /\ LET k == key[c]
           count == Counted(counter[k])
       IN  /\ counter' = [counter EXCEPT ![k] = count]
           /\ Pass(k, count)
           /\ IF Allows(count)
              THEN pc' = [pc EXCEPT ![c] = "expire"] /\ UNCHANGED <<key, verdict>>
              ELSE Leave(c, "limited")
    /\ UNCHANGED ttl

\* Mutant of Incr: every caller goes on to EXPIRE.
IncrSliding(c) ==
    /\ pc[c] = "incr"
    /\ LET k == key[c]
           count == Counted(counter[k])
       IN  /\ counter' = [counter EXCEPT ![k] = count]
           /\ Pass(k, count)
    /\ pc' = [pc EXCEPT ![c] = "expire"]
    /\ UNCHANGED <<key, verdict, ttl>>

\* INCR: the caller that created the counter goes on to expire it.
Incr(c) ==
    /\ pc[c] = "incr"
    /\ LET k == key[c]
           count == Counted(counter[k])
       IN  /\ counter' = [counter EXCEPT ![k] = count]
           /\ Pass(k, count)
           /\ \/ /\ count = 1
                 /\ pc' = [pc EXCEPT ![c] = "expire"]
                 /\ UNCHANGED <<key, verdict>>
              \/ count > 1 /\ Leave(c, Verdict(count))
              \/ Leave(c, "error")
    /\ UNCHANGED ttl

\* Mutant of Expire: the time to live is forgotten.
ExpireNothing(c) ==
    /\ pc[c] = "expire"
    /\ Leave(c, Verdict(1))
    /\ UNCHANGED <<passed, counter, ttl>>

\* Mutant of Expire: the time to live is rounded up.
ExpireLate(c) ==
    /\ pc[c] = "expire"
    /\ ttl' = [ttl EXCEPT ![key[c]] = IF counter[key[c]] = 0 THEN @ ELSE Window + 1]
    /\ Leave(c, Verdict(1)) \/ Leave(c, "error")
    /\ UNCHANGED <<passed, counter>>

\* EXPIRE on a counter that is gone does nothing.
Expire(c) ==
    /\ pc[c] = "expire"
    /\ ttl' = [ttl EXCEPT ![key[c]] = IF counter[key[c]] = 0 THEN @ ELSE Window]
    /\ Leave(c, Verdict(1)) \/ Leave(c, "error")
    /\ UNCHANGED <<passed, counter>>

\* The command never reaches the server.
Fail(c) ==
    /\ pc[c] # "idle"
    /\ Leave(c, "error")
    /\ UNCHANGED <<passed, counter, ttl>>

Tick ==
    /\ counter' = [k \in Keys |-> IF ttl[k] = 1 THEN 0 ELSE counter[k]]
    /\ ttl' = [k \in Keys |-> IF ttl[k] \in {None, 1} THEN None ELSE ttl[k] - 1]
    /\ PassedAge
    /\ UNCHANGED <<pc, key, verdict>>

Step(c) == Incr(c) \/ Expire(c) \/ Fail(c)

Next == Tick \/ \E c \in Callers : Call(c) \/ Step(c)

\* The clock advances, and a command sent is answered or fails.
Fairness == WF_vars(Tick) /\ \A c \in Callers : WF_vars(Step(c))

Spec == Init /\ [][Next]_vars /\ Fairness

-----------------------------------------------------------------------------
(* Type correctness: an expiring key exists.                               *)
TypeOK ==
    /\ LimiterTypeOK
    /\ pc \in [Callers -> {"idle", "incr", "expire"}]
    /\ counter \in [Keys -> 0 .. CountCap]
    /\ ttl \in [Keys -> 1 .. Window \cup {None}]
    /\ \A k \in Keys : ttl[k] # None => counter[k] > 0

\* A window may last longer than asked for, as its time runs from the EXPIRE,
\* but never shorter: no span of a window sees more than two limits.
BurstBounded == BurstWithin(Window)

\* At most one caller is on its way to expire a counter, and it has one:
\* no EXPIRE reaches a counter that somebody else created.
OneExpirer ==
    \A c \in Callers : pc[c] = "expire" =>
        /\ counter[key[c]] > 0 /\ ttl[key[c]] = None
        /\ \A d \in Callers : pc[d] = "expire" /\ key[d] = key[c] => d = c

\* What was let through in a window's time, the counter let through but for one
\* limit; and since its EXPIRE, or in this tick, nobody but the counter did.
BurstOK ==
    \A k \in Keys, a \in Ages :
        /\ passed[k][a] <= Limit + Used(counter[k])
        /\ a = 0 => passed[k][a] <= Used(counter[k])
        /\ ttl[k] # None /\ a <= Window - ttl[k] => passed[k][a] <= Used(counter[k])

\* The invariant behind BurstBounded and OneExpirer.
IInv == TypeOK /\ Keyed /\ OneExpirer /\ BurstOK

\* A window that has begun to run out is never prolonged: however late a
\* caller's EXPIRE comes, it does not reach a counter that has its time to
\* live already (redis.rs:65).
NeverProlonged ==
    [][\A k \in Keys : ttl[k] # None => ttl'[k] \in {ttl[k], ttl[k] - 1, None}]_vars

\* A call of k that reaches the server now would be refused.
Full(k) == counter[k] >= Limit

\* A counter that does not expire, and that nobody is about to expire.
Orphan(k) ==
    /\ counter[k] > 0 /\ ttl[k] = None
    /\ \A c \in Callers : ~(pc[c] = "expire" /\ key[c] = k)

\* A key that is limited with no end of its window in sight.
LockedOut(k) == Orphan(k) /\ Full(k)

\* However many calls keep hitting a full window, it ends, or its counter lost
\* the one EXPIRE it gets.
WindowEndsUnlessLost == \A k \in Keys : Full(k) ~> ~Full(k) \/ Orphan(k)

\* It loses it only to a failure that a caller at this key was told of, or
\* that dropped it: never to an interleaving.
LostByFailure ==
    [][\A k \in Keys : ~Orphan(k) /\ Orphan(k)' =>
          \E c \in Callers : /\ pc[c] # "idle" /\ key[c] = k
                             /\ pc'[c] = "idle" /\ verdict'[c] = "error"]_vars

\* The documented fixed window: a full window ends.
WindowEnds == \A k \in Keys : Full(k) ~> ~Full(k)
=============================================================================
