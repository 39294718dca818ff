---------------------------- MODULE MemoryLimiter ----------------------------
(***************************************************************************)
(* The rate limiter over InMemoryCache: a map behind a mutex, its entries  *)
(* removed lazily.  incr reads the clock before it takes the mutex, so by  *)
(* the time it holds it the time it read may lag behind.                   *)
(***************************************************************************)
EXTENDS RateLimiter, Integers

CONSTANT MaxLag     \* bound on the ticks a caller waits for the mutex

ASSUME LagAssumption == MaxLag \in Nat /\ MaxLag < Window

VARIABLES
    store,      \* per key an entry, or None; "left" counts down to expires_at
    lag         \* how old the time is that each caller read

vars == <<pc, key, verdict, passed, store, lag>>

Entry == [value : 1 .. CountCap, left : -MaxLag .. Window]

ASSUME EntryAssumption == None \notin Entry

Expired(entry, late) == entry.left + late <= 0

Init ==
    /\ LimiterInit
    /\ store = [k \in Keys |-> None]
    /\ lag = [c \in Callers |-> 0]

ReadClock(c) ==
    /\ Arrive(c, "lock")
    /\ UNCHANGED <<store, lag>>

\* Mutant of Incr: every call starts the time to live afresh.
IncrSliding(c) ==
    /\ pc[c] = "lock"
    /\ LET k == key[c]
           live == store[k] # None /\ ~Expired(store[k], lag[c])
           count == IF live THEN Counted(store[k].value) ELSE 1
       IN  /\ store' = [store EXCEPT ![k] =
                  [value |-> count, left |-> Window - lag[c]]]
           /\ Pass(k, count)
           /\ Leave(c, Verdict(count))
    /\ lag' = [lag EXCEPT ![c] = 0]

\* Mutant of Incr: the wait for the mutex is added to the time to live.
IncrLateExpiry(c) ==
    /\ pc[c] = "lock"
    /\ LET k == key[c]
           live == store[k] # None /\ ~Expired(store[k], lag[c])
           count == IF live THEN Counted(store[k].value) ELSE 1
       IN  /\ store' = [store EXCEPT ![k] =
                  [value |-> count,
                   left |-> IF live THEN @.left ELSE Window + lag[c]]]
           /\ Pass(k, count)
           /\ Leave(c, Verdict(count))
    /\ lag' = [lag EXCEPT ![c] = 0]

\* With the mutex held: an entry expired at the time read is removed, a
\* missing one created with its time to live, a live one only counted.
Incr(c) ==
    /\ pc[c] = "lock"
    /\ LET k == key[c]
           live == store[k] # None /\ ~Expired(store[k], lag[c])
           count == IF live THEN Counted(store[k].value) ELSE 1
       IN  /\ store' = [store EXCEPT ![k] =
                  [value |-> count,
                   left |-> IF live THEN @.left ELSE Window - lag[c]]]
           /\ Pass(k, count)
           /\ Leave(c, Verdict(count))
    /\ lag' = [lag EXCEPT ![c] = 0]

\* An entry past its expiry for every caller needs no further countdown.
Tick ==
    /\ \A c \in Callers : pc[c] = "lock" => lag[c] < MaxLag
    /\ lag' = [c \in Callers |-> IF pc[c] = "lock" THEN lag[c] + 1 ELSE 0]
    /\ store' = [k \in Keys |->
           IF store[k] = None THEN None
           ELSE [store[k] EXCEPT !.left = IF @ > -MaxLag THEN @ - 1 ELSE @]]
    /\ PassedAge
    /\ UNCHANGED <<pc, key, verdict>>

\* Nothing is persisted: a restart forgets the counters, and with them what
\* this process let through.
Restart ==
    /\ pc' = [c \in Callers |-> "idle"]
    /\ key' = [c \in Callers |-> None]
    /\ verdict' = [c \in Callers |-> "none"]
    /\ passed' = [k \in Keys |-> [a \in Ages |-> 0]]
    /\ store' = [k \in Keys |-> None]
    /\ lag' = [c \in Callers |-> 0]

Next == Tick \/ Restart \/ \E c \in Callers : ReadClock(c) \/ Incr(c)

\* The clock advances, and a thread that waits for the mutex gets it.
Fairness == WF_vars(Tick) /\ \A c \in Callers : WF_vars(Incr(c))

Spec == Init /\ [][Next]_vars /\ Fairness

-----------------------------------------------------------------------------
(* Type correctness.                                                       *)
TypeOK ==
    /\ LimiterTypeOK
    /\ pc \in [Callers -> {"idle", "lock"}]
    /\ store \in [Keys -> Entry \cup {None}]
    /\ lag \in [Callers -> 0 .. MaxLag]

Span == IF MaxLag = 0 THEN Window ELSE Window - (MaxLag - 1)

\* A stale clock costs little: a late caller may still count in a window that
\* is over, and another open the next one short, but in any span of a window
\* less the wait for the mutex (one tick of which is free), whatever the
\* interleaving, no more than two limits are let through.
BurstBounded == BurstWithin(Span)

\* What was let through in a span, the entry let through but for one limit;
\* what was let through since the last caller who still found the previous
\* entry, this one did; and nothing since it expired for every caller.
BurstOK ==
    \A k \in Keys :
        IF store[k] = None THEN \A a \in Ages : passed[k][a] = 0
        ELSE LET entry == store[k] IN
             \A a \in Ages :
                /\ a < Span => passed[k][a] <= Limit + Used(entry.value)
                /\ a <= Window - entry.left - MaxLag
                        => passed[k][a] <= Used(entry.value)
                /\ entry.left = -MaxLag /\ a = 0 => passed[k][a] = 0

\* The invariant behind BurstBounded.
IInv == TypeOK /\ Keyed /\ BurstOK

\* Nobody loses the count of a window that runs, or prolongs it: a caller whose
\* clock is older or newer than another's finds the same entry, and a count of
\* refused calls stands until its time is over (memory.rs:76).
CountKept ==
    [][\A k \in Keys : store[k] # None /\ store[k].left > 0 =>
          \/ store' = [j \in Keys |-> None]
          \/ /\ store'[k] # None
             /\ store'[k].value >= store[k].value
             /\ store'[k].left \in {store[k].left, store[k].left - 1}]_vars

\* A call of k that reads the clock now would be refused.
Full(k) == store[k] # None /\ store[k].value >= Limit /\ ~Expired(store[k], 0)

\* A refusal is temporary: however many calls keep hitting a full window, it
\* ends.
WindowEnds == \A k \in Keys : Full(k) ~> ~Full(k)
=============================================================================
