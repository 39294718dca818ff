-------------------------- MODULE MemoryLimiterProofs --------------------------
(***************************************************************************)
(* Theorems about MemoryLimiter for every number of callers and keys,      *)
(* every limit and window, and every wait for the mutex shorter than it.   *)
(***************************************************************************)
EXTENDS MemoryLimiter, TLAPS

\* What the assumptions say of the numbers.
LEMMA Numbers ==
  /\ Limit \in Nat \ {0} /\ Window \in Nat \ {0}
  /\ MaxLag \in Nat /\ MaxLag < Window
  /\ CountCap = Limit + 1
  /\ Span \in Nat /\ Span <= Window /\ Span - 1 <= Window - MaxLag
  /\ Ages = 0 .. Window - 1 /\ 0 \in Ages
  BY LimiterAssumption, LagAssumption DEF CountCap, Span, Ages

\* No entry is None, and its parts are numbers.
LEMMA EntryParts ==
  ASSUME NEW e \in Entry
  PROVE  e.value \in 1 .. Limit + 1 /\ e.left \in -MaxLag .. Window
  BY Numbers DEF Entry

\* Counting a call leaves a value between 1 and the cap, and one more let
\* through if it is within the limit.
LEMMA CountedUsed ==
  ASSUME NEW n \in 1 .. Limit + 1
  PROVE  /\ Counted(n) \in 1 .. Limit + 1
         /\ Used(n) \in 0 .. Limit
         /\ Used(Counted(n)) = IF Counted(n) <= Limit THEN Used(n) + 1 ELSE Used(n)
  BY Numbers DEF Counted, Used

\* A call that is let through is one more at every age, for its key.
LEMMA PassCounts ==
  ASSUME passed \in [Keys -> [Ages -> Nat]], NEW k \in Keys, NEW n, Pass(k, n)
  PROVE  /\ passed' \in [Keys -> [Ages -> Nat]]
         /\ \A j \in Keys, a \in Ages : passed'[j][a] =
                IF j = k /\ n <= Limit THEN passed[j][a] + 1 ELSE passed[j][a]
  <1>1. CASE n <= Limit
    <2>1. passed' = [passed EXCEPT ![k] = [a \in Ages |-> passed[k][a] + 1]]
      BY <1>1 DEF Pass, Allows
    <2>2. [a \in Ages |-> passed[k][a] + 1] \in [Ages -> Nat]
      OBVIOUS
    <2> QED
      BY <1>1, <2>1, <2>2
  <1>2. CASE ~(n <= Limit)
    BY <1>2 DEF Pass, Allows
  <1> QED
    BY <1>1, <1>2

\* A tick moves what was let through on by an age.
LEMMA AgeShifts ==
  ASSUME passed \in [Keys -> [Ages -> Nat]], PassedAge
  PROVE  /\ passed' \in [Keys -> [Ages -> Nat]]
         /\ \A k \in Keys : passed'[k][0] = 0
         /\ \A k \in Keys, a \in Ages : a # 0 =>
                a - 1 \in Ages /\ passed'[k][a] = passed[k][a - 1]
  <1>1. \A a \in Ages : a # 0 => a - 1 \in Ages
    BY Numbers
  <1>2. \A k \in Keys, a \in Ages : (IF a = 0 THEN 0 ELSE passed[k][a - 1]) \in Nat
    BY <1>1
  <1> QED
    BY <1>1, <1>2, Numbers DEF PassedAge

-----------------------------------------------------------------------------

\* There are no entries, and nobody is at the limiter.
LEMMA InitInv == Init => IInv
  <1> SUFFICES ASSUME Init PROVE IInv
    OBVIOUS
  <1>1. TypeOK
    BY Numbers DEF Init, LimiterInit, TypeOK, LimiterTypeOK
  <1>2. Keyed /\ BurstOK
    BY DEF Init, LimiterInit, Keyed, BurstOK
  <1> QED
    BY <1>1, <1>2 DEF IInv

\* Nor after a restart.
LEMMA RestartInv == ASSUME Restart PROVE IInv'
  <1>1. TypeOK'
    BY Numbers DEF Restart, TypeOK, LimiterTypeOK
  <1>2. Keyed' /\ BurstOK'
    BY DEF Restart, Keyed, BurstOK
  <1> QED
    BY <1>1, <1>2 DEF IInv

\* A caller that reads the clock changes no entry.
LEMMA ReadClockInv ==
  ASSUME IInv, NEW c \in Callers, ReadClock(c)
  PROVE  IInv'
  <1>1. TypeOK'
    BY DEF IInv, ReadClock, Arrive, TypeOK, LimiterTypeOK
  <1>2. Keyed'
    BY DEF IInv, ReadClock, Arrive, Keyed, TypeOK, LimiterTypeOK
  <1>3. BurstOK'
    BY DEF IInv, ReadClock, Arrive, BurstOK
  <1> QED
    BY <1>1, <1>2, <1>3 DEF IInv

\* A tick brings an entry, and what was let through, on by one.
LEMMA TickInv ==
  ASSUME IInv, Tick
  PROVE  IInv'
  <1>1. /\ passed \in [Keys -> [Ages -> Nat]] /\ store \in [Keys -> Entry \cup {None}]
        /\ lag \in [Callers -> 0 .. MaxLag]
    BY DEF IInv, TypeOK, LimiterTypeOK
  <1>2. /\ passed' \in [Keys -> [Ages -> Nat]]
        /\ \A k \in Keys : passed'[k][0] = 0
        /\ \A k \in Keys, a \in Ages : a # 0 =>
               a - 1 \in Ages /\ passed'[k][a] = passed[k][a - 1]
    BY <1>1, AgeShifts DEF Tick
  <1>3. ASSUME NEW k \in Keys, store[k] \in Entry, store[k] # None
        PROVE  /\ store'[k] \in Entry /\ store'[k].value = store[k].value
               /\ store'[k].left = IF store[k].left > -MaxLag THEN store[k].left - 1
                                   ELSE store[k].left
    <2> DEFINE left == IF store[k].left > -MaxLag THEN store[k].left - 1
                       ELSE store[k].left
    <2>1. store'[k] = [store[k] EXCEPT !.left = left]
      BY <1>3 DEF Tick
    <2>2. left \in -MaxLag .. Window
      BY <1>3, EntryParts, Numbers
    <2> HIDE DEF left
    <2>3. /\ store'[k] \in Entry /\ store'[k].value = store[k].value
          /\ store'[k].left = left
      BY <1>3, <2>1, <2>2 DEF Entry
    <2> QED
      BY <2>3 DEF left
  <1>4. TypeOK'
    <2>1. \A k \in Keys : store'[k] \in Entry \cup {None}
      BY <1>1, <1>3 DEF Tick
    <2>2. store' \in [Keys -> Entry \cup {None}]
      BY <2>1 DEF Tick
    <2>3. lag' \in [Callers -> 0 .. MaxLag]
      BY <1>1, Numbers DEF Tick
    <2> QED
      BY <1>2, <2>2, <2>3 DEF Tick, IInv, TypeOK, LimiterTypeOK
  <1>5. Keyed'
    BY DEF IInv, Keyed, Tick
  <1>6. BurstOK'
    <2> SUFFICES ASSUME NEW k \in Keys
                 PROVE  IF store'[k] = None THEN \A a \in Ages : passed'[k][a] = 0
                        ELSE LET entry == store'[k] IN
                             \A a \in Ages :
                                /\ a < Span => passed'[k][a] <= Limit + Used(entry.value)
                                /\ a <= Window - entry.left - MaxLag
                                        => passed'[k][a] <= Used(entry.value)
                                /\ entry.left = -MaxLag /\ a = 0 => passed'[k][a] = 0
      BY DEF BurstOK
    <2>1. CASE store[k] = None
      <3>1. store'[k] = None /\ \A a \in Ages : passed[k][a] = 0
        BY <2>1 DEF Tick, IInv, BurstOK
      <3> QED
        BY <1>2, <3>1
    <2>2. CASE store[k] # None
      <3> DEFINE old == store[k]
                 new == store'[k]
      <3>1. /\ old \in Entry /\ new \in Entry /\ new.value = old.value
            /\ new.left = IF old.left > -MaxLag THEN old.left - 1 ELSE old.left
        BY <1>1, <1>3, <2>2
      <3>2. new # None
        BY <3>1, EntryAssumption
      <3>3. \A a \in Ages :
               /\ a < Span => passed[k][a] <= Limit + Used(old.value)
               /\ a <= Window - old.left - MaxLag => passed[k][a] <= Used(old.value)
        BY <2>2 DEF IInv, BurstOK
      <3>4. /\ Used(old.value) \in 0 .. Limit
            /\ old.left \in -MaxLag .. Window
        BY <3>1, EntryParts, CountedUsed
      <3> HIDE DEF old, new
      <3>5. ASSUME NEW a \in Ages
            PROVE  /\ a < Span => passed'[k][a] <= Limit + Used(new.value)
                   /\ a <= Window - new.left - MaxLag
                           => passed'[k][a] <= Used(new.value)
                   /\ a = 0 => passed'[k][a] = 0
        <4>1. CASE a = 0
          BY <1>2, <3>1, <3>4, <4>1, Numbers
        <4>2. CASE a # 0
          <5>1. a - 1 \in Ages /\ passed'[k][a] = passed[k][a - 1]
            BY <1>2, <4>2
          <5>2. a < Span => a - 1 < Span
            BY <4>2, Numbers
          <5>3. a <= Window - new.left - MaxLag => a - 1 <= Window - old.left - MaxLag
            BY <3>1, <3>4, Numbers
          <5> QED
            BY <3>1, <3>3, <4>2, <5>1, <5>2, <5>3
        <4> QED
          BY <4>1, <4>2
      <3> QED
        BY <3>2, <3>5 DEF new
    <2> QED
      BY <2>1, <2>2
  <1> QED
    BY <1>4, <1>5, <1>6 DEF IInv

\* A call counts in the entry it finds, or starts one when that has expired
\* for it: then one limit at most was let through in a span.
LEMMA IncrInv ==
  ASSUME IInv, NEW c \in Callers, Incr(c)
  PROVE  IInv'
  <1> DEFINE k == key[c]
             old == store[k]
             live == old # None /\ ~Expired(old, lag[c])
             count == IF live THEN Counted(old.value) ELSE 1
             left == IF live THEN old.left ELSE Window - lag[c]
             new == [value |-> count, left |-> left]
  <1>1. /\ k \in Keys /\ store \in [Keys -> Entry \cup {None}]
        /\ lag \in [Callers -> 0 .. MaxLag] /\ passed \in [Keys -> [Ages -> Nat]]
    BY DEF Incr, IInv, Keyed, TypeOK, LimiterTypeOK
  <1>2. /\ store' = [store EXCEPT ![k] = new] /\ Pass(k, count)
        /\ Leave(c, Verdict(count)) /\ lag' = [lag EXCEPT ![c] = 0]
    BY DEF Incr
  <1>3. old # None => /\ old \in Entry
                      /\ old.value \in 1 .. Limit + 1
                      /\ old.left \in -MaxLag .. Window
    BY <1>1, EntryParts
  <1>4. lag[c] \in 0 .. MaxLag
    BY <1>1
  <1>5. live => old # None /\ old.left + lag[c] > 0
    BY <1>3, <1>4, Numbers DEF Expired
  <1>6. ~live => /\ count = 1 /\ left = Window - lag[c]
                 /\ old # None => old.left + lag[c] <= 0
    BY DEF Expired
  <1>7. live => count = Counted(old.value) /\ left = old.left
    OBVIOUS
  <1>8. count \in 1 .. Limit + 1 /\ left \in -MaxLag .. Window
    <2>1. CASE live
      BY <1>3, <1>5, <1>7, <2>1, CountedUsed
    <2>2. CASE ~live
      BY <1>4, <1>6, <2>2, Numbers
    <2> QED
      BY <2>1, <2>2
  <1>9. new \in Entry /\ new.value = count /\ new.left = left
    BY <1>8, Numbers DEF Entry
  <1>10. Verdict(count) \in {"ok", "limited"}
    BY DEF Verdict
  <1> HIDE DEF live, count, left, new
  <1>11. /\ passed' \in [Keys -> [Ages -> Nat]]
         /\ \A j \in Keys, a \in Ages : passed'[j][a] =
                IF j = k /\ count <= Limit THEN passed[j][a] + 1 ELSE passed[j][a]
    BY <1>1, <1>2, PassCounts
  <1>12. TypeOK'
    <2>1. LimiterTypeOK' /\ pc' \in [Callers -> {"idle", "lock"}]
      BY <1>2, <1>10, <1>11 DEF IInv, TypeOK, LimiterTypeOK, Leave
    <2>2. store' \in [Keys -> Entry \cup {None}] /\ lag' \in [Callers -> 0 .. MaxLag]
      BY <1>1, <1>2, <1>9, Numbers
    <2> QED
      BY <2>1, <2>2 DEF TypeOK
  <1>13. Keyed'
    BY <1>2 DEF IInv, Keyed, Leave, TypeOK, LimiterTypeOK
  <1>14. BurstOK'
    <2> SUFFICES ASSUME NEW j \in Keys
                 PROVE  IF store'[j] = None THEN \A a \in Ages : passed'[j][a] = 0
                        ELSE LET entry == store'[j] IN
                             \A a \in Ages :
                                /\ a < Span => passed'[j][a] <= Limit + Used(entry.value)
                                /\ a <= Window - entry.left - MaxLag
                                        => passed'[j][a] <= Used(entry.value)
                                /\ entry.left = -MaxLag /\ a = 0 => passed'[j][a] = 0
      BY DEF BurstOK
    <2>1. CASE j # k
      <3>1. store'[j] = store[j] /\ \A a \in Ages : passed'[j][a] = passed[j][a]
        BY <1>1, <1>2, <1>11, <2>1
      <3> QED
        BY <3>1 DEF IInv, BurstOK
    <2>2. ASSUME j = k, NEW a \in Ages
          PROVE  /\ a < Span => passed'[j][a] <= Limit + Used(count)
                 /\ a <= Window - left - MaxLag => passed'[j][a] <= Used(count)
                 /\ left = -MaxLag /\ a = 0 => passed'[j][a] = 0
      <3>1. passed[k][a] \in Nat /\ a \in Nat
        BY <1>1, Numbers
      <3>2. passed'[j][a] = IF count <= Limit THEN passed[k][a] + 1 ELSE passed[k][a]
        BY <1>1, <1>11, <2>2
      <3>3. old # None =>
               /\ a < Span => passed[k][a] <= Limit + Used(old.value)
               /\ a <= Window - old.left - MaxLag => passed[k][a] <= Used(old.value)
               /\ old.left = -MaxLag /\ a = 0 => passed[k][a] = 0
        BY <1>1 DEF IInv, BurstOK
      <3>4. old = None => passed[k][a] = 0
        BY <1>1 DEF IInv, BurstOK
      <3>5. old # None => /\ Used(old.value) \in 0 .. Limit
                          /\ Used(Counted(old.value)) =
                                IF Counted(old.value) <= Limit
                                THEN Used(old.value) + 1 ELSE Used(old.value)
        BY <1>3, CountedUsed
      <3>6. Used(1) = 1
        BY Numbers DEF Used
      <3> HIDE DEF old, k
      <3>7. CASE live
        <4>1. old # None /\ count = Counted(old.value) /\ left = old.left
          BY <1>5, <1>7, <3>7
        <4>2. left # -MaxLag
          BY <1>3, <1>4, <1>5, <3>7, <4>1, Numbers
        <4>3. Used(count) = IF count <= Limit THEN Used(old.value) + 1
                            ELSE Used(old.value)
          BY <3>5, <4>1
        <4> DEFINE u == Used(old.value)
        <4>4. u \in 0 .. Limit
          BY <3>5, <4>1
        <4>5. /\ a < Span => passed[k][a] <= Limit + u
              /\ a <= Window - left - MaxLag => passed[k][a] <= u
          BY <3>3, <4>1
        <4>6. Used(count) = IF count <= Limit THEN u + 1 ELSE u
          BY <4>3
        <4> HIDE DEF u
        <4> QED
          BY <3>1, <3>2, <4>2, <4>4, <4>5, <4>6, Numbers
      <3>8. CASE ~live
        <4>1. count = 1 /\ left = Window - lag[c] /\ passed'[j][a] = passed[k][a] + 1
          BY <1>6, <3>2, <3>8, Numbers
        <4>2. a < Span => passed[k][a] <= Limit
          <5>1. CASE old = None
            BY <3>4, <5>1, Numbers
          <5>2. CASE old # None
            <6>1. old.left <= 0
              BY <1>3, <1>4, <1>6, <3>8, <5>2
            <6>2. a < Span => a <= Window - old.left - MaxLag
              BY <1>3, <3>1, <5>2, <6>1, Numbers
            <6> QED
              BY <3>1, <3>3, <3>5, <5>2, <6>2, Numbers
          <5> QED
            BY <5>1, <5>2
        <4>3. a <= Window - left - MaxLag => passed[k][a] = 0
          <5> SUFFICES ASSUME a <= Window - left - MaxLag PROVE passed[k][a] = 0
            OBVIOUS
          <5>1. a = 0 /\ lag[c] = MaxLag
            BY <1>4, <3>1, <4>1, Numbers
          <5>2. old # None => old.left = -MaxLag
            BY <1>3, <1>6, <3>8, <5>1, Numbers
          <5> QED
            BY <3>3, <3>4, <5>1, <5>2
        <4>4. left # -MaxLag
          BY <1>4, <4>1, Numbers
        <4> QED
          BY <3>1, <3>6, <4>1, <4>2, <4>3, <4>4, Numbers
      <3> QED
        BY <3>7, <3>8
    <2>3. CASE j = k
      <3>1. store'[j] = new /\ new.value = count /\ new.left = left /\ new # None
        <4>1. store'[j] = new
          BY <1>1, <1>2, <2>3
        <4> QED
          BY <1>9, <4>1, EntryAssumption
      <3> QED
        BY <2>2, <2>3, <3>1
    <2> QED
      BY <2>1, <2>3
  <1> QED
    BY <1>12, <1>13, <1>14 DEF IInv

\* Every step keeps the invariant.
LEMMA NextInv == IInv /\ [Next]_vars => IInv'
  <1> SUFFICES ASSUME IInv, [Next]_vars PROVE IInv'
    OBVIOUS
  <1>1. CASE UNCHANGED vars
    BY <1>1 DEF vars, IInv, TypeOK, LimiterTypeOK, Keyed, BurstOK
  <1> QED
    BY <1>1, TickInv, RestartInv, ReadClockInv, IncrInv DEF Next

-----------------------------------------------------------------------------

\* The invariant of the entries holds of every behaviour.
THEOREM Invariance == Spec => []IInv
  BY InitInv, NextInv, PTL DEF Spec

\* Entries, clocks read and answers keep their form.
THEOREM TypeCorrect == Spec => []TypeOK
  <1>1. IInv => TypeOK
    BY DEF IInv
  <1> QED
    BY <1>1, Invariance, PTL

\* Whatever the interleaving, and however late callers get the mutex, a span of
\* a window less their wait sees no more than two limits.
THEOREM BurstLimited == Spec => []BurstBounded
  <1>1. IInv => BurstBounded
    <2> SUFFICES ASSUME IInv, NEW k \in Keys, NEW a \in Ages, a < Span
                 PROVE  passed[k][a] <= 2 * Limit
      BY DEF BurstBounded, BurstWithin
    <2>1. passed[k][a] \in Nat /\ store[k] \in Entry \cup {None}
      BY DEF IInv, TypeOK, LimiterTypeOK
    <2>2. CASE store[k] = None
      BY <2>2, Numbers DEF IInv, BurstOK
    <2>3. CASE store[k] # None
      <3>1. passed[k][a] <= Limit + Used(store[k].value)
        BY <2>3 DEF IInv, BurstOK
      <3>2. Used(store[k].value) \in 0 .. Limit
        BY <2>1, <2>3, EntryParts, CountedUsed
      <3> QED
        BY <2>1, <3>1, <3>2, Numbers
    <2> QED
      BY <2>2, <2>3
  <1> QED
    BY <1>1, Invariance, PTL

\* A restart apart, the count of a running window is never lost to a stale
\* clock, and its time only runs out.
THEOREM CountsKept == Spec => CountKept
  <1>1. ASSUME IInv, [Next]_vars, NEW k \in Keys, store[k] # None, store[k].left > 0
        PROVE  \/ store' = [j \in Keys |-> None]
               \/ /\ store'[k] # None
                  /\ store'[k].value >= store[k].value
                  /\ store'[k].left \in {store[k].left, store[k].left - 1}
    <2>1. /\ store \in [Keys -> Entry \cup {None}] /\ store[k] \in Entry
          /\ lag \in [Callers -> 0 .. MaxLag]
      BY <1>1 DEF IInv, TypeOK
    <2>2. /\ store[k].value \in 1 .. Limit + 1 /\ store[k].left \in -MaxLag .. Window
          /\ Limit \in Nat /\ MaxLag \in Nat /\ Window \in Nat
      BY <2>1, EntryParts, Numbers
    <2>3. CASE store' = store
      BY <1>1, <2>2, <2>3
    <2>4. CASE Tick
      <3>1. store'[k] = [store[k] EXCEPT !.left = IF @ > -MaxLag THEN @ - 1 ELSE @]
        BY <1>1, <2>4 DEF Tick
      <3>2. store'[k] \in Entry
        BY <2>1, <2>2, <3>1 DEF Entry
      <3>3. store'[k] # None
        BY <3>2, EntryAssumption
      <3>4. store'[k].value = store[k].value /\ store'[k].left = store[k].left - 1
        BY <1>1, <2>1, <2>2, <3>1 DEF Entry
      <3> QED
        BY <2>2, <3>3, <3>4
    <2>5. CASE Restart
      BY <2>5 DEF Restart
    <2>6. ASSUME NEW c \in Callers, Incr(c)
          PROVE  /\ store'[k] # None
                 /\ store'[k].value >= store[k].value
                 /\ store'[k].left \in {store[k].left, store[k].left - 1}
      <3>1. CASE key[c] # k
        BY <2>1, <2>2, <2>6, <3>1, <1>1 DEF Incr
      <3>2. CASE key[c] = k
        <4>1. ~Expired(store[k], lag[c])
          BY <1>1, <2>1, <2>2, <2>6 DEF Expired
        <4>2. store'[k] = [value |-> Counted(store[k].value), left |-> store[k].left]
          BY <1>1, <2>1, <2>6, <3>2, <4>1 DEF Incr
        <4>3. /\ Counted(store[k].value) \in 1 .. Limit + 1
              /\ Counted(store[k].value) >= store[k].value
          BY <2>2, Numbers DEF Counted
        <4>4. store'[k] \in Entry
          BY <2>2, <4>2, <4>3, Numbers DEF Entry
        <4> QED
          BY <4>2, <4>3, <4>4, EntryAssumption
      <3> QED
        BY <3>1, <3>2
    <2>7. ASSUME NEW c \in Callers, ReadClock(c)
          PROVE  store' = store
      BY <2>7 DEF ReadClock
    <2>8. CASE UNCHANGED vars
      BY <2>3, <2>8 DEF vars
    <2> QED
      BY <1>1, <2>3, <2>4, <2>5, <2>6, <2>7, <2>8 DEF Next
  <1>2. IInv /\ [Next]_vars =>
          [\A k \in Keys : store[k] # None /\ store[k].left > 0 =>
             \/ store' = [j \in Keys |-> None]
             \/ /\ store'[k] # None
                /\ store'[k].value >= store[k].value
                /\ store'[k].left \in {store[k].left, store[k].left - 1}]_vars
    BY <1>1
  <1> QED
    BY <1>2, Invariance, PTL DEF Spec, CountKept
================================================================================
