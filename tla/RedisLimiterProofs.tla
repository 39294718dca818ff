-------------------------- MODULE RedisLimiterProofs --------------------------
(***************************************************************************)
(* Theorems about RedisLimiter for every number of callers and keys, every *)
(* limit and every window.                                                 *)
(***************************************************************************)
EXTENDS RedisLimiter, TLAPS

USE DEF CountCap

\* The part of the invariant that is about the callers; the rest, BurstOK, is
\* about what was let through.
CallersOK == TypeOK /\ Keyed /\ OneExpirer

\* Nobody is at the limiter, and there are no counters.
LEMMA InvInit == Init => IInv
  BY LimiterAssumption DEF Init, LimiterInit, IInv, TypeOK, LimiterTypeOK, Keyed,
     OneExpirer, BurstOK, Used, Ages

\* Counting a call leaves a value between 1 and the cap.
LEMMA CountedType ==
  ASSUME NEW n \in 0 .. CountCap
  PROVE  Counted(n) \in 1 .. CountCap /\ (Counted(n) = 1 => n = 0)
  BY LimiterAssumption DEF Counted

\* A call that is let through is one more at every age, for its key.
LEMMA PassCounts ==
  ASSUME passed \in [Keys -> [Ages -> Nat]], NEW k \in Keys, NEW n, Pass(k, n)
  PROVE  /\ passed' \in [Keys -> [Ages -> Nat]]
         /\ \A j \in Keys, a \in Ages : passed'[j][a] =
                IF j = k /\ n <= Limit THEN passed[j][a] + 1 ELSE passed[j][a]
  <1>1. CASE n <= Limit
    <2>1. passed' = [passed EXCEPT ![k] = [a \in Ages |-> passed[k][a] + 1]]
      BY <1>1 DEF Pass, Allows
    <2>2. [a \in Ages |-> passed[k][a] + 1] \in [Ages -> Nat]
      OBVIOUS
    <2> QED
      BY <1>1, <2>1, <2>2
  <1>2. CASE ~(n <= Limit)
    BY <1>2 DEF Pass, Allows
  <1> QED
    BY <1>1, <1>2

\* A tick moves what was let through on by an age.
LEMMA AgeShifts ==
  ASSUME passed \in [Keys -> [Ages -> Nat]], PassedAge
  PROVE  /\ passed' \in [Keys -> [Ages -> Nat]]
         /\ \A k \in Keys : passed'[k][0] = 0
         /\ \A k \in Keys, a \in Ages : a # 0 =>
                a - 1 \in Ages /\ passed'[k][a] = passed[k][a - 1]
  <1>1. \A a \in Ages : a # 0 => a - 1 \in Ages
    BY LimiterAssumption DEF Ages
  <1>2. \A k \in Keys, a \in Ages : (IF a = 0 THEN 0 ELSE passed[k][a - 1]) \in Nat
    BY <1>1
  <1>3. 0 \in Ages
    BY LimiterAssumption DEF Ages
  <1> QED
    BY <1>1, <1>2, <1>3 DEF PassedAge

\* Every step keeps the types, the keys of the callers and the one expirer.
LEMMA CallersStep == CallersOK /\ [Next]_vars => CallersOK'
  <1> SUFFICES ASSUME CallersOK, [Next]_vars PROVE CallersOK'
    OBVIOUS
  <1> USE DEF CallersOK
  <1>1. CASE UNCHANGED vars
    BY <1>1 DEF vars, TypeOK, LimiterTypeOK, Keyed, OneExpirer
  <1>2. CASE Tick
    <2>1. LimiterTypeOK'
      BY <1>2, AgeShifts DEF Tick, TypeOK, LimiterTypeOK
    <2>2. /\ counter' \in [Keys -> 0 .. CountCap]
          /\ ttl' \in [Keys -> 1 .. Window \cup {None}]
          /\ \A k \in Keys : ttl'[k] # None => counter'[k] > 0
      <3>1. \A k \in Keys : /\ ttl[k] \in 1 .. Window \cup {None}
                            /\ counter[k] \in 0 .. CountCap
                            /\ ttl[k] # None => counter[k] > 0
        BY DEF TypeOK
      <3>2. \A k \in Keys :
               /\ counter'[k] = IF ttl[k] = 1 THEN 0 ELSE counter[k]
               /\ ttl'[k] = IF ttl[k] \in {None, 1} THEN None ELSE ttl[k] - 1
        BY <1>2 DEF Tick
      <3>3. \A k \in Keys : /\ ttl'[k] \in 1 .. Window \cup {None}
                            /\ counter'[k] \in 0 .. CountCap
                            /\ ttl'[k] # None => counter'[k] > 0
        BY <3>1, <3>2, LimiterAssumption
      <3> QED
        BY <1>2, <3>3 DEF Tick
    <2>3. TypeOK' /\ Keyed'
      BY <1>2, <2>1, <2>2 DEF Tick, TypeOK, Keyed
    <2>4. \A k \in Keys : ttl[k] = None => counter'[k] = counter[k] /\ ttl'[k] = None
      BY <1>2, LimiterAssumption DEF Tick, TypeOK
    <2> QED
      BY <1>2, <2>3, <2>4 DEF Tick, OneExpirer, Keyed
  <1>3. ASSUME NEW c \in Callers, Call(c)
        PROVE  CallersOK'
    <2>1. TypeOK'
      BY <1>3 DEF Call, Arrive, TypeOK, LimiterTypeOK
    <2>2. Keyed'
      BY <1>3 DEF Call, Arrive, Keyed, TypeOK, LimiterTypeOK
    <2>3. OneExpirer'
      BY <1>3 DEF Call, Arrive, OneExpirer, TypeOK, LimiterTypeOK
    <2> QED
      BY <2>1, <2>2, <2>3
  <1>4. ASSUME NEW c \in Callers, Incr(c)
        PROVE  CallersOK'
    <2> DEFINE k == key[c]
               n == Counted(counter[k])
    <2>1. k \in Keys /\ pc[c] = "incr"
      BY <1>4 DEF Incr, Keyed
    <2>2. n \in 1 .. CountCap /\ (n = 1 => counter[k] = 0)
      BY <2>1, CountedType DEF TypeOK
    <2>3. /\ counter' = [counter EXCEPT ![k] = n] /\ ttl' = ttl /\ Pass(k, n)
          /\ \/ /\ n = 1
                /\ pc' = [pc EXCEPT ![c] = "expire"]
                /\ key' = key /\ verdict' = verdict
             \/ n > 1 /\ Leave(c, Verdict(n))
             \/ Leave(c, "error")
      BY <1>4 DEF Incr
    <2> HIDE DEF k, n
    <2>4. passed' \in [Keys -> [Ages -> Nat]]
      BY <2>1, <2>3, PassCounts DEF TypeOK, LimiterTypeOK
    <2>5. LimiterTypeOK' /\ pc' \in [Callers -> {"idle", "incr", "expire"}]
      BY <2>3, <2>4 DEF TypeOK, LimiterTypeOK, Leave, Verdict
    <2>6. TypeOK'
      BY <2>1, <2>2, <2>3, <2>5 DEF TypeOK
    <2>7. Keyed'
      BY <2>1, <2>3 DEF Keyed, Leave, TypeOK, LimiterTypeOK, k
    \* Another caller that expires k holds a counter that exists already.
    <2>8. OneExpirer'
      <3>1. ASSUME NEW d \in Callers, pc'[d] = "expire", d # c
            PROVE  /\ pc[d] = "expire" /\ key'[d] = key[d] /\ key[d] \in Keys
                   /\ counter[key[d]] > 0 /\ ttl[key[d]] = None
                   /\ counter'[key[d]] > 0
        <4>1. pc[d] = "expire" /\ key'[d] = key[d]
          BY <2>3, <3>1 DEF Leave, TypeOK, LimiterTypeOK
        <4>2. key[d] \in Keys /\ counter[key[d]] > 0 /\ ttl[key[d]] = None
          BY <4>1 DEF Keyed, OneExpirer
        <4> QED
          BY <2>1, <2>2, <2>3, <4>1, <4>2 DEF TypeOK
      <3>2. pc'[c] = "expire" => /\ key'[c] = k /\ n = 1 /\ counter[k] = 0
                                /\ counter'[k] > 0
        BY <2>1, <2>2, <2>3 DEF Leave, TypeOK, LimiterTypeOK, k
      <3>3. pc'[c] = "expire" => ttl[k] = None
        BY <2>1, <3>2 DEF TypeOK
      <3>4. ASSUME NEW d \in Callers, NEW e \in Callers,
                   pc'[d] = "expire", pc'[e] = "expire", key'[d] = key'[e]
            PROVE  d = e
        <4>1. CASE d # c /\ e # c
          BY <3>1, <3>4, <4>1 DEF OneExpirer
        <4>2. CASE d = c \/ e = c
          BY <3>1, <3>2, <3>4, <4>2
        <4> QED
          BY <4>1, <4>2
      <3>5. ASSUME NEW d \in Callers, pc'[d] = "expire"
            PROVE  counter'[key'[d]] > 0 /\ ttl'[key'[d]] = None
        BY <2>3, <3>1, <3>2, <3>3, <3>5
      <3> QED
        BY <3>4, <3>5 DEF OneExpirer
    <2> QED
      BY <2>6, <2>7, <2>8
  <1>5. ASSUME NEW c \in Callers, Expire(c) \/ Fail(c)
        PROVE  CallersOK'
    <2> DEFINE k == key[c]
    <2>1. k \in Keys
      BY <1>5 DEF Expire, Fail, Keyed
    <2>2. /\ counter' = counter /\ passed' = passed
          /\ \/ ttl' = ttl
             \/ pc[c] = "expire" /\ ttl' = [ttl EXCEPT ![k] = Window]
          /\ Leave(c, "ok") \/ Leave(c, "limited") \/ Leave(c, "error")
      <3>1. CASE Expire(c)
        <4>1. counter[k] # 0
          BY <2>1, <3>1 DEF Expire, OneExpirer, TypeOK
        <4>2. pc[c] = "expire" /\ ttl' = [ttl EXCEPT ![k] = Window]
          BY <3>1, <4>1 DEF Expire
        <4>3. Verdict(1) \in {"ok", "limited"}
          BY DEF Verdict
        <4>4. Leave(c, Verdict(1)) \/ Leave(c, "error")
          BY <3>1 DEF Expire
        <4>5. Leave(c, "ok") \/ Leave(c, "limited") \/ Leave(c, "error")
          BY <4>3, <4>4
        <4> QED
          BY <3>1, <4>2, <4>5 DEF Expire
      <3>2. CASE Fail(c)
        BY <3>2 DEF Fail
      <3> QED
        BY <1>5, <3>1, <3>2
    <2> HIDE DEF k
    <2>3. pc[c] = "expire" => counter[k] > 0 /\ ttl[k] = None
      BY DEF OneExpirer, k
    <2>4. TypeOK'
      <3>1. LimiterTypeOK' /\ pc' \in [Callers -> {"idle", "incr", "expire"}]
        BY <2>2 DEF Leave, TypeOK, LimiterTypeOK
      <3>2. ttl' \in [Keys -> 1 .. Window \cup {None}]
        BY <2>1, <2>2, LimiterAssumption DEF TypeOK
      <3>3. \A j \in Keys : ttl'[j] # None => counter[j] > 0
        BY <2>1, <2>2, <2>3 DEF TypeOK
      <3> QED
        BY <2>2, <3>1, <3>2, <3>3 DEF TypeOK
    <2>5. Keyed'
      BY <2>2 DEF Keyed, Leave, TypeOK, LimiterTypeOK
    <2>6. ASSUME NEW d \in Callers, pc'[d] = "expire"
          PROVE  /\ d # c /\ pc[d] = "expire" /\ key'[d] = key[d] /\ key[d] \in Keys
                 /\ counter[key[d]] > 0 /\ ttl[key[d]] = None /\ ttl'[key[d]] = None
      <3>1. d # c /\ pc[d] = "expire" /\ key'[d] = key[d]
        BY <2>2, <2>6 DEF Leave, TypeOK, LimiterTypeOK
      <3>2. key[d] \in Keys /\ counter[key[d]] > 0 /\ ttl[key[d]] = None
        BY <3>1 DEF Keyed, OneExpirer
      <3>3. pc[c] = "expire" => key[d] # k
        BY <3>1 DEF OneExpirer, k
      <3> QED
        BY <2>1, <2>2, <3>1, <3>2, <3>3 DEF TypeOK
    <2>7. OneExpirer'
      BY <2>2, <2>6 DEF OneExpirer
    <2> QED
      BY <2>4, <2>5, <2>7
  <1> QED
    BY <1>1, <1>2, <1>3, <1>4, <1>5 DEF Next, Step

\* A call that is counted is one more let through, of one more the counter lets
\* through.
LEMMA CountedUsed ==
  ASSUME NEW n \in 0 .. CountCap
  PROVE  Used(Counted(n)) = IF Counted(n) <= Limit THEN Used(n) + 1 ELSE Used(n)
  BY LimiterAssumption DEF Counted, Used

\* A counter that is removed had its time to live: what was let through in it
\* is all that was let through in a window's time.
LEMMA BurstStep == IInv /\ [Next]_vars => BurstOK'
  <1> SUFFICES ASSUME IInv, [Next]_vars,
                      NEW k \in Keys, NEW a \in Ages
               PROVE  /\ passed'[k][a] <= Limit + Used(counter[k])'
                      /\ a = 0 => passed'[k][a] <= Used(counter[k])'
                      /\ ttl'[k] # None /\ a <= Window - ttl'[k]
                            => passed'[k][a] <= Used(counter[k])'
    BY DEF BurstOK
  <1>1. /\ passed \in [Keys -> [Ages -> Nat]] /\ counter[k] \in 0 .. CountCap
        /\ ttl[k] \in 1 .. Window \cup {None}
        /\ ttl[k] # None => counter[k] > 0
    BY DEF IInv, TypeOK, LimiterTypeOK
  <1>2. /\ Limit \in Nat \ {0} /\ Window \in Nat \ {0} /\ None \notin 1 .. Window
        /\ a \in Nat /\ a <= Window - 1 /\ passed[k][a] \in Nat
    BY <1>1, LimiterAssumption DEF Ages
  <1>3. \A b \in Ages :
           /\ passed[k][b] <= Limit + Used(counter[k])
           /\ b = 0 => passed[k][b] <= Used(counter[k])
           /\ ttl[k] # None /\ b <= Window - ttl[k] => passed[k][b] <= Used(counter[k])
    BY DEF IInv, BurstOK
  <1>4. Used(counter[k]) \in 0 .. Limit
    BY <1>1, <1>2 DEF Used
  <1>5. CASE Tick
    <2>1. /\ passed'[k][0] = 0
          /\ a # 0 => a - 1 \in Ages /\ passed'[k][a] = passed[k][a - 1]
      BY <1>1, <1>5, AgeShifts DEF Tick
    <2>2. /\ counter'[k] = IF ttl[k] = 1 THEN 0 ELSE counter[k]
          /\ ttl'[k] = IF ttl[k] \in {None, 1} THEN None ELSE ttl[k] - 1
      BY <1>5 DEF Tick
    <2>3. Used(0) = 0
      BY <1>2 DEF Used
    <2>4. CASE a = 0
      <3>1. Used(counter[k])' \in Nat
        BY <1>1, <1>2, <1>4, <2>2, <2>3
      <3> QED
        BY <1>2, <2>1, <2>4, <3>1
    <2>5. CASE a # 0
      <3>1. a - 1 \in Ages /\ passed'[k][a] = passed[k][a - 1]
            /\ passed[k][a - 1] \in Nat
        BY <1>1, <2>1, <2>5
      <3>2. CASE ttl[k] = 1
        <4>1. passed[k][a - 1] <= Used(counter[k])
          BY <1>2, <1>3, <3>1, <3>2
        <4>2. Used(counter[k])' = 0 /\ ttl'[k] = None
          BY <2>2, <2>3, <3>2
        <4> QED
          BY <1>2, <1>4, <2>5, <3>1, <4>1, <4>2
      <3>3. CASE ttl[k] # 1
        <4>1. Used(counter[k])' = Used(counter[k])
          BY <2>2, <3>3
        <4>2. ttl'[k] # None => ttl[k] # None /\ ttl[k] \in Int /\ ttl'[k] = ttl[k] - 1
          BY <1>1, <2>2, <3>3
        <4>3. ASSUME ttl'[k] # None, a <= Window - ttl'[k]
              PROVE  a - 1 <= Window - ttl[k]
          BY <1>2, <4>2, <4>3
        <4> QED
          BY <1>3, <2>5, <3>1, <4>1, <4>2, <4>3
      <3> QED
        BY <3>2, <3>3
    <2> QED
      BY <2>4, <2>5
  <1>6. CASE UNCHANGED <<passed, counter, ttl>>
    BY <1>3, <1>6
  <1>7. ASSUME NEW c \in Callers, Incr(c)
        PROVE  /\ passed'[k][a] <= Limit + Used(counter[k])'
               /\ a = 0 => passed'[k][a] <= Used(counter[k])'
               /\ ttl'[k] # None /\ a <= Window - ttl'[k]
                     => passed'[k][a] <= Used(counter[k])'
    <2> DEFINE n == Counted(counter[key[c]])
    <2>1. key[c] \in Keys /\ counter \in [Keys -> 0 .. CountCap]
      BY <1>7 DEF Incr, IInv, Keyed, TypeOK
    <2>2. /\ counter' = [counter EXCEPT ![key[c]] = n] /\ ttl' = ttl
          /\ Pass(key[c], n)
      BY <1>7 DEF Incr
    <2> HIDE DEF n
    <2>3. passed'[k][a] = IF k = key[c] /\ n <= Limit THEN passed[k][a] + 1
                          ELSE passed[k][a]
      BY <1>1, <2>1, <2>2, PassCounts
    <2>4. CASE k # key[c]
      BY <1>3, <2>1, <2>2, <2>3, <2>4
    <2>5. CASE k = key[c]
      <3>1. counter'[k] = n
        BY <2>1, <2>2, <2>5
      <3>2. Used(n) = IF n <= Limit THEN Used(counter[k]) + 1 ELSE Used(counter[k])
        BY <1>1, <2>5, CountedUsed DEF n
      <3>3. passed'[k][a] = IF n <= Limit THEN passed[k][a] + 1 ELSE passed[k][a]
        BY <2>3, <2>5
      <3> QED
        BY <1>2, <1>3, <1>4, <2>2, <3>1, <3>2, <3>3
    <2> QED
      BY <2>4, <2>5
  <1>8. ASSUME NEW c \in Callers, Expire(c)
        PROVE  /\ passed'[k][a] <= Limit + Used(counter[k])'
               /\ a = 0 => passed'[k][a] <= Used(counter[k])'
               /\ ttl'[k] # None /\ a <= Window - ttl'[k]
                     => passed'[k][a] <= Used(counter[k])'
    <2>1. /\ passed' = passed /\ counter' = counter
          /\ ttl'[k] = ttl[k] \/ ttl'[k] = Window
      BY <1>8 DEF Expire, IInv, TypeOK
    <2> QED
      BY <1>2, <1>3, <2>1
  <1> QED
    BY <1>5, <1>6, <1>7, <1>8 DEF Next, Step, Call, Arrive, Fail, vars

\* Every step keeps the invariant.
LEMMA InvStep == IInv /\ [Next]_vars => IInv'
  BY CallersStep, BurstStep DEF IInv, CallersOK

\* The invariant of the counters holds of every behavior.
THEOREM Invariance == Spec => []IInv
  BY InvInit, InvStep, PTL DEF Spec

\* Every variable keeps its type, and only existing counters expire.
THEOREM TypeCorrect == Spec => []TypeOK
  <1>1. IInv => TypeOK
    BY DEF IInv
  <1> QED
    BY <1>1, Invariance, PTL

\* At most one caller is about to expire a counter, and it is the one that
\* created it: whatever the interleaving and whichever commands are lost, an
\* EXPIRE never prolongs the window of somebody else's counter.
THEOREM SingleExpirer == Spec => []OneExpirer
  <1>1. IInv => OneExpirer
    BY DEF IInv
  <1> QED
    BY <1>1, Invariance, PTL

\* A counter is left without expiry by a failed command only.
LEMMA LostStep ==
  ASSUME IInv, [Next]_vars, NEW k \in Keys, ~Orphan(k), Orphan(k)'
  PROVE  \E c \in Callers : /\ pc[c] # "idle" /\ key[c] = k
                            /\ pc'[c] = "idle" /\ verdict'[c] = "error"
  <1> USE DEF IInv
  <1>1. ASSUME Tick PROVE FALSE
    <2>1. /\ counter'[k] = IF ttl[k] = 1 THEN 0 ELSE counter[k]
          /\ ttl'[k] = IF ttl[k] \in {None, 1} THEN None ELSE ttl[k] - 1
          /\ pc' = pc /\ key' = key
      BY <1>1 DEF Tick
    <2>2. ttl[k] \in 1 .. Window \cup {None}
      BY DEF TypeOK
    <2>3. ttl[k] # None /\ ttl[k] # 1
      BY <2>1 DEF Orphan
    <2>4. ttl[k] - 1 \in 1 .. Window /\ ttl'[k] = ttl[k] - 1
      BY <2>1, <2>2, <2>3, LimiterAssumption
    <2> QED
      BY <2>4, LimiterAssumption DEF Orphan
  <1>2. ASSUME NEW c \in Callers, Call(c) PROVE FALSE
    BY <1>2 DEF Call, Arrive, Orphan, TypeOK, LimiterTypeOK
  <1>3. ASSUME NEW c \in Callers, Incr(c)
        PROVE  /\ pc[c] # "idle" /\ key[c] = k
               /\ pc'[c] = "idle" /\ verdict'[c] = "error"
    <2> DEFINE n == Counted(counter[key[c]])
    <2>1. key[c] \in Keys /\ pc[c] = "incr"
      BY <1>3 DEF Incr, Keyed
    <2>2. n \in 1 .. CountCap /\ (n = 1 => counter[key[c]] = 0)
      BY <2>1, CountedType DEF TypeOK
    <2>3. n > 1 => counter[key[c]] > 0
      BY <2>1, LimiterAssumption DEF TypeOK, Counted
    <2>4. /\ counter' = [counter EXCEPT ![key[c]] = n] /\ ttl' = ttl
          /\ \/ /\ n = 1
                /\ pc' = [pc EXCEPT ![c] = "expire"]
                /\ key' = key /\ verdict' = verdict
             \/ n > 1 /\ Leave(c, Verdict(n))
             \/ Leave(c, "error")
      BY <1>3 DEF Incr
    <2> HIDE DEF n
    \* Nobody who is about to expire k stops being so.
    <2>5. \A d \in Callers : pc[d] = "expire" => pc'[d] = "expire" /\ key'[d] = key[d]
      BY <2>1, <2>4 DEF Leave, TypeOK, LimiterTypeOK
    <2>6. counter[k] = 0
      BY <2>4, <2>5 DEF Orphan, TypeOK
    <2>7. key[c] = k
      BY <2>1, <2>4, <2>6 DEF Orphan, TypeOK
    <2>8. ~(n > 1)
      BY <2>3, <2>6, <2>7
    <2>9. CASE pc' = [pc EXCEPT ![c] = "expire"] /\ key' = key
      BY <2>7, <2>9 DEF Orphan, TypeOK
    <2> QED
      BY <2>1, <2>4, <2>7, <2>8, <2>9 DEF Leave, TypeOK, LimiterTypeOK
  <1>4. ASSUME NEW c \in Callers, Expire(c) PROVE FALSE
    <2>1. key[c] \in Keys /\ counter[key[c]] > 0
      BY <1>4 DEF Expire, Keyed, OneExpirer
    <2>2. /\ ttl' = [ttl EXCEPT ![key[c]] = Window] /\ counter' = counter
      <3>1. counter[key[c]] # 0
        BY <2>1 DEF TypeOK
      <3> QED
        BY <1>4, <3>1 DEF Expire
    <2>3. k # key[c]
      BY <2>1, <2>2, LimiterAssumption DEF Orphan, TypeOK
    <2>4. \A d \in Callers : d # c => pc'[d] = pc[d] /\ key'[d] = key[d]
      BY <1>4 DEF Expire, Leave, TypeOK, LimiterTypeOK
    <2>5. ttl'[k] = ttl[k]
      BY <2>2, <2>3 DEF TypeOK
    <2> QED
      BY <2>2, <2>3, <2>4, <2>5 DEF Orphan
  <1>5. ASSUME NEW c \in Callers, Fail(c)
        PROVE  /\ pc[c] # "idle" /\ key[c] = k
               /\ pc'[c] = "idle" /\ verdict'[c] = "error"
    BY <1>5 DEF Fail, Leave, Orphan, TypeOK, LimiterTypeOK
  <1> QED
    BY <1>1, <1>2, <1>3, <1>4, <1>5 DEF Next, Step, vars, Orphan

\* A counter never loses its one EXPIRE to an interleaving.
THEOREM LossNeedsFailure == Spec => LostByFailure
  <1>1. IInv /\ [Next]_vars =>
          \A k \in Keys : ~Orphan(k) /\ Orphan(k)' =>
             \E c \in Callers : /\ pc[c] # "idle" /\ key[c] = k
                                /\ pc'[c] = "idle" /\ verdict'[c] = "error"
    BY LostStep
  <1> QED
    BY <1>1, Invariance, PTL DEF Spec, LostByFailure

\* Nobody gets more than two limits through in a window's time, over any
\* border between two windows and however the callers race.
THEOREM BurstLimited == Spec => []BurstBounded
  <1>1. IInv => BurstBounded
    <2> SUFFICES ASSUME IInv, NEW k \in Keys, NEW a \in Ages
                 PROVE  passed[k][a] <= 2 * Limit
      BY DEF BurstBounded, BurstWithin
    <2>1. passed[k][a] <= Limit + Used(counter[k])
      BY DEF IInv, BurstOK
    <2>2. passed[k][a] \in Nat /\ counter[k] \in Nat
      BY DEF IInv, TypeOK, LimiterTypeOK
    <2> QED
      BY <2>1, <2>2, LimiterAssumption DEF Used
  <1> QED
    BY <1>1, Invariance, PTL

\* A time to live only runs down: the one caller that is about to expire a
\* counter finds it without.
THEOREM WindowsRunOut == Spec => NeverProlonged
  <1>1. ASSUME IInv, [Next]_vars, NEW k \in Keys, ttl[k] # None
        PROVE  ttl'[k] \in {ttl[k], ttl[k] - 1, None}
    <2>1. CASE Tick
      BY <2>1 DEF Tick
    <2>2. ASSUME NEW c \in Callers, Expire(c)
          PROVE  ttl'[k] = ttl[k]
      <3>1. pc[c] = "expire" /\ key[c] # k
        BY <1>1, <2>2 DEF Expire, IInv, OneExpirer
      <3> QED
        BY <2>2, <3>1 DEF Expire, IInv, TypeOK
    <2>3. CASE UNCHANGED ttl
      BY <2>3
    <2> QED
      BY <1>1, <2>1, <2>2, <2>3 DEF Next, Step, Call, Incr, Fail, vars
  <1>2. IInv /\ [Next]_vars =>
          \A k \in Keys : ttl[k] # None => ttl'[k] \in {ttl[k], ttl[k] - 1, None}
    BY <1>1
  <1> QED
    BY <1>2, Invariance, PTL DEF Spec, NeverProlonged

\* No step gives a counter its expiry back: time leaves it, a further INCR
\* finds it created already, and nobody is about to expire it.
LEMMA LockedOutStep ==
  ASSUME IInv, [Next]_vars, NEW k \in Keys, LockedOut(k)
  PROVE  LockedOut(k)'
  <1> USE DEF IInv
  <1>0. /\ counter[k] \in 1 .. CountCap /\ counter[k] >= Limit /\ ttl[k] = None
        /\ \A c \in Callers : ~(pc[c] = "expire" /\ key[c] = k)
    BY DEF LockedOut, Orphan, Full, TypeOK
  <1>1. CASE Tick
    <2>1. counter'[k] = counter[k] /\ ttl'[k] = None /\ pc' = pc /\ key' = key
      BY <1>0, <1>1, LimiterAssumption DEF Tick
    <2> QED
      BY <1>0, <2>1 DEF LockedOut, Orphan, Full
  <1>2. ASSUME NEW c \in Callers, Call(c) PROVE LockedOut(k)'
    BY <1>0, <1>2 DEF Call, Arrive, LockedOut, Orphan, Full, TypeOK, LimiterTypeOK
  <1>3. ASSUME NEW c \in Callers, Incr(c) PROVE LockedOut(k)'
    <2> DEFINE n == Counted(counter[key[c]])
    <2>1. key[c] \in Keys /\ ttl' = ttl /\ counter' = [counter EXCEPT ![key[c]] = n]
      BY <1>3 DEF Incr, Keyed
    <2>2. key[c] = k => n > 1 /\ n >= counter[k]
      BY <1>0, LimiterAssumption DEF Counted
    <2>3. \A d \in Callers : d # c => pc'[d] = pc[d] /\ key'[d] = key[d]
      BY <1>3 DEF Incr, Leave, TypeOK, LimiterTypeOK
    <2>4. pc'[c] = "expire" => key'[c] = key[c] /\ n = 1
      BY <1>3 DEF Incr, Leave, TypeOK, LimiterTypeOK
    <2>5. \A d \in Callers : ~(pc'[d] = "expire" /\ key'[d] = k)
      BY <1>0, <2>2, <2>3, <2>4
    <2>6. n \in Nat
      BY <2>1, CountedType DEF TypeOK
    <2>7. counter'[k] = IF key[c] = k THEN n ELSE counter[k]
      BY <2>1 DEF TypeOK
    <2> HIDE DEF n
    <2>8. counter'[k] > 0 /\ counter'[k] >= Limit /\ ttl'[k] = None
      BY <1>0, <2>1, <2>2, <2>6, <2>7, LimiterAssumption
    <2> QED
      BY <2>5, <2>8 DEF LockedOut, Orphan, Full
  <1>4. ASSUME NEW c \in Callers, Expire(c) PROVE LockedOut(k)'
    <2>1. key[c] # k
      BY <1>0, <1>4 DEF Expire
    <2>2. counter' = counter /\ ttl'[k] = ttl[k]
      BY <1>4, <2>1 DEF Expire, TypeOK
    <2>3. \A d \in Callers : pc'[d] = "expire" => pc[d] = "expire" /\ key'[d] = key[d]
      BY <1>4 DEF Expire, Leave, TypeOK, LimiterTypeOK
    <2> QED
      BY <1>0, <2>2, <2>3 DEF LockedOut, Orphan, Full
  <1>5. ASSUME NEW c \in Callers, Fail(c) PROVE LockedOut(k)'
    BY <1>0, <1>5 DEF Fail, Leave, LockedOut, Orphan, Full, TypeOK, LimiterTypeOK
  <1>6. CASE UNCHANGED vars
    BY <1>0, <1>6 DEF vars, LockedOut, Orphan, Full
  <1> QED
    BY <1>1, <1>2, <1>3, <1>4, <1>5, <1>6 DEF Next, Step

\* A key whose full counter lost its EXPIRE is limited for ever: no call, no
\* answer that comes late and no passing of time brings it back (redis.rs:65
\* expires a counter only when it is created).
THEOREM LockedOutForever ==
  ASSUME NEW k \in Keys
  PROVE  Spec => [](LockedOut(k) => []LockedOut(k))
  <1>1. IInv /\ LockedOut(k) /\ [Next]_vars => LockedOut(k)'
    BY LockedOutStep
  <1> QED
    BY <1>1, Invariance, PTL DEF Spec
=============================================================================
