----------------------------- MODULE UsageProofs -----------------------------
(***************************************************************************)
(* Theorems about Usage, and the lists of Listing it reads, for every      *)
(* value of their constants.                                               *)
(***************************************************************************)
EXTENDS Usage, FiniteSetTheorems, FunctionTheorems, SequenceTheorems, TLAPS

-----------------------------------------------------------------------------
(* Pages of a numbering.                                                   *)

\* Only finitely many rows are stored.
LEMMA StoredFinite ==
  ASSUME ListTypeOK
  PROVE  /\ IsFiniteSet(stored) /\ Cardinality(stored) \in Nat
         /\ \A S \in SUBSET stored : IsFiniteSet(S) /\ Cardinality(S) \in Nat
  BY ListingAssumption, FS_Subset, FS_CardinalityType DEF ListTypeOK

\* A numbering gives each of the first numbers to a row, and to one only.
LEMMA NumberingBijective ==
  ASSUME ListTypeOK, NEW n \in Numberings
  PROVE  /\ n \in [stored -> 0 .. Cardinality(stored) - 1]
         /\ \A r, s \in stored : n[r] = n[s] => r = s
         /\ \A i \in 0 .. Cardinality(stored) - 1 : \E r \in stored : n[r] = i
  <1> DEFINE N == Cardinality(stored)
  <1>1. /\ n \in [stored -> 0 .. N - 1]
        /\ \A r, s \in stored : n[r] = n[s] => r = s
    BY DEF Numberings
  <1>2. N \in Nat
    BY StoredFinite
  <1>3. IsFiniteSet(0 .. N - 1) /\ Cardinality(0 .. N - 1) = N
    BY <1>2, FS_Interval
  <1>4. n \in Injection(stored, 0 .. N - 1)
    BY <1>1 DEF Injection, IsInjective
  <1>5. n \in Surjection(stored, 0 .. N - 1)
    BY <1>3, <1>4, FS_Injection
  <1> QED
    BY <1>1, <1>5 DEF Surjection

\* The rows that get the numbers of an interval are as many as it is long.
LEMMA SegmentSize ==
  ASSUME ListTypeOK, NEW n \in Numberings, NEW a \in Nat, NEW b \in Nat,
         a <= b, b <= Cardinality(stored)
  PROVE  Cardinality({r \in stored : n[r] \in a .. b - 1}) = b - a
  <1> DEFINE N == Cardinality(stored)
             S == {r \in stored : n[r] \in a .. b - 1}
             f == [r \in S |-> n[r]]
  <1>1. N \in Nat
    BY StoredFinite
  <1>2. IsFiniteSet(a .. b - 1) /\ Cardinality(a .. b - 1) = b - a
    <2>1. a \in Int /\ b - 1 \in Int
      OBVIOUS
    <2>2. /\ IsFiniteSet(a .. b - 1)
          /\ Cardinality(a .. b - 1) = IF a > b - 1 THEN 0 ELSE (b - 1) - a + 1
      BY ONLY <2>1, FS_Interval
    <2> QED
      BY <2>2
  <1>3. f \in Injection(S, a .. b - 1)
    BY NumberingBijective DEF Injection, IsInjective
  <1>4. f \in Surjection(S, a .. b - 1)
    <2>1. \A i \in a .. b - 1 : \E r \in S : f[r] = i
      BY <1>1, NumberingBijective
    <2> QED
      BY <1>3, <2>1 DEF Surjection, Injection
  <1> QED
    BY <1>2, <1>3, <1>4, FS_Injection

\* A page never has more rows than its limit.
LEMMA PageBounded ==
  ASSUME ListTypeOK, NEW n \in Numberings, NEW offset \in Nat, NEW limit \in Nat
  PROVE  /\ Page(offset, limit, n) \in SUBSET stored
         /\ Cardinality(Page(offset, limit, n)) \in 0 .. limit
  <1> DEFINE S == Page(offset, limit, n)
             f == [r \in S |-> n[r]]
             I == offset .. offset + limit - 1
  <1>1. S \in SUBSET stored
    BY DEF Page
  <1>2. IsFiniteSet(I) /\ Cardinality(I) = limit
    BY FS_Interval
  <1>3. f \in Injection(S, I)
    <2>1. n \in [stored -> 0 .. Cardinality(stored) - 1]
      BY NumberingBijective
    <2>2. \A r \in S : n[r] \in I
      BY <2>1, StoredFinite DEF Page
    <2> QED
      BY <1>1, <2>2, NumberingBijective DEF Injection, IsInjective
  <1>4. Cardinality(S) <= limit
    BY <1>2, <1>3, FS_Injection
  <1>5. Cardinality(S) \in Nat
    BY <1>1, StoredFinite
  <1> QED
    BY <1>1, <1>4, <1>5

\* Unless a row shares its stamp, every numbering gives it its rank.
LEMMA RankIsNumber ==
  ASSUME ListTypeOK, NEW n \in Numberings, NEW r \in stored, ~Tied(r)
  PROVE  n[r] = Rank(r)
  <1>1. n[r] \in Nat /\ n[r] <= Cardinality(stored)
    BY NumberingBijective, StoredFinite
  <1>2. \A s \in stored : Before(s, r) <=> n[s] \in 0 .. n[r] - 1
    <2> TAKE s \in stored
    <2>1. n[s] \in Nat
      BY NumberingBijective, StoredFinite
    <2>2. Before(s, r) => n[s] < n[r]
      BY DEF Numberings
    <2>3. Before(r, s) => n[r] < n[s]
      BY DEF Numberings
    <2>4. s = r \/ Before(s, r) \/ Before(r, s)
      <3>1. stamp[s] \in Int /\ stamp[r] \in Int
        BY DEF ListTypeOK
      <3> QED
        BY <3>1 DEF Tied, Before
    <2> QED
      BY <1>1, <2>1, <2>2, <2>3, <2>4
  <1>3. {s \in stored : Before(s, r)} = {s \in stored : n[s] \in 0 .. n[r] - 1}
    BY <1>2
  <1> QED
    BY <1>1, <1>3, SegmentSize DEF Rank

-----------------------------------------------------------------------------
(* Walks through a list.                                                   *)

\* The rows in front of a row are finitely many, and only become more.
LEMMA RankTyped ==
  ASSUME ListTypeOK, NEW r
  PROVE  Rank(r) \in Nat
  BY StoredFinite DEF Rank

\* A step that keeps the stored rows, and their stamps, keeps the walk's promise.
LEMMA WalkKept ==
  ASSUME ListTypeOK, ListTypeOK', WalkOK, WalkComplete,
         walk' = walk, order' = order, stored \subseteq stored',
         \A r \in stored : stamp'[r] = stamp[r]
  PROVE  WalkOK' /\ WalkComplete'
  <1>1. \A r \in stored : Tied(r) => Tied(r)'
    BY DEF Tied
  <1>2. ASSUME NEW r \in stored
        PROVE  Rank(r)' \in Nat /\ Rank(r) \in Nat /\ Rank(r) <= Rank(r)'
    <2>1. {s \in stored : Before(s, r)} \subseteq {s \in stored : Before(s, r)}'
      BY <1>2 DEF Before
    <2>2. IsFiniteSet({s \in stored : Before(s, r)}')
      <3>1. IsFiniteSet(stored')
        BY ListingAssumption, FS_Subset DEF ListTypeOK
      <3> QED
        BY <3>1, FS_Subset
    <2> QED
      BY <2>1, <2>2, FS_Subset, FS_CardinalityType DEF Rank
  <1>3. WalkOK'
    BY <1>1, <1>2 DEF WalkOK, ListTypeOK, Walk
  <1>4. WalkComplete'
    BY <1>1, <1>2, ListingAssumption DEF WalkOK, WalkComplete
  <1> QED
    BY <1>3, <1>4

\* A walk begins with nothing shown, and every row ahead of it.
LEMMA StartWalkInv ==
  ASSUME ListTypeOK, WalkOK, WalkComplete, StartWalk
  PROVE  ListTypeOK' /\ WalkOK' /\ WalkComplete'
  <1>1. PICK limit \in Limits :
            walk' = [step |-> "paging", limit |-> limit, offset |-> 0,
                     seen |-> {}, expected |-> stored]
    BY DEF StartWalk
  <1>2. UNCHANGED <<reader, order, now, stamp, stored>>
    BY DEF StartWalk
  <1>3. ListTypeOK'
    BY <1>1, <1>2 DEF ListTypeOK, Walk
  <1>4. ASSUME NEW r \in stored
        PROVE  Rank(r)' >= 0
    <2>1. Rank(r)' = Rank(r)
      BY <1>2 DEF Rank, Before
    <2> QED
      BY <2>1, RankTyped
  <1>5. WalkOK' /\ WalkComplete'
    BY <1>1, <1>2, <1>4 DEF WalkOK, WalkComplete
  <1> QED
    BY <1>3, <1>5

\* A page that does not show an expected row is full, and the row is behind it.
LEMMA NextPageInv ==
  ASSUME ListTypeOK, WalkOK, WalkComplete, NextPage
  PROVE  ListTypeOK' /\ WalkOK' /\ WalkComplete'
  <1>1. PICK n \in Numberings :
            LET page == Page(walk.offset, PageLimit(walk.limit), n)
            IN  walk' = [walk EXCEPT
                    !.seen = @ \cup page,
                    !.offset = @ + walk.limit,
                    !.step = IF Cardinality(page) < walk.limit THEN "finished"
                             ELSE "paging"]
    BY DEF NextPage
  <1>2. walk.step = "paging" /\ UNCHANGED <<reader, order, now, stamp, stored>>
    BY DEF NextPage
  <1> DEFINE limit == walk.limit
             offset == walk.offset
             size == PageLimit(limit)
             page == Page(offset, size, n)
  <1>3. limit \in Limits /\ limit \in Nat /\ offset \in Nat
    BY <1>2, ListingAssumption DEF WalkOK, ListTypeOK, Walk
  <1>4. /\ size \in Nat /\ (limit \in 1 .. MaxLimit => size = limit)
        /\ limit > MaxLimit => size = MaxLimit
    BY <1>3, ListingAssumption DEF PageLimit
  <1> HIDE DEF size, limit, offset
  <1>5. page \in SUBSET stored /\ Cardinality(page) \in Nat /\ Cardinality(page) <= size
    <2>1. page \in SUBSET stored /\ Cardinality(page) \in 0 .. size
      BY <1>3, <1>4, PageBounded
    <2> QED
      BY <1>4, <2>1
  <1>6. /\ walk'.seen = walk.seen \cup page /\ walk'.offset = offset + limit
        /\ walk'.expected = walk.expected /\ walk'.limit = limit
        /\ walk'.step = IF Cardinality(page) < limit THEN "finished" ELSE "paging"
        /\ walk' \in Walk
    <2>1. walk' = [walk EXCEPT
                     !.seen = @ \cup page, !.offset = @ + limit,
                     !.step = IF Cardinality(page) < limit THEN "finished"
                              ELSE "paging"]
      BY <1>1 DEF size, limit, offset
    <2>2. page \in SUBSET Rows
      BY <1>5 DEF ListTypeOK
    <2> HIDE DEF page
    <2> DEFINE next == IF Cardinality(page) < limit THEN "finished" ELSE "paging"
    <2>3. next \in {"idle", "paging", "finished"}
      OBVIOUS
    <2>4. walk' = [walk EXCEPT !.seen = walk.seen \cup page,
                               !.offset = offset + limit, !.step = next]
      BY <2>1 DEF offset
    <2> HIDE DEF next
    <2>5. walk \in Walk
      BY DEF ListTypeOK
    <2>6. /\ walk'.seen = walk.seen \cup page /\ walk'.offset = offset + limit
          /\ walk'.expected = walk.expected /\ walk'.limit = limit
          /\ walk'.step = next
      BY <2>4, <2>5 DEF Walk, limit
    <2>7. walk' \in Walk
      <3>1. offset + limit \in Nat
        BY <1>3
      <3> QED
        BY <2>2, <2>3, <2>4, <2>5, <3>1 DEF Walk
    <2> QED
      BY <2>6, <2>7 DEF next
  <1>7. ListTypeOK'
    BY <1>2, <1>6 DEF ListTypeOK
  <1>8. ASSUME limit \in 1 .. MaxLimit, NEW r \in walk.expected,
               r \notin walk'.seen, ~Tied(r)
        PROVE  Cardinality(page) = limit /\ Rank(r) >= offset + limit
    <2>1. r \in stored /\ r \notin page /\ Rank(r) >= offset
      BY <1>2, <1>6, <1>8 DEF WalkOK, limit, offset
    <2>2. n[r] = Rank(r) /\ Rank(r) \in Nat
      BY <1>8, <2>1, RankIsNumber, RankTyped
    <2>3. n[r] >= offset + limit
      BY <1>3, <1>4, <1>8, <2>1, <2>2 DEF Page
    <2>4. offset + limit <= Cardinality(stored)
      BY <1>3, <2>1, <2>2, <2>3, NumberingBijective, StoredFinite
    <2>5. Cardinality({s \in stored : n[s] \in offset .. (offset + limit) - 1})
            = (offset + limit) - offset
      BY <1>3, <2>4, SegmentSize
    <2>6. page = {s \in stored : n[s] \in offset .. (offset + limit) - 1}
      <3>1. \A s \in stored : n[s] \in Nat
        BY NumberingBijective, StoredFinite
      <3> QED
        BY <1>3, <1>4, <1>8, <3>1 DEF Page
    <2> QED
      BY <1>3, <2>2, <2>3, <2>5, <2>6
  <1>9. \A r \in stored : Rank(r)' = Rank(r) /\ (Tied(r) => Tied(r)')
    BY <1>2 DEF Rank, Before, Tied
  \* The page cut to MaxLimit is the first and the last of its walk.
  <1>10. ASSUME limit > MaxLimit
         PROVE  /\ walk'.step = "finished"
                /\ \A r \in walk.expected : \/ r \in walk'.seen \/ Tied(r)
                                             \/ Rank(r) >= MaxLimit
    <2>1. offset = 0
      BY <1>2, <1>10 DEF WalkOK, limit, offset
    <2>2. walk'.step = "finished"
      BY <1>3, <1>4, <1>5, <1>6, <1>10, ListingAssumption
    <2>3. ASSUME NEW r \in walk.expected, r \notin walk'.seen, ~Tied(r)
          PROVE  Rank(r) >= MaxLimit
      <3>1. r \in stored /\ r \notin page
        BY <1>6, <2>3 DEF WalkOK
      <3>2. n[r] = Rank(r) /\ Rank(r) \in Nat
        BY <2>3, <3>1, RankIsNumber, RankTyped
      <3> QED
        BY <1>4, <1>10, <2>1, <3>1, <3>2, ListingAssumption DEF Page
    <2> QED
      BY <2>2, <2>3
  <1> HIDE DEF page
  <1>11. WalkOK'
    BY <1>2, <1>3, <1>6, <1>8, <1>9, <1>10 DEF WalkOK, limit
  <1>12. WalkComplete'
    <2>1. limit > 0 => limit \in 1 .. MaxLimit \/ limit > MaxLimit
      BY <1>3, ListingAssumption
    <2> QED
      BY <1>2, <1>3, <1>6, <1>8, <1>9, <1>10, <2>1 DEF WalkOK, WalkComplete, limit
  <1> QED
    BY <1>7, <1>11, <1>12

ListInv == ListTypeOK /\ WalkOK /\ WalkComplete

\* Rows that are stamped or inserted, and the clock, disturb no walk.
LEMMA ListRowsInv ==
  ASSUME ListInv, Tick \/ \E r \in Rows : Stamp(r) \/ Insert(r)
  PROVE  ListInv'
  <1> USE DEF ListInv
  <1>1. ListTypeOK'
    <2>1. CASE Tick
      BY <2>1, ListingAssumption DEF ListTypeOK, Tick
    <2>2. ASSUME NEW r \in Rows, Stamp(r)
          PROVE  ListTypeOK'
      <3>1. now \in 0 .. now /\ now # None
        BY ListingAssumption DEF ListTypeOK
      <3> QED
        BY <2>2, <3>1 DEF ListTypeOK, Stamp
    <2>3. ASSUME NEW r \in Rows, Insert(r)
          PROVE  ListTypeOK'
      BY <2>3 DEF ListTypeOK, Insert
    <2> QED
      BY <2>1, <2>2, <2>3
  <1>2. /\ walk' = walk /\ order' = order /\ stored \subseteq stored'
        /\ \A r \in stored : stamp'[r] = stamp[r]
    BY DEF ListTypeOK, Tick, Stamp, Insert
  <1> QED
    BY <1>1, <1>2, WalkKept

-----------------------------------------------------------------------------
(* Counters and the history read from them.                                *)

\* The rest of the type invariant.
UsageTypeOK ==
    /\ counters \in [Days -> Counter \cup {None}]
    /\ recorded \in [Days -> 0 .. MaxCount]
    /\ pc \in [Calls -> Days \cup {None}]
    /\ summary \in [step : {"idle", "lists", "history", "finished"},
                    total : 0 .. CountCap, days : Seq(Entry),
                    midnights : 0 .. MaxTime]

UsageInv == /\ UsageTypeOK /\ CallsOK /\ CountersOK /\ ReadOK
            /\ HistoryOrdered /\ HistoryExact

\* The invariant is one of the list and one of the counters.
LEMMA InvSplit == IInv <=> ListInv /\ UsageInv
  BY DEF IInv, ListInv, UsageInv, TypeOK, UsageTypeOK

\* Nothing is stored, recorded or read at first.
LEMMA InitInv == Init => IInv
  <1> SUFFICES ASSUME Init PROVE ListInv /\ UsageInv
    BY InvSplit
  <1> USE UsageAssumption, ListingAssumption DEF Init
  <1>1. ListInv
    BY DEF ListInit, ListInv, ListTypeOK, Walk, WalkOK, WalkComplete
  <1>2. UsageTypeOK
    BY DEF UsageTypeOK, Blank, ListInit
  <1>3. CallsOK /\ CountersOK
    BY DEF CallsOK, CountersOK, Days
  <1>4. ReadOK /\ HistoryOrdered /\ HistoryExact
    BY DEF Blank, ReadOK, HistoryOrdered, HistoryExact, ListInit
  <1> QED
    BY <1>1, <1>2, <1>3, <1>4 DEF UsageInv

\* A midnight ends the life of counters whose day no history shows.
LEMMA MidnightInv ==
  ASSUME ListInv, UsageInv, Midnight
  PROVE  UsageInv'
  <1> USE DEF UsageInv
  <1>1. now \in Nat /\ now' = now + 1 /\ now' \in 0 .. MaxTime
    BY ListingAssumption DEF Midnight, Tick, ListInv, ListTypeOK
  <1>2. UNCHANGED <<counters, recorded, pc>>
    BY DEF Midnight
  <1> DEFINE reading == summary.step = "history" /\ summary.days # <<>>
             count == IF reading THEN summary.midnights + 1 ELSE summary.midnights
  <1>3. count \in Nat /\ count <= now' /\ count \in 0 .. MaxTime
    <2>1. summary.midnights \in Nat /\ summary.midnights <= now
      BY DEF ReadOK, UsageTypeOK
    <2> QED
      BY <1>1, <2>1, ListingAssumption
  <1>4. summary' = [summary EXCEPT !.midnights = count]
    BY DEF Midnight, UsageTypeOK
  <1>5. /\ summary'.step = summary.step /\ summary'.days = summary.days
        /\ summary'.total = summary.total /\ summary'.midnights = count
        /\ summary.midnights <= count /\ summary.midnights \in Nat
    BY <1>4 DEF UsageTypeOK
  <1> HIDE DEF count
  <1> DEFINE days == summary.days
  <1>12. /\ Len(days) \in Nat /\ HistoryDays \in Nat
         /\ \A i \in 1 .. Len(days) : days[i].date \in Int
         /\ days # <<>> => Len(days) \in 1 .. Len(days) /\ 1 \in 1 .. Len(days)
    <2>1. days \in Seq(Entry)
      BY DEF UsageTypeOK
    <2>2. \A e \in Entry : e.date \in Int
      BY DEF Entry, Days
    <2> QED
      BY <2>1, <2>2, UsageAssumption, LenProperties, EmptySeq
  <1>6. UsageTypeOK'
    BY <1>2, <1>3, <1>4 DEF UsageTypeOK
  <1>7. CallsOK'
    BY <1>1, <1>2, UsageAssumption DEF CallsOK, UsageTypeOK, Days
  <1>8. CountersOK'
    BY <1>1, <1>2, UsageAssumption DEF CountersOK, Days
  <1>9. ReadOK'
    <2>1. /\ count <= now' /\ summary'.days = days /\ summary'.step = summary.step
          /\ summary.step \in {"idle", "lists"} => days = <<>>
          /\ summary.step = "history" => Len(days) < HistoryDays
      BY <1>3, <1>5 DEF ReadOK
    <2>2. ASSUME summary.step = "history", days # <<>>
          PROVE  /\ days[Len(days)].date <= now' - HistoryDays + Len(days)
                 /\ now' - days[1].date <= HistoryDays - 1 + count
      <3>1. /\ days[Len(days)].date <= now - HistoryDays + Len(days)
            /\ now - days[1].date <= HistoryDays - 1 + summary.midnights
        BY <2>2 DEF ReadOK
      <3>2. count = summary.midnights + 1
        BY <2>2 DEF count
      <3>3. days[Len(days)].date \in Int /\ days[1].date \in Int
        BY <1>12, <2>2
      <3>4. /\ now \in Int /\ now' = now + 1 /\ HistoryDays \in Int
            /\ Len(days) \in Int /\ summary.midnights \in Int
        BY <1>1, <1>5, <1>12
      <3> HIDE DEF days
      <3>5. days[Len(days)].date <= now' - HistoryDays + Len(days)
        <4>1. \A last, t, h, n \in Int : last <= t - h + n => last <= (t + 1) - h + n
          OBVIOUS
        <4> QED
          BY ONLY <3>1, <3>3, <3>4, <4>1
      <3>6. now' - days[1].date <= HistoryDays - 1 + count
        BY <3>1, <3>2, <3>3, <3>4
      <3> QED
        BY <3>5, <3>6
    <2> QED
      BY <1>5, <2>1, <2>2 DEF ReadOK
  <1>10. HistoryOrdered'
    <2>1. ASSUME days # <<>>
          PROVE  days[Len(days)].date - days[1].date <= Len(days) - 1 + count
      <3>1. days[Len(days)].date - days[1].date <= Len(days) - 1 + summary.midnights
        BY <2>1 DEF HistoryOrdered
      <3>2. days[Len(days)].date \in Int /\ days[1].date \in Int
        BY <1>12, <2>1
      <3> HIDE DEF days
      <3> QED
        BY <1>3, <1>5, <1>12, <3>1, <3>2
    <2> QED
      BY <1>5, <2>1 DEF HistoryOrdered
  <1>11. HistoryExact'
    BY <1>5 DEF HistoryExact
  <1> QED
    BY <1>6, <1>7, <1>8, <1>9, <1>10, <1>11

\* A request is about to count itself under today.
LEMMA BeginRecordInv ==
  ASSUME ListInv, UsageInv, NEW c \in Calls, BeginRecord(c)
  PROVE  UsageInv'
  <1> USE DEF UsageInv
  <1>1. now \in Days /\ now' = now
    BY UsageAssumption DEF BeginRecord, listVars, ListInv, ListTypeOK, Days
  <1>2. pc' = [pc EXCEPT ![c] = now] /\ UNCHANGED <<counters, recorded, summary>>
    BY DEF BeginRecord
  <1>3. UsageTypeOK' /\ CallsOK'
    BY <1>1, <1>2 DEF UsageTypeOK, CallsOK, Days
  <1> QED
    BY <1>1, <1>2, <1>3 DEF CountersOK, ReadOK, HistoryOrdered, HistoryExact

\* A request the cache fails is not counted.
LEMMA DropRecordInv ==
  ASSUME ListInv, UsageInv, NEW c \in Calls, DropRecord(c)
  PROVE  UsageInv'
  <1> USE DEF UsageInv
  <1>1. pc' = [pc EXCEPT ![c] = None] /\ UNCHANGED <<counters, recorded, summary>>
        /\ now' = now
    BY DEF DropRecord, listVars
  <1>2. UsageTypeOK' /\ CallsOK'
    BY <1>1 DEF UsageTypeOK, CallsOK
  <1> QED
    BY <1>1, <1>2 DEF CountersOK, ReadOK, HistoryOrdered, HistoryExact

\* An increment of a day's counter, or a counter started anew.
LEMMA RecordInv ==
  ASSUME ListInv, UsageInv, NEW c \in Calls, Record(c)
  PROVE  UsageInv'
  <1> USE DEF UsageInv
  <1> DEFINE d == pc[c]
             old == counters[d]
             new == Incr(d)
  <1>1. /\ d # None /\ recorded[d] < MaxCount
        /\ counters' = [counters EXCEPT ![d] = new]
        /\ recorded' = [recorded EXCEPT ![d] = recorded[d] + 1]
        /\ pc' = [pc EXCEPT ![c] = None]
        /\ now' = now /\ summary' = summary
    BY DEF Record, listVars
  <1>2. d \in Days /\ d \in Int /\ d <= now /\ now \in Nat /\ recorded[d] \in Nat
        /\ MaxCount \in Nat /\ CounterTTL \in Nat
    BY <1>1, UsageAssumption DEF UsageTypeOK, CallsOK, Days, ListInv, ListTypeOK
  <1>3. Live(d) => old \in Counter /\ now < old.expires /\ old.count <= recorded[d]
    BY <1>2 DEF Live, UsageTypeOK, CountersOK
  <1>4. new \in Counter
    BY <1>1, <1>2, <1>3 DEF Counter, Incr
  <1>5. /\ new.count = IF Live(d) THEN old.count + 1 ELSE 1
        /\ new.expires = IF Live(d) THEN old.expires ELSE now + CounterTTL
    BY <1>3 DEF Counter, Incr
  <1>6. new # None
    BY <1>4, UsageAssumption DEF Counter
  <1>7. new.count <= recorded[d] + 1
    BY <1>2, <1>3, <1>5 DEF Counter
  <1>8. now < d + CounterTTL =>
            new.count = recorded[d] + 1 /\ new.expires >= d + CounterTTL
    <2> SUFFICES ASSUME now < d + CounterTTL
                 PROVE  new.count = recorded[d] + 1 /\ new.expires >= d + CounterTTL
      OBVIOUS
    <2>1. CASE old = None
      BY <1>2, <1>5, <2>1 DEF CountersOK, Live
    <2>2. CASE old # None
      <3>1. old.count = recorded[d] /\ old.expires >= d + CounterTTL
        BY <1>2, <2>2 DEF CountersOK
      <3>2. old \in Counter
        BY <1>2, <2>2 DEF UsageTypeOK
      <3>3. Live(d)
        BY <1>2, <2>2, <3>1, <3>2 DEF Live, Counter
      <3> QED
        BY <1>5, <3>1, <3>3
    <2> QED
      BY <2>1, <2>2
  <1> HIDE DEF d, old, new
  <1>9. UsageTypeOK'
    BY <1>1, <1>2, <1>4 DEF UsageTypeOK
  <1>10. CallsOK'
    BY <1>1 DEF CallsOK, UsageTypeOK
  <1>11. CountersOK'
    <2> SUFFICES ASSUME NEW e \in Days
                 PROVE  /\ counters'[e] # None => counters'[e].count <= recorded'[e]
                        /\ now < e + CounterTTL =>
                              IF counters'[e] = None THEN recorded'[e] = 0
                              ELSE /\ counters'[e].count = recorded'[e]
                                   /\ counters'[e].expires >= e + CounterTTL
      BY <1>1 DEF CountersOK
    <2>1. CASE e = d
      <3>1. counters'[e] = new /\ recorded'[e] = recorded[d] + 1
        BY <1>1, <1>2, <2>1 DEF UsageTypeOK
      <3> QED
        BY <1>6, <1>7, <1>8, <2>1, <3>1
    <2>2. CASE e # d
      <3>1. counters'[e] = counters[e] /\ recorded'[e] = recorded[e]
        BY <1>1, <2>2 DEF UsageTypeOK
      <3> QED
        BY <3>1 DEF CountersOK
    <2> QED
      BY <2>1, <2>2
  <1>12. ReadOK' /\ HistoryOrdered' /\ HistoryExact'
    BY <1>1 DEF ReadOK, HistoryOrdered, HistoryExact
  <1> QED
    BY <1>9, <1>10, <1>11, <1>12

\* A summary begins without days.
LEMMA BeginSummaryInv ==
  ASSUME ListInv, UsageInv, BeginSummary
  PROVE  UsageInv'
  <1>1. /\ summary' = [step |-> "lists", total |-> 0, days |-> <<>>, midnights |-> 0]
        /\ UNCHANGED <<counters, recorded, pc>> /\ now' = now
    BY DEF BeginSummary, Blank, listVars
  <1>2. UsageTypeOK'
    BY <1>1, UsageAssumption, ListingAssumption DEF UsageInv, UsageTypeOK
  <1>3. CallsOK' /\ CountersOK'
    BY <1>1 DEF UsageInv, CallsOK, CountersOK
  <1>4. ReadOK' /\ HistoryOrdered' /\ HistoryExact'
    BY <1>1 DEF ReadOK, HistoryOrdered, HistoryExact, ListInv, ListTypeOK
  <1> QED
    BY <1>2, <1>3, <1>4 DEF UsageInv

\* The counts of a summary are those of a page, which the cap bounds.
LEMMA CountRowsInv ==
  ASSUME ListInv, UsageInv, CountRows
  PROVE  UsageInv'
  <1>1. PICK n \in Numberings :
            summary' = [summary EXCEPT !.step = "history",
                                       !.total = Cardinality(Page(0, CountCap, n))]
    BY DEF CountRows
  <1>2. /\ summary.step = "lists" /\ now' = now
        /\ UNCHANGED <<counters, recorded, pc>>
    BY DEF CountRows, listVars
  <1> DEFINE total == Cardinality(Page(0, CountCap, n))
  <1>3. total \in 0 .. CountCap
    BY UsageAssumption, PageBounded DEF ListInv
  <1>4. summary' = [summary EXCEPT !.step = "history", !.total = total]
    BY <1>1
  <1> HIDE DEF total
  <1>5. UsageTypeOK'
    BY <1>2, <1>3, <1>4 DEF UsageInv, UsageTypeOK
  <1>6. /\ summary'.step = "history" /\ summary'.days = <<>>
        /\ summary'.midnights = summary.midnights
    BY <1>2, <1>4 DEF UsageInv, UsageTypeOK, ReadOK
  <1>7. CallsOK' /\ CountersOK'
    BY <1>2 DEF UsageInv, CallsOK, CountersOK
  <1>8. ReadOK' /\ HistoryOrdered' /\ HistoryExact'
    BY <1>2, <1>6, UsageAssumption
    DEF UsageInv, ReadOK, HistoryOrdered, HistoryExact
  <1> QED
    BY <1>5, <1>7, <1>8 DEF UsageInv

\* Until a day is as old as the time to live, its counter says what was
\* recorded for it.
LEMMA CounterExact ==
  ASSUME ListInv, UsageInv, NEW d \in Days, now < d + CounterTTL
  PROVE  (IF Live(d) THEN counters[d].count ELSE 0) = recorded[d]
  <1>1. CASE counters[d] = None
    BY <1>1 DEF UsageInv, CountersOK, Live
  <1>2. CASE counters[d] # None
    <2>1. counters[d].count = recorded[d] /\ counters[d].expires >= d + CounterTTL
      BY <1>2 DEF UsageInv, CountersOK
    <2>2. counters[d] \in Counter /\ now \in Int /\ d \in Int /\ CounterTTL \in Int
      BY <1>2, UsageAssumption
      DEF UsageInv, UsageTypeOK, ListInv, ListTypeOK, Days
    <2>3. Live(d)
      BY <1>2, <2>1, <2>2 DEF Live, Counter
    <2> QED
      BY <2>1, <2>3
  <1> QED
    BY <1>1, <1>2

\* The day read next comes after those read before, by at least one.
LEMMA ReadDayInv ==
  ASSUME ListInv, UsageInv, NEW failed \in BOOLEAN, ReadDay(failed)
  PROVE  UsageInv'
  <1> DEFINE days == summary.days
             n == Len(days)
             date == now - (HistoryDays - 1 - n)
             count == IF failed \/ ~Live(date) THEN 0 ELSE counters[date].count
             entry == [date |-> date, failed |-> failed, count |-> count,
                       actual |-> recorded[date]]
             step == IF n + 1 = HistoryDays THEN "finished" ELSE "history"
  <1>1. /\ summary.step = "history" /\ now' = now
        /\ summary' = [summary EXCEPT !.days = Append(days, entry), !.step = step]
        /\ UNCHANGED <<counters, recorded, pc>>
    BY DEF ReadDay, listVars
  <1>2. /\ summary \in [step : {"idle", "lists", "history", "finished"},
                        total : 0 .. CountCap, days : Seq(Entry),
                        midnights : 0 .. MaxTime]
        /\ days \in Seq(Entry) /\ n \in Nat /\ n < HistoryDays
    BY <1>1 DEF UsageInv, UsageTypeOK, ReadOK
  <1>3. /\ now \in Nat /\ now <= MaxTime /\ HistoryDays \in Nat \ {0}
        /\ CounterTTL \in Nat /\ CounterTTL >= HistoryDays /\ MaxTime \in Nat
    BY UsageAssumption, ListingAssumption DEF ListInv, ListTypeOK
  <1>4. date \in Days /\ date \in Int /\ now < date + CounterTTL
    BY <1>2, <1>3 DEF Days
  <1>5. recorded[date] \in Nat
    BY <1>4 DEF UsageInv, UsageTypeOK
  <1>6. count = IF failed THEN 0 ELSE recorded[date]
    BY <1>4, CounterExact
  <1>7. /\ entry \in Entry /\ entry.date = date
        /\ entry.count = IF entry.failed THEN 0 ELSE entry.actual
    <2>1. count \in Nat
      BY <1>5, <1>6
    <2> HIDE DEF count, date
    <2> QED
      BY <1>4, <1>5, <1>6, <2>1 DEF Entry
  <1> HIDE DEF entry, count
  <1>8. step \in {"finished", "history"}
    OBVIOUS
  <1> DEFINE longer == Append(days, entry)
  <1>9. /\ longer \in Seq(Entry) /\ Len(longer) = n + 1 /\ longer # <<>>
        /\ longer[n + 1] = entry /\ \A i \in 1 .. n : longer[i] = days[i]
    BY <1>2, <1>7, AppendProperties
  <1> HIDE DEF longer, step
  <1>10. /\ summary'.days = longer /\ summary'.step = step
         /\ summary'.midnights = summary.midnights
         /\ summary.midnights \in Nat
    BY <1>1, <1>2 DEF longer
  <1>11. UsageTypeOK'
    <2>1. summary' = [summary EXCEPT !.days = longer, !.step = step]
      BY <1>1 DEF longer
    <2> QED
      BY <1>1, <1>2, <1>8, <1>9, <2>1 DEF UsageInv, UsageTypeOK
  <1>12. CallsOK' /\ CountersOK'
    BY <1>1 DEF UsageInv, CallsOK, CountersOK
  <1>13. \A i \in 1 .. n : days[i].date \in Int
    <2>1. \A e \in Entry : e.date \in Int
      BY DEF Entry, Days
    <2>2. \A i \in 1 .. n : days[i] \in Entry
      BY <1>2
    <2> QED
      BY <2>1, <2>2
  <1>14. /\ n # 0 => /\ days[n].date <= now - HistoryDays + n
                     /\ now - days[1].date <= HistoryDays - 1 + summary.midnights
         /\ summary.midnights <= now
    BY <1>1, <1>2, EmptySeq DEF UsageInv, ReadOK
  <1> HIDE DEF days
  <1>15. now - longer[1].date <= HistoryDays - 1 + summary.midnights
    <2>1. CASE n = 0
      BY <1>2, <1>3, <1>7, <1>9, <1>10, <2>1
    <2>2. CASE n # 0
      BY <1>2, <1>9, <1>14, <2>2
    <2> QED
      BY <2>1, <2>2
  <1>16. longer[n + 1].date = now - HistoryDays + (n + 1)
    BY <1>2, <1>3, <1>7, <1>9
  <1>17. ReadOK'
    <2>1. step = "history" => n + 1 < HistoryDays
      BY <1>2, <1>3 DEF step
    <2> QED
      BY <1>1, <1>3, <1>8, <1>9, <1>10, <1>14, <1>15, <1>16, <2>1 DEF ReadOK
  <1>18. HistoryOrdered'
    <2>1. ASSUME NEW i \in 1 .. n
          PROVE  longer[i].date < longer[i + 1].date
      <3>1. CASE i = n
        BY <1>2, <1>3, <1>9, <1>13, <1>14, <1>16, <3>1
      <3>2. CASE i # n
        <4>1. days[i].date < days[i + 1].date
          BY <1>2, <3>2 DEF UsageInv, HistoryOrdered, days
        <4>2. i + 1 \in 1 .. n
          BY <1>2, <3>2
        <4> QED
          BY <1>9, <4>1, <4>2
      <3> QED
        BY <3>1, <3>2
    <2>2. longer[1].date \in Int
      BY <1>2, <1>4, <1>7, <1>9, <1>13
    <2>3. longer[n + 1].date - longer[1].date <= (n + 1) - 1 + summary.midnights
      BY <1>2, <1>3, <1>10, <1>15, <1>16, <2>2
    <2> QED
      BY <1>2, <1>9, <1>10, <2>1, <2>3 DEF HistoryOrdered
  <1>19. HistoryExact'
    <2>1. ASSUME NEW i \in 1 .. n + 1
          PROVE  longer[i].count = IF longer[i].failed THEN 0 ELSE longer[i].actual
      <3>1. CASE i = n + 1
        BY <1>7, <1>9, <3>1
      <3>2. CASE i # n + 1
        BY <1>2, <1>9, <3>2 DEF UsageInv, HistoryExact, days
      <3> QED
        BY <3>1, <3>2
    <2> QED
      BY <1>9, <1>10, <2>1 DEF HistoryExact
  <1> QED
    BY <1>11, <1>12, <1>17, <1>18, <1>19 DEF UsageInv

-----------------------------------------------------------------------------

\* Every step keeps the invariant: those of the list change nothing that the
\* counters are about, and those of the counters nothing of the list.
LEMMA NextInv == IInv /\ [Next]_vars => IInv'
  <1> SUFFICES ASSUME ListInv, UsageInv, [Next]_vars
               PROVE  ListInv' /\ UsageInv'
    BY DEF IInv, ListInv, UsageInv, TypeOK, UsageTypeOK
  <1>1. ASSUME UNCHANGED listVars
        PROVE  ListInv'
    BY <1>1 DEF listVars, ListInv, ListTypeOK, WalkOK, WalkComplete, Tied,
                Rank, Before
  <1>2. ASSUME now' = now, UNCHANGED usageVars
        PROVE  UsageInv'
    BY <1>2 DEF usageVars, UsageInv, UsageTypeOK, CallsOK, CountersOK, ReadOK,
                HistoryOrdered, HistoryExact
  <1>3. CASE Midnight
    <2>1. Tick
      BY <1>3 DEF Midnight
    <2> QED
      BY <1>3, <2>1, ListRowsInv, MidnightInv
  <1>4. CASE (StartWalk \/ NextPage) /\ UNCHANGED usageVars
    <2>1. ListInv'
      BY <1>4, StartWalkInv, NextPageInv DEF ListInv
    <2>2. now' = now
      BY <1>4 DEF StartWalk, NextPage
    <2> QED
      BY <1>2, <1>4, <2>1, <2>2
  <1>5. CASE \E r \in Rows : (Stamp(r) \/ Insert(r)) /\ UNCHANGED usageVars
    <2>1. ListInv'
      BY <1>5, ListRowsInv
    <2>2. now' = now
      BY <1>5 DEF Stamp, Insert
    <2> QED
      BY <1>2, <1>5, <2>1, <2>2
  <1>6. CASE \E c \in Calls : BeginRecord(c) \/ Record(c) \/ DropRecord(c)
    BY <1>1, <1>6, BeginRecordInv, RecordInv, DropRecordInv
    DEF BeginRecord, Record, DropRecord
  <1>7. CASE BeginSummary \/ CountRows
    BY <1>1, <1>7, BeginSummaryInv, CountRowsInv DEF BeginSummary, CountRows
  <1>8. CASE \E failed \in BOOLEAN : ReadDay(failed)
    BY <1>1, <1>8, ReadDayInv DEF ReadDay
  <1>9. CASE UNCHANGED vars
    BY <1>1, <1>2, <1>9 DEF vars, listVars
  <1> QED
    BY <1>3, <1>4, <1>5, <1>6, <1>7, <1>8, <1>9 DEF Next

\* IInv holds in every state: rows, walks, counters and summaries stay within
\* their types and in step with one another (pagination.rs, usage.rs).
THEOREM Invariance == Spec => []IInv
  BY InitInv, NextInv, PTL DEF Spec

\* A walk in pages misses no row that was there when it began, however many
\* are created between two of its pages (pagination.rs:15, mssql.rs:284).
THEOREM WalksComplete == Spec => []WalkComplete
  BY Invariance, PTL DEF IInv

\* A history is in order, and its gaps are midnights it was read over
\* (usage.rs:57).
THEOREM HistoryInOrder == Spec => []HistoryOrdered
  BY Invariance, PTL DEF IInv

\* A history shows every attempt recorded for its days, but where the cache
\* failed (usage.rs:25).
THEOREM HistoryIsExact == Spec => []HistoryExact
  BY Invariance, PTL DEF IInv
=============================================================================
