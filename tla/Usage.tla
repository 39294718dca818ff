-------------------------------- MODULE Usage --------------------------------
(***************************************************************************)
(* Usage metering (usage.rs, routes/usage.rs): every validation counts up  *)
(* a cache counter of its organization and day, with a time to live, and   *)
(* the summary shows the counters of the last days next to counts taken    *)
(* from the lists.  The summary reads the clock again for each day it      *)
(* shows, waiting for the cache in between, so days may pass as it reads.  *)
(*                                                                         *)
(* Abstracted: one organization; the clock of module Listing counts days;  *)
(* a counter expires at the start of a day; the three lists a summary      *)
(* counts are one.                                                         *)
(***************************************************************************)
EXTENDS Listing, Sequences

CONSTANTS
    Calls,          \* validate requests that may be counting themselves
    HistoryDays,    \* HISTORY_DAYS of usage.rs
    CounterTTL,     \* COUNTER_TTL, in days
    CountCap,       \* COUNT_CAP of routes/usage.rs
    MaxCount        \* attempts recorded per day (bounds counting)

ASSUME UsageAssumption ==
    /\ HistoryDays \in Nat \ {0}
    /\ CounterTTL \in Nat /\ CounterTTL >= HistoryDays
    /\ CountCap \in Nat \ {0}
    /\ MaxCount \in Nat
    /\ None \notin -HistoryDays .. MaxTime
    /\ None \notin [count : 1 .. MaxCount, expires : Nat]

VARIABLES
    counters,       \* of each day: its counter and the day it expires, or None
    recorded,       \* history: the attempts counted for each day
    pc,             \* the day each request is about to count itself under
    summary         \* the summary being read; history: the midnights since
                    \* the first of its days was

usageVars == <<counters, recorded, pc, summary>>
vars == <<listVars, usageVars>>

Days == -HistoryDays .. MaxTime

Counter == [count : 1 .. MaxCount, expires : Nat]

\* An entry of the history; failed if the cache gave no answer for it, and
\* (history) the attempts that had been recorded for its day.
Entry == [date : Days, count : Nat, failed : BOOLEAN, actual : Nat]

TypeOK ==
    /\ ListTypeOK
    /\ counters \in [Days -> Counter \cup {None}]
    /\ recorded \in [Days -> 0 .. MaxCount]
    /\ pc \in [Calls -> Days \cup {None}]
    /\ summary \in [step : {"idle", "lists", "history", "finished"},
                    total : 0 .. CountCap, days : Seq(Entry),
                    midnights : 0 .. MaxTime]

Blank == [step |-> "idle", total |-> 0, days |-> <<>>, midnights |-> 0]

Init ==
    /\ ListInit
    /\ counters = [d \in Days |-> None]
    /\ recorded = [d \in Days |-> 0]
    /\ pc = [c \in Calls |-> None]
    /\ summary = Blank

Midnight ==
    /\ Tick
    /\ summary' = [summary EXCEPT !.midnights =
           IF summary.step = "history" /\ summary.days # <<>> THEN @ + 1 ELSE @]
    /\ UNCHANGED <<counters, recorded, pc>>

-----------------------------------------------------------------------------
(* record_validation                                                       *)

\* The key is made from today's date.
BeginRecord(c) ==
    /\ reader = "dashboard"
    /\ pc[c] = None
    /\ pc' = [pc EXCEPT ![c] = now]
    /\ UNCHANGED <<listVars, counters, recorded, summary>>

Live(d) == counters[d] # None /\ now < counters[d].expires

\* Mutant of Incr: a counter lives a day less.
IncrBriefly(d) ==
    IF Live(d) THEN [counters[d] EXCEPT !.count = @ + 1]
    ELSE [count |-> 1, expires |-> now + CounterTTL - 1]

\* Cache::incr: the first increment sets when the counter expires.
Incr(d) ==
    IF Live(d) THEN [counters[d] EXCEPT !.count = @ + 1]
    ELSE [count |-> 1, expires |-> now + CounterTTL]

Record(c) ==
    LET d == pc[c]
    IN  /\ d # None
        /\ recorded[d] < MaxCount
        /\ counters' = [counters EXCEPT ![d] = Incr(d)]
        /\ recorded' = [recorded EXCEPT ![d] = @ + 1]
        /\ pc' = [pc EXCEPT ![c] = None]
        /\ UNCHANGED <<listVars, summary>>

\* A cache error is logged and swallowed.
DropRecord(c) ==
    /\ pc[c] # None
    /\ pc' = [pc EXCEPT ![c] = None]
    /\ UNCHANGED <<listVars, counters, recorded, summary>>

-----------------------------------------------------------------------------
(* summary                                                                 *)

BeginSummary ==
    /\ summary.step \in {"idle", "finished"}
    /\ reader = "dashboard"
    /\ summary' = [Blank EXCEPT !.step = "lists"]
    /\ UNCHANGED <<listVars, counters, recorded, pc>>

\* Mutant of CountRows: the page is not capped.
CountAllRows ==
    /\ summary.step = "lists"
    /\ summary' = [summary EXCEPT !.step = "history",
                                  !.total = Cardinality(stored)]
    /\ UNCHANGED <<listVars, counters, recorded, pc>>

\* The counts are those of one page of COUNT_CAP rows.
CountRows ==
    /\ summary.step = "lists"
    /\ \E number \in Numberings :
        summary' = [summary EXCEPT
            !.step = "history",
            !.total = Cardinality(Page(0, CountCap, number))]
    /\ UNCHANGED <<listVars, counters, recorded, pc>>

\* Mutant of ReadDay: the days are counted from the other end.
ReadDayBackward(failed) ==
    LET n == Len(summary.days)
        date == now - n
    IN  /\ summary.step = "history"
        /\ summary' = [summary EXCEPT
               !.days = Append(@, [date |-> date, failed |-> failed,
                   count |-> IF failed \/ ~Live(date) THEN 0
                             ELSE counters[date].count,
                   actual |-> recorded[date]]),
               !.step = IF n + 1 = HistoryDays THEN "finished" ELSE "history"]
        /\ UNCHANGED <<listVars, counters, recorded, pc>>

\* One turn of the loop of validate_history: the clock is read, then the
\* counter of that many days ago; an error, like no counter, reads as 0.
ReadDay(failed) ==
    LET n == Len(summary.days)
        date == now - (HistoryDays - 1 - n)
    IN  /\ summary.step = "history"
        /\ summary' = [summary EXCEPT
               !.days = Append(@, [date |-> date, failed |-> failed,
                   count |-> IF failed \/ ~Live(date) THEN 0
                             ELSE counters[date].count,
                   actual |-> recorded[date]]),
               !.step = IF n + 1 = HistoryDays THEN "finished" ELSE "history"]
        /\ UNCHANGED <<listVars, counters, recorded, pc>>

Next ==
    \/ Midnight
    \/ (StartWalk \/ NextPage) /\ UNCHANGED usageVars
    \/ \E r \in Rows : (Stamp(r) \/ Insert(r)) /\ UNCHANGED usageVars
    \/ \E c \in Calls : BeginRecord(c) \/ Record(c) \/ DropRecord(c)
    \/ BeginSummary \/ CountRows
    \/ \E failed \in BOOLEAN : ReadDay(failed)

Spec == Init /\ [][Next]_vars

-----------------------------------------------------------------------------

\* The history is oldest first, no day is in it twice, and it leaves out no
\* more days than there were midnights while it was read (usage.rs:57).
HistoryOrdered ==
    LET days == summary.days
    IN  days # <<>> =>
        /\ \A i \in 1 .. Len(days) - 1 : days[i].date < days[i + 1].date
        /\ days[Len(days)].date - days[1].date <= Len(days) - 1 + summary.midnights

\* A day that is shown is shown in full: no counter expires while its day is
\* still in the history (usage.rs:25), and only a cache error hides one.
HistoryExact ==
    \A i \in 1 .. Len(summary.days) :
        LET day == summary.days[i]
        IN  day.count = IF day.failed THEN 0 ELSE day.actual

-----------------------------------------------------------------------------
(* The invariant behind these properties, conjunct by conjunct.            *)

\* A request counts itself under a day that has begun.
CallsOK == \A c \in Calls : pc[c] # None => pc[c] <= now

\* Until a day is older than the time to live, its counter holds what was
\* recorded; a request that was delayed for longer starts a new one.
CountersOK ==
    \A d \in Days :
        /\ counters[d] # None => counters[d].count <= recorded[d]
        /\ now < d + CounterTTL =>
              IF counters[d] = None THEN recorded[d] = 0
              ELSE /\ counters[d].count = recorded[d]
                   /\ counters[d].expires >= d + CounterTTL

\* The days read so far are those before the one that is read next, and the
\* first of them is as far back as the midnights since have moved it.
ReadOK ==
    LET days == summary.days
    IN  /\ summary.midnights <= now
        /\ summary.step \in {"idle", "lists"} => days = <<>>
        /\ summary.step = "history" /\ days # <<>> =>
              /\ days[Len(days)].date <= now - HistoryDays + Len(days)
              /\ now - days[1].date <= HistoryDays - 1 + summary.midnights
        /\ summary.step = "history" => Len(days) < HistoryDays

IInv == TypeOK /\ WalkOK /\ CallsOK /\ CountersOK /\ ReadOK
            /\ WalkComplete /\ HistoryOrdered /\ HistoryExact
=============================================================================
