------------------------------- MODULE Listing -------------------------------
(***************************************************************************)
(* The list routes: a client pages through the rows of its organization    *)
(* (routes/*.rs list, pagination.rs, the list_* methods of storage) while  *)
(* rows are being created.  A handler stamps a row with created_at before  *)
(* it inserts it, so rows need not appear in the order of their stamps.    *)
(*                                                                         *)
(* Abstracted: one table and one organization (a list is filtered by its   *)
(* organization and rows are never deleted); a row is its stamp; a         *)
(* behaviour has one reader, which pages or (module Usage) asks for        *)
(* summaries: readers change nothing that another one reads.               *)
(***************************************************************************)
EXTENDS Integers, FiniteSets

CONSTANTS
    Rows,           \* ids of rows that may be created (bounds creation)
    MaxTime,        \* last stamp (bounds the clock)
    MaxLimit,       \* MAX_LIMIT of pagination.rs
    Limits,         \* the limits clients ask for
    None

ASSUME ListingAssumption ==
    /\ IsFiniteSet(Rows)
    /\ MaxTime \in Nat /\ MaxLimit \in Nat \ {0}
    /\ Limits \subseteq Nat
    /\ None \notin Rows \cup 0 .. MaxTime

VARIABLES
    reader,         \* "pager" or "dashboard": what the client reads
    order,          \* how the query sorts: newest or, the users, oldest stamp
                    \* first
    now,            \* the clock that stamps rows
    stamp,          \* created_at of each row, None until a handler stamps it
    stored,         \* the rows inserted
    walk            \* the client that pages through the list

listVars == <<reader, order, now, stamp, stored, walk>>

Walk == [step : {"idle", "paging", "finished"}, limit : Limits \cup {None},
         offset : Nat, seen : SUBSET Rows, expected : SUBSET Rows]

ListTypeOK ==
    /\ reader \in {"pager", "dashboard"}
    /\ order \in {"newest", "oldest"}
    /\ now \in 0 .. MaxTime
    /\ stamp \in [Rows -> 0 .. now \cup {None}]
    /\ stored \subseteq {r \in Rows : stamp[r] # None}
    /\ walk \in Walk

ListInit ==
    /\ reader \in {"pager", "dashboard"}
    /\ order \in {"newest", "oldest"}
    /\ reader = "dashboard" => order = "newest"
    /\ now = 0
    /\ stamp = [r \in Rows |-> None]
    /\ stored = {}
    /\ walk = [step |-> "idle", limit |-> None, offset |-> 0,
               seen |-> {}, expected |-> {}]

\* The clock, which module Usage reads as the day.
Tick ==
    /\ now < MaxTime
    /\ now' = now + 1
    /\ UNCHANGED <<reader, order, stamp, stored, walk>>

Stamp(r) ==
    /\ stamp[r] = None
    /\ stamp' = [stamp EXCEPT ![r] = now]
    /\ UNCHANGED <<reader, order, now, stored, walk>>

Insert(r) ==
    /\ stamp[r] # None
    /\ r \notin stored
    /\ stored' = stored \cup {r}
    /\ UNCHANGED <<reader, order, now, stamp, walk>>

-----------------------------------------------------------------------------

\* limit.unwrap_or(50).clamp(1, MAX_LIMIT)
PageLimit(asked) ==
    IF asked < 1 THEN 1 ELSE IF asked > MaxLimit THEN MaxLimit ELSE asked

Before(r, s) == IF order = "newest" THEN stamp[r] > stamp[s] ELSE stamp[r] < stamp[s]

\* The ways the query may number the rows it sorts: it compares stamps only,
\* so rows of one stamp come in any order, another one each time.
Numberings ==
    {n \in [stored -> 0 .. Cardinality(stored) - 1] :
        \A r, s \in stored : /\ r # s => n[r] # n[s]
                             /\ Before(r, s) => n[r] < n[s]}

\* Mutant of Page: the page is one row short of where the next begins.
ShortPage(offset, limit, number) ==
    {r \in stored : number[r] >= offset /\ number[r] + 1 < offset + limit}

\* ORDER BY created_at, skipping `offset` rows, at most `limit` of them.
Page(offset, limit, number) ==
    {r \in stored : number[r] >= offset /\ number[r] < offset + limit}

\* A client starts at offset 0; it expects the rows there are by then.
StartWalk ==
    /\ reader = "pager"
    /\ walk.step # "paging"
    /\ \E limit \in Limits :
        walk' = [step |-> "paging", limit |-> limit, offset |-> 0,
                 seen |-> {}, expected |-> stored]
    /\ UNCHANGED <<reader, order, now, stamp, stored>>

\* It asks for page after page until one is shorter than its limit, as
\* docs/API.md:22 says it should.
NextPage ==
    /\ walk.step = "paging"
    /\ \E number \in Numberings :
        LET page == Page(walk.offset, PageLimit(walk.limit), number)
        IN  walk' = [walk EXCEPT
                !.seen = @ \cup page,
                !.offset = @ + walk.limit,
                !.step = IF Cardinality(page) < walk.limit THEN "finished"
                         ELSE "paging"]
    /\ UNCHANGED <<reader, order, now, stamp, stored>>

-----------------------------------------------------------------------------

Tied(r) == \E s \in stored \ {r} : stamp[s] = stamp[r]

\* The rows a query lists before r, whichever way it breaks ties.
Rank(r) == Cardinality({s \in stored : Before(s, r)})

\* A row that a walk has yet to show is not behind it: rows that are inserted
\* in front of it only push it further on.
WalkOK ==
    /\ walk.expected \subseteq stored
    /\ walk.step # "idle" => walk.limit \in Limits
    /\ walk.step = "paging" =>
          /\ walk.limit \in 1 .. MaxLimit
                => \A r \in walk.expected :
                      r \in walk.seen \/ Tied(r) \/ Rank(r) >= walk.offset
          /\ walk.limit > MaxLimit => walk.offset = 0

\* A client that asks for no more than the server gives (pagination.rs:15)
\* misses no row: whatever is inserted between two of its pages, each row that
\* was there when it began is on one of them, unless another row has the very
\* same created_at, the only column lists are sorted by (mssql.rs:284).  A
\* client that asks for more takes the first page for the whole list, its
\* limit being cut (pagination.rs:24), and misses rows behind that page only.
WalkComplete ==
    walk.step = "finished" /\ walk.limit > 0 =>
        \A r \in walk.expected :
            \/ r \in walk.seen \/ Tied(r)
            \/ walk.limit > MaxLimit /\ Rank(r) >= MaxLimit
=============================================================================
