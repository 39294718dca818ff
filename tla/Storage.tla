------------------------------- MODULE Storage -------------------------------
(***************************************************************************)
(* The storage behind the handlers: concurrent calls of the Storage trait  *)
(* on the backend the configuration names (main.rs, build_storage), with   *)
(* the connection pool of a SQL backend, the methods that take two         *)
(* statements, and calls that break off at any wait.                       *)
(*                                                                         *)
(* Statements are those of SqlStorage, following mssql.rs in where a       *)
(* connection is taken and given back; the in-memory methods are those of  *)
(* MemoryStorage.                                                          *)
(***************************************************************************)
EXTENDS StorageRows, Naturals

CONSTANTS
    Clients,        \* handlers that may be inside a storage call
    Workloads,      \* groups of methods, explored one group per behaviour:
                    \* methods of different tables share no rows
    MaxConnections  \* the pool's size (database.max_connections)

ASSUME WorkloadsAssumption == Workloads \subseteq SUBSET Methods

ASSUME PoolAssumption == IsFiniteSet(Clients) /\ MaxConnections \in Nat \ {0}

VARIABLES
    backend,        \* "sql" or "memory", from the configuration
    workload,       \* the methods called in this behaviour
    db,             \* the rows of each table
    held,           \* the clients that hold a pooled connection
    pc,             \* where each client is in its call
    call,           \* what it asked for
    reply           \* the answer it gets when the call ends

vars == <<backend, workload, db, held, pc, call, reply>>

Sql == INSTANCE SqlStorage
Memory == INSTANCE MemoryStorage

Steps == {"idle", "acquire", "run", "reacquire", "select", "done"}

TypeOK ==
    /\ backend \in {"sql", "memory"}
    /\ workload \in Workloads
    /\ db \in [Tables -> SUBSET Row]
    /\ held \subseteq Clients
    /\ pc \in [Clients -> Steps]
    /\ call \in [Clients -> Request \cup {None}]
    /\ reply \in [Clients -> Reply]
    /\ \A c \in Clients :
        IF pc[c] = "idle" THEN call[c] = None
        ELSE \E m \in Methods : call[c] \in Requests(m)

Init ==
    /\ backend \in {"sql", "memory"}
    /\ workload \in Workloads
    /\ db = [t \in Tables |-> {}]
    /\ held = {}
    /\ pc = [c \in Clients |-> "idle"]
    /\ call = [c \in Clients |-> None]
    /\ reply = [c \in Clients |-> NoReply]

T(c) == db[TableOf(call[c].method)]

\* A fresh UUID: no row has it, and no call in progress.
Fresh(id, t) ==
    /\ \A r \in db[t] : r.id # id
    /\ \A c \in Clients : pc[c] # "idle" => call[c].id # id

\* A handler calls a method.
Ask(c) ==
    /\ pc[c] = "idle"
    /\ \E m \in workload : \E q \in Requests(m) :
        /\ m \in Creates => Fresh(q.id, TableOf(m))
        /\ call' = [call EXCEPT ![c] = q]
    /\ pc' = [pc EXCEPT ![c] = "acquire"]
    /\ UNCHANGED <<backend, workload, db, held, reply>>

\* The client's next step, with the connections it then holds.
Proceed(c, step, holders) ==
    /\ pc' = [pc EXCEPT ![c] = step]
    /\ held' = holders
    /\ UNCHANGED <<backend, workload, call>>

\* pool.get(): waits while every connection is in use.
Acquire(c) ==
    /\ backend = "sql"
    /\ pc[c] \in {"acquire", "reacquire"}
    /\ Cardinality(held) < MaxConnections
    /\ Proceed(c, IF pc[c] = "acquire" THEN "run" ELSE "select", held \cup {c})
    /\ UNCHANGED <<db, reply>>

Effect(c, outcome) ==
    /\ db' = [db EXCEPT ![TableOf(call[c].method)] = outcome.rows]
    /\ reply' = [reply EXCEPT ![c] = outcome.answer]

\* Mutant of Run: the connection is kept while get_license waits for another.
RunHolding(c) ==
    /\ pc[c] = "run"
    /\ \E outcome \in Sql!Statement(T(c), call[c]) : Effect(c, outcome)
    /\ Proceed(c, IF call[c].method = "set_license_status" THEN "reacquire"
                  ELSE IF call[c].method = "revoke_api_key" THEN "select"
                  ELSE "done", held)

\* The first statement.  set_license_status drops its connection before
\* get_license takes one; revoke_api_key goes on with the one it has.
Run(c) ==
    /\ pc[c] = "run"
    /\ \E outcome \in Sql!Statement(T(c), call[c]) : Effect(c, outcome)
    /\ CASE call[c].method = "set_license_status" -> Proceed(c, "reacquire", held \ {c})
         [] call[c].method = "revoke_api_key" -> Proceed(c, "select", held)
         [] OTHER -> Proceed(c, "done", held)

\* The row the revoked license, or key, has become.
Select(c) ==
    /\ pc[c] = "select"
    /\ \E outcome \in Sql!SelectOne(T(c), call[c]) : Effect(c, outcome)
    /\ Proceed(c, "done", held)

RunInMemory(c) ==
    /\ backend = "memory"
    /\ pc[c] = "acquire"
    /\ \E outcome \in Memory!Method(T(c), call[c]) : Effect(c, outcome)
    /\ Proceed(c, "done", held)

End(c) ==
    /\ pc' = [pc EXCEPT ![c] = "idle"]
    /\ call' = [call EXCEPT ![c] = None]
    /\ reply' = [reply EXCEPT ![c] = NoReply]
    /\ held' = held \ {c}
    /\ UNCHANGED <<backend, workload, db>>

Return(c) == pc[c] = "done" /\ End(c)

\* The pool times out, the database refuses, the answer is lost, or the
\* handler is dropped with its client: in each case the connection goes back.
Fail(c) == pc[c] # "idle" /\ End(c)

Step(c) == Run(c) \/ Select(c) \/ RunInMemory(c) \/ Return(c)

Next == \E c \in Clients : Ask(c) \/ Acquire(c) \/ Step(c) \/ Fail(c)

\* The pool serves its waiters in turn, so one that waits while connections
\* come free again and again gets one; the other steps just go on.
Fairness ==
    \A c \in Clients : WF_vars(Step(c)) /\ SF_vars(Acquire(c))

Spec == Init /\ [][Next]_vars /\ Fairness

-----------------------------------------------------------------------------
(* The invariant behind the refinement, conjunct by conjunct.              *)

\* The id of a row is its key, though no statement looks at it.
UniqueIds ==
    \A t \in Tables : \A r, s \in db[t] : r.id = s.id => r = s

\* Calls that will insert a row, and have not yet.
Creating(c) == pc[c] \in {"acquire", "run"} /\ call[c].method \in Creates

\* An id that was fresh when it was drawn is still fresh when it is inserted.
FreshIds ==
    \A c \in Clients : Creating(c) =>
        /\ \A r \in T(c) : r.id # call[c].id
        /\ \A d \in Clients \ {c} : Creating(d) => call[d].id # call[c].id

\* Between its two statements a revoke has its answer already, and a row that
\* it found is not deleted before it reads it again.
PendingOK ==
    \A c \in Clients : pc[c] \in {"reacquire", "select"} =>
        /\ call[c].method \in Revokes
        /\ (\A r \in T(c) : ~Wanted(call[c], r)) =>
                reply[c] = Refused("not_found")

CallsOK == TypeOK /\ UniqueIds /\ FreshIds /\ PendingOK

\* The pool is never overdrawn, no statement runs without a connection, and
\* no client keeps one while it waits for another.
PoolOK ==
    /\ Cardinality(held) <= MaxConnections
    /\ \A c \in held : pc[c] \in {"run", "select", "done"}
    /\ \A c \in Clients : pc[c] \in {"run", "select"} => c \in held

IInv == CallsOK /\ PoolOK

\* While clients wait for a pool that is empty, one that holds a connection
\* waits for none: the pool is no deadlock (mssql.rs:415).
NoPoolDeadlock ==
    \A c \in Clients :
        pc[c] \in {"acquire", "reacquire"} /\ Cardinality(held) >= MaxConnections
            => \E d \in held : pc[d] \notin {"acquire", "reacquire"}

\* A call is done, to its caller, once its first statement has run.
Progress ==
    [c \in Clients |-> CASE pc[c] = "idle" -> "idle"
                         [] pc[c] \in {"acquire", "run"} -> "asked"
                         [] OTHER -> "done"]

Contract == INSTANCE StorageContract WITH pc <- Progress

\* Either backend is the atomic storage the handlers are written against:
\* every call takes effect at one moment, whatever runs beside it, and the
\* two statements of set_license_status and revoke_api_key (mssql.rs:406,
\* 517) cannot be told from one.
ImplementsContract == Contract!Spec

\* No call waits for ever, even when the pool has a single connection: none
\* keeps the connection another, or itself, is waiting for (mssql.rs:415).
EveryCallEnds ==
    \A c \in Clients : pc[c] # "idle" ~> pc[c] = "idle"
=============================================================================
