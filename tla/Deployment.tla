----------------------------- MODULE Deployment -----------------------------
(***************************************************************************)
(* Instances of the server in front of one database: how they start        *)
(* (main.rs: configuration, storage, migration, registries, then serving), *)
(* stop and start again with other settings, and what becomes of the       *)
(* licenses they issue (products.rs create, licenses.rs generate and       *)
(* validate, thaumiel-keygen).                                             *)
(*                                                                         *)
(* Abstracted: an instance that is configured for another database does    *)
(* nothing here but serve; a handler's storage calls are one step (module  *)
(* Licensing takes them apart); the secrets of an instance's generators    *)
(* are one value, since no license depends on two of them; sqlx's          *)
(* migrator, which holds a lock of the database, migrates in one step.     *)
(***************************************************************************)
EXTENDS Configuration, KeyGenerators, FiniteSets

CONSTANTS
    Instances,
    Stacks,         \* the layers an instance may be started with
    Shared,         \* the url of the database
    Statements,     \* how many guarded CREATEs its schema has (bounds it)
    Secrets,        \* of generators
    Configured,     \* those that operators set in the environment
    Asked,          \* generator ids that clients name
    Products,
    Licenses,       \* ids of licenses (bounds issuing)
    Expiries,       \* when licenses end; None is never
    MaxTime         \* bounds the clock

ASSUME DeploymentAssumption ==
    /\ Second \in Nat \ {0}
    /\ Statements \in Nat \ {0}
    /\ MaxTime \in Nat
    /\ Configured \subseteq Secrets
    /\ Expiries \subseteq Nat \cup {None}
    /\ None \notin Secrets \cup Nat
    /\ \A stack \in Stacks : Len(stack) \in Nat /\ DOMAIN stack = 1 .. Len(stack)

VARIABLES
    dbms,           \* the database system behind Shared
    schema,         \* how many statements of the migration have taken effect
    instances,      \* each instance, see Instance
    drawn,          \* secrets in use before or now, which are not drawn again
    stopped,        \* history: some instance has stopped, other than by a race
    products,       \* of each product: its default generator, or None
    licenses,       \* of each id: the row, or None
    now

vars == <<dbms, schema, instances, drawn, stopped, products, licenses, now>>

\* AppConfig::load, for the layers that load.
Configs == [stack \in {s \in Stacks : Loads(s)} |-> AppConfig(stack)]

AppConfigs == {AppConfig(stack) : stack \in Stacks}

Instance ==
    [phase : {"down", "migrating", "serving"},
     layers : Stacks \cup {None},   \* history: what it was started with
     config : AppConfigs \cup {None},
     at : 1 .. Statements + 1,      \* the statement its migration has come to
     missing : BOOLEAN,             \* it has seen that one's table missing
     secret : Secrets \cup {None}]

Down == [phase |-> "down", layers |-> None, config |-> None, at |-> 1,
         missing |-> FALSE, secret |-> None]

\* The plugins linked into the binary, by id.
Registered == Generators

License ==
    [product : Products, backend : Registered,
     key : [format : {"opaque"}] \cup [format : {"hmac"}, signer : Secrets]
           \cup [format : {"ed25519"}, signer : Secrets, product : Products,
                 expires : Nat \cup {None}],
     metadata : Secrets \cup {None}, expires : Expiries]

TypeOK ==
    /\ dbms \in {"mssql", "postgres"}
    /\ schema \in 0 .. Statements
    /\ instances \in [Instances -> Instance]
    /\ drawn \subseteq Secrets
    /\ stopped \in BOOLEAN
    /\ products \in [Products -> Registered \cup {None}]
    /\ licenses \in [Licenses -> License \cup {None}]
    /\ now \in 0 .. MaxTime

Init ==
    /\ dbms \in {"mssql", "postgres"}
    /\ schema = 0
    /\ instances = [i \in Instances |-> Down]
    /\ drawn = {}
    /\ stopped = FALSE
    /\ products = [p \in Products |-> None]
    /\ licenses = [l \in Licenses |-> None]
    /\ now = 0

Become(i, state) == instances' = [instances EXCEPT ![i] = state]

tables == <<products, licenses>>

-----------------------------------------------------------------------------
(* Starting                                                                *)

\* The configuration loads and the storage connects; else main returns.
Start(i) ==
    /\ instances[i].phase = "down"
    /\ \E stack \in DOMAIN Configs :
        /\ Configs[stack].url = Shared => Configs[stack].backend = dbms
        /\ Become(i, [Down EXCEPT !.phase = "migrating", !.layers = stack,
                                  !.config = Configs[stack]])
    /\ UNCHANGED <<dbms, schema, drawn, stopped, tables, now>>

Migrating(i) ==
    instances[i].phase = "migrating" /\ instances[i].at <= Statements

Batch(i) ==
    Migrating(i) /\ instances[i].config.url = Shared /\ dbms = "mssql"

\* IF OBJECT_ID(...) IS NULL
CheckTable(i) ==
    /\ Batch(i)
    /\ ~instances[i].missing
    /\ Become(i, IF instances[i].at <= schema
                 THEN [instances[i] EXCEPT !.at = @ + 1]
                 ELSE [instances[i] EXCEPT !.missing = TRUE])
    /\ UNCHANGED <<dbms, schema, drawn, stopped, tables, now>>

\* Mutant of CreateTable: what exists already is no reason to go on.
CreateTableAndStop(i) ==
    /\ Batch(i)
    /\ instances[i].missing
    /\ schema' = IF schema < instances[i].at THEN instances[i].at ELSE schema
    /\ Become(i, [instances[i] EXCEPT !.missing = FALSE, !.at = Statements + 1])
    /\ UNCHANGED <<dbms, drawn, stopped, tables, now>>

\* Mutant of CreateTable: the check left a lock that others wait for.
CreateTableLocked(i) ==
    /\ Batch(i)
    /\ instances[i].missing
    /\ \A j \in Instances \ {i} : ~(Batch(j) /\ instances[j].missing)
    /\ IF schema < instances[i].at
       THEN /\ schema' = instances[i].at
            /\ Become(i, [instances[i] EXCEPT !.missing = FALSE, !.at = @ + 1])
       ELSE Become(i, Down) /\ UNCHANGED schema
    /\ UNCHANGED <<dbms, drawn, stopped, tables, now>>

\* CREATE TABLE: an error if another instance created it in between, which
\* ends the batch and the start.
CreateTable(i) ==
    /\ Batch(i)
    /\ instances[i].missing
    /\ IF schema < instances[i].at
       THEN /\ schema' = instances[i].at
            /\ Become(i, [instances[i] EXCEPT !.missing = FALSE, !.at = @ + 1])
       ELSE Become(i, Down) /\ UNCHANGED schema
    /\ UNCHANGED <<dbms, drawn, stopped, tables, now>>

MigrateLocked(i) ==
    /\ Migrating(i) /\ ~Batch(i)
    /\ schema' = IF instances[i].config.url = Shared THEN Statements ELSE schema
    /\ Become(i, [instances[i] EXCEPT !.at = Statements + 1])
    /\ UNCHANGED <<dbms, drawn, stopped, tables, now>>

\* A generator's secret: the environment's, or a random one, never seen before.
NewSecrets == Configured \cup (Secrets \ drawn)

\* The registries construct the generators, and the router is served.
Listen(i) ==
    /\ instances[i].phase = "migrating" /\ instances[i].at = Statements + 1
    /\ \E secret \in NewSecrets :
        /\ Become(i, [instances[i] EXCEPT !.phase = "serving", !.secret = secret])
        /\ drawn' = drawn \cup {secret}
    /\ UNCHANGED <<dbms, schema, stopped, tables, now>>

\* An instance stops or crashes; or its start fails on the database, the
\* cache or the port.
Stop(i) ==
    /\ instances[i].phase # "down"
    /\ Become(i, Down)
    /\ stopped' = TRUE
    /\ UNCHANGED <<dbms, schema, drawn, tables, now>>

-----------------------------------------------------------------------------
(* Serving                                                                 *)

Serves(i) ==
    instances[i].phase = "serving" /\ instances[i].config.url = Shared

\* Mutant of CreateProduct: a default that nobody named is not checked.
CreateUnchecked(i, p, asked) ==
    /\ Serves(i)
    /\ products[p] = None
    /\ asked \in Registered \cup {None}
    /\ products' = [products EXCEPT ![p] =
           IF asked = None
           THEN instances[i].config.default_backend
           ELSE asked]
    /\ UNCHANGED <<dbms, schema, instances, drawn, stopped, licenses, now>>

CreateProduct(i, p, asked) ==
    LET backend == IF asked = None
                   THEN instances[i].config.default_backend
                   ELSE asked
    IN  /\ Serves(i)
        /\ products[p] = None
        /\ backend \in Registered
        /\ products' = [products EXCEPT ![p] = backend]
        /\ UNCHANGED <<dbms, schema, instances, drawn, stopped, licenses, now>>

\* What the client sends as metadata may be that of a license it replaces.
SentMetadata ==
    {None} \cup {licenses[l].metadata : l \in {k \in Licenses : licenses[k] # None}}

GenerateLicense(i, l, p, asked) ==
    LET backend == IF asked = None THEN products[p] ELSE asked
        secret == instances[i].secret
    IN  /\ Serves(i)
        /\ licenses[l] = None
        /\ products[p] # None
        /\ backend \in Registered
        /\ \E expires \in Expiries, sent \in SentMetadata :
            licenses' = [licenses EXCEPT ![l] =
                [product |-> p, backend |-> backend,
                 key |-> GeneratedKey(backend, secret, p, expires),
                 metadata |-> MergedMetadata(sent, backend, secret),
                 expires |-> expires]]
        /\ UNCHANGED <<dbms, schema, instances, drawn, stopped, products, now>>

Tick ==
    /\ now < MaxTime
    /\ now' = now + 1
    /\ UNCHANGED <<dbms, schema, instances, drawn, stopped, tables>>

Advance(i) == CheckTable(i) \/ CreateTable(i) \/ MigrateLocked(i) \/ Listen(i)

Next ==
    \/ \E i \in Instances : Start(i) \/ Advance(i) \/ Stop(i)
    \/ \E i \in Instances, p \in Products, asked \in Asked \cup {None} :
        \/ CreateProduct(i, p, asked)
        \/ \E l \in Licenses : GenerateLicense(i, l, p, asked)
    \/ Tick

\* A starting instance runs on: main awaits nothing but its own calls.
Spec == Init /\ [][Next]_vars /\ \A i \in Instances : WF_vars(Advance(i))

-----------------------------------------------------------------------------

\* Whoever serves, serves a complete schema, whatever ran at the same time
\* (main.rs:24, mssql.rs:252).
ServesMigrated ==
    \A i \in Instances : Serves(i) => schema = Statements

\* An instance serves from the database its operator named last, if any layer
\* names one, and never falls back to another one because the rest of the
\* section was left out (thaumiel-config/src/lib.rs:201).
ServesAsConfigured ==
    \A i \in Instances :
        LET layers == instances[i].layers
            Names(n) == <<"database", "url">> \in DOMAIN layers[n]
        IN  instances[i].phase = "serving" =>
            /\ \A n \in DOMAIN layers :
                Names(n) /\ (\A m \in DOMAIN layers : m > n => ~Names(m))
                    => instances[i].config.url = layers[n][<<"database", "url">>]
            /\ Serves(i) => instances[i].config.backend = dbms

\* The last second of a license is cut short where its expiry was signed.
TimeLeft(l) ==
    licenses[l].expires = None \/ now <= WholeSeconds(licenses[l].expires)

\* What instance i answers for license l, as far as its generator decides it.
Accepts(i, l) ==
    Validates(licenses[l].backend, instances[i].secret, licenses[l].key,
              licenses[l].metadata, licenses[l].product, now)

\* Restarts, other instances and new secrets do not invalidate a license:
\* every instance accepts it, whoever issued it, unless it is an hmac one and
\* the instance holds another secret (docs/DEPLOYMENT.md:44), or an ed25519
\* one past its signed expiry, up to a second before the stored one.
SurvivesRotation ==
    \A i \in Instances, l \in Licenses :
        Serves(i) /\ licenses[l] # None =>
            (Accepts(i, l) <=>
                /\ licenses[l].backend = "hmac" =>
                      licenses[l].key.signer = instances[i].secret
                /\ licenses[l].backend = "ed25519" => TimeLeft(l))

\* An application that checks an ed25519 key by itself never accepts one that
\* the server holds for expired, except in the very instant of expiry
\* (ed25519_signed.rs:98, 147).
OfflineAgrees ==
    \A l \in Licenses :
        /\ licenses[l] # None
        /\ licenses[l].backend = "ed25519"
        /\ Validates("ed25519", licenses[l].key.signer, licenses[l].key, None,
                     licenses[l].product, now)
        => licenses[l].expires = None \/ now <= licenses[l].expires

\* A start that has come to some statement has the tables before it.
MigrationOK ==
    \A i \in Instances :
        LET state == instances[i] IN
        state.phase # "down" =>
            /\ state.config \in AppConfigs
            /\ state.config.url = Shared => state.at - 1 <= schema
            /\ state.phase = "serving" =>
                  state.at = Statements + 1 /\ state.secret \in Secrets

\* An instance runs on what its layers say, on the system its database is.
ConfiguredOK ==
    \A i \in Instances :
        LET state == instances[i] IN
        state.phase # "down" =>
            /\ state.layers \in DOMAIN Configs
            /\ state.config = Configs[state.layers]
            /\ state.config.url = Shared => state.config.backend = dbms

\* Of the starts that race, one leads: it has come as far as the schema, so
\* nobody creates the next table before it.
RaceOK ==
    schema > 0 /\ ~stopped =>
        \E i \in Instances :
            /\ instances[i].phase # "down" /\ instances[i].config.url = Shared
            /\ instances[i].at = schema + 1

\* A license is as some secret's generator made it, and an ed25519 one carries
\* the public key of this secret.
IssuedOK ==
    \A l \in Licenses : licenses[l] # None =>
        LET row == licenses[l] IN \E secret \in Secrets :
            /\ row.key = GeneratedKey(row.backend, secret, row.product, row.expires)
            /\ row.backend = "ed25519" => row.metadata = secret

\* The invariant behind the safety properties above.
IInv == TypeOK /\ MigrationOK /\ ConfiguredOK /\ RaceOK /\ IssuedOK

\* A start that fails because of others fails because of one that is ahead of
\* it on the same database, and goes on.
LosesToLeader ==
    [][\A i \in Instances :
        instances[i].phase = "migrating" /\ instances'[i].phase = "down" /\ ~stopped' =>
            \E j \in Instances :
                /\ instances'[j].phase # "down" /\ instances'[j].config.url = Shared
                /\ instances'[j].at > instances[i].at]_vars

\* Instances that start together cannot all fail because of each other: unless
\* something else stops an instance, one of them gets to serve (mssql.rs:247).
StartRaceWon ==
    (\E i \in Instances : instances[i].phase = "migrating")
        ~> stopped \/ \E i \in Instances : instances[i].phase = "serving"
=============================================================================
