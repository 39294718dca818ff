# A TLA+ model of Thaumiel

Thaumiel is a licensing server: organizations register products, issue license
keys for them, and the applications they ship ask the server whether a key is
valid on this machine. This directory holds TLA+ specifications of its core,
translated from the Rust sources, with TLC runs on small instances and TLAPS
proofs for all instances. `PROJECT.json` lists, for every definition, the lines
it stands for; paths below are relative to `src/crates/`.

## 1. The system

| Part | State it keeps | Operations | Talks to |
| --- | --- | --- | --- |
| License routes (`thaumiel-server/src/routes/licenses.rs`) | none of their own; the locals of a handler between two awaits | generate, validate, revoke, revoke_activation; list, get, activations | storage, cache (rate limit, usage), key generators, audit |
| API key routes (`routes/api_keys.rs`) | none | create, list, revoke | storage, audit |
| Extractors (`extractors.rs`) | the record they read | AdminAuth, ApiKeyAuth, LicenseManagerAuth | storage, session tokens |
| Rate limiter (`rate_limit.rs`) | none | check | cache |
| Caches (`thaumiel-cache`) | memory: a map behind a mutex; Redis: a shared server | get, set, del, incr | – |
| Storage (`thaumiel-storage`) | organizations, users, products, license_keys, activations, api_keys, audit_log; PostgreSQL, MySQL, SQLite, MSSQL or maps in memory; a connection pool | create, get, list, set status, revoke, touch, delete: one statement each, two for the revocations, no transactions; migrate | – |
| Registration, login, users (`routes/auth.rs`, `users.rs`, `thaumiel-auth/src/internal.rs`, `password.rs`, `jwt.rs`) | users, organizations; session tokens live with the client | register, login, create user | storage |
| External identity (`thaumiel-auth/src/ldap.rs`, `oidc.rs`, `saml.rs`) | the OIDC client cache, users created on first login | authenticate, login URL | storage, the provider |
| Key generators (`thaumiel-keygen`) | a signing key or secret each, from the environment or random | generate, validate | – |
| Registries (`thaumiel-core/src/registry.rs`) | plugins by id | from_inventory, get | – |
| Usage (`usage.rs`, `routes/usage.rs`) | one cache counter per organization and day | record_validation, validate_history | cache |
| Products, organizations, audit log, readiness (`routes/*.rs`, `pagination.rs`) | – | plain inserts, reads and pages of lists | storage, registries |
| Start of an instance (`thaumiel-server/src/main.rs`) | the configuration | load, connect, migrate, link plugins, serve | everything |
| Configuration (`thaumiel-config`) | – | load: defaults, file, environment | – |
| Dashboard (`thaumiel-ui`) | session in the browser | bootstrap, pages | the HTTP API |

A request is one task of the async runtime. It runs alone from one `await` to
the next, and any number of other requests run in between; the storage is the
only state they share, besides the cache. No handler opens a transaction, so
everything a handler decides is decided on rows that may have changed since.
A `TimeoutLayer` (`routes/mod.rs:89`) drops a handler after 30 s at whatever
`await` it has reached, and every storage or cache call may fail.

What is hard, and what must hold:

* **validate** reads the license, later counts the activations, later lists
  them, later inserts one. A dead license must be refused however late its
  checks run; an accepted machine must hold a seat; the seats may be overrun by
  racing requests, and by how much is the question.
* **revoke / revoke_activation** compare the organization, then change the row
  in another call. Only the owner may change a license or its activations.
* **Audit entries** are separate, best-effort writes. They may be missing, but
  must never say what did not happen.
* **API keys** are authenticated from a record that is used after another
  write. Revocation must hold at once, and writes in flight must not undo it.
* **The limiters** count calls under a clock read too early (memory) or in two
  commands of which one may get lost (Redis). A window must let through no more
  than promised, and end.
* **Registration and first logins** write several rows one by one: an address
  must stay one user, whoever else inserts it meanwhile, and an organization
  must not come into hands its registration did not put it in.
* **Session tokens** are believed without a look at the users table, so they
  must be true of it for as long as they live.
* **Storage** offers each call as one step. The revocations are two statements,
  every statement needs a connection of a small pool, and an answer may get lost.
* **Lists** are paged by offset while rows are inserted, and not in the order in
  which they are stamped. **Usage history** is read across midnight.
* **Instances** start together on an empty database, with settings put together
  from several files, and with generators whose secrets may be new each time.
  Whatever serves must serve a whole schema of the database it was told to, and
  the licenses issued before must keep their worth.

## 2. Modules

| Module | Models | Abstract / detailed |
| --- | --- | --- |
| `Licensing` | the license routes over the storage | detailed |
| `SeatLedger` | what the two tables may do, without requests | abstract, implemented by `Licensing` |
| `LicensingProofs` | theorems about `Licensing` | |
| `ApiKeys` | key routes, ApiKeyAuth and LicenseManagerAuth over the `api_keys` table | |
| `ApiKeysProofs` | theorems about `ApiKeys` | |
| `Accounts` | registration, user creation, logins and session tokens over the `users` and `organizations` tables | |
| `AccountsProofs` | theorems about `Accounts` | |
| `KeyPrefix` | the texts and prefixes of API keys, used by `ApiKeys` | pure |
| `RateLimiter` | `rate_limit::check`, shared by the next two | |
| `MemoryLimiter` | the limiter over `InMemoryCache::incr` | |
| `RedisLimiter` | the limiter over `RedisCache::incr` | |
| `RedisLimiterProofs` | theorems about `RedisLimiter` | |
| `StorageRows` | tables, requests and answers of the `Storage` trait | pure |
| `StorageContract` | what the trait promises its callers | abstract, implemented by `Storage` |
| `SqlStorage`, `MemoryStorage` | the statements, and the in-memory methods, one operator each | pure |
| `Storage` | concurrent calls on either backend, with the connection pool | detailed |
| `StorageProofs` | theorems about `Storage` | |
| `Listing` | paging through a list that grows | |
| `Usage` | validation counters and the usage summary; extends `Listing` | |
| `UsageProofs` | theorems about `Usage` and `Listing` | |
| `Configuration` | layers, sections and defaults | pure |
| `KeyGenerators` | what the three generators write and check | pure |
| `Deployment` | starts, migrations, stops, products and licenses of several instances; composes the two above | |
| `DeploymentProofs` | theorems about `Deployment` | |
| `MC...` | instances for TLC, and the documented statements that the violation runs refute | |

**Licensing.** `licenses`, `activations` and `audit_log` are the tables. `pc`
says which storage call a request makes next and `call` what it was asked;
`seen` and `seats_used` are the locals `license` and `seats_used` of `validate`,
kept while other requests run. Each action is the stretch from one await to the
next: `RateLimit`, `Lookup` (get_license_by_key), `Check` (organization,
product, `is_usable(now)` and the key generator), `CountActivations`,
`ListActivations`, `CreateActivation`; `GetProduct`, `InsertLicense`;
`GetLicense`, then `SetLicenseStatus` or `DeleteActivation`; `Audit`.
`CreateActivation` may commit and still answer with an error (a lost
acknowledgement); for the other writes that case is the write followed by
`Fail`, which drops a handler at any await. The rate limiter may let through or
refuse and the key generator may accept, refuse or fail, so what is shown holds
for any limiter and generator. `call.dead` is history: whether the license was
already unusable when the request arrived. The program never writes the statuses
`Suspended` and `Expired`, so a row is `Active` or `Revoked`.

**SeatLedger.** A license is issued once and only ever revoked; a seat is taken
while fewer than `seats + Overrun` are, by an activation with a new id, and
freed one at a time. `Overrun = 0` would be the documented seat limit.
`Licensing` implements it with `Overrun` = requests in flight minus one.

**ApiKeys.** The same style over `keys`. `FindByPrefix` covers the lookup, the
revocation check and the verification of the hash, which have no await between
them; `TouchLastUsed` writes only the time of use, ignores a failure, and then
the extractor decides on the record in `seen`. `Page` is what
`list_api_keys(org, 1000, 0)` returns, with 1000 as the constant `PageLimit`.

**Accounts.** The same style over `orgs` and `users`; `sessions` holds the
identities for which tokens were issued, `who` the identity a request has
established. `BeginRegister`, `InsertOrg`, `InsertUser`, `Audit` are `register`;
`BeginCreate`, `InsertUser`, `Audit` the creation of a user by whoever a session
token says; `BeginLogin`, `FindUser`, `Audit` a login by password, and with
`InsertUser` a first login through LDAP, OIDC or SAML, which differ only in what
they ask the provider before. `FindUser` takes any failure of the look-up for a
missing user, as the providers do. `InsertUser` is the unique (organization,
address) of all backends. Session tokens are used at any time and never expire
in the model: expiry only takes them away. A login may name an organization
that does not exist, which only the in-memory storage lets it enter.

**RateLimiter, MemoryLimiter, RedisLimiter.** Time is counted in ticks.
`passed[k][a]` is history: how many calls of `k` were let through `a` ticks ago.
In `MemoryLimiter` a caller reads the clock (`ReadClock`), waits for the mutex
while ticks pass (`lag`), and then runs `incr` in one step (`Incr`); `Restart`
loses everything. In `RedisLimiter`, `Incr` and `Expire` are the two commands;
each may be carried out or not with its caller seeing an error or gone, which
is also the timeout. An `Orphan` is a counter that will never expire.

**Storage.** `backend` is what `build_storage` chose; `db` the tables; `held` the
clients that have a pooled connection. A call is `Ask`, `Acquire` (the pool),
`Run` (its statement), and for the revocations `Select`; `set_license_status`
gives its connection back before `get_license` takes one, `revoke_api_key` goes
on with the one it has, as in `mssql.rs`. `RunInMemory` is a whole in-memory
method. `Fail` breaks a call off anywhere: before its statement nothing
happened, after it the effect stays. In `StorageContract` a call takes effect in
one step between `Ask` and `End`. It leaves open what the backends do
differently: a key whose prefix exists may be refused or not, and of rows that
match, any may be found. `SqlStorage` follows `mssql.rs`, the longest of the
four; the other three write the same statements in other dialects.

**Listing, Usage.** A handler stamps a row (`Stamp`) some time before it inserts
it (`Insert`). `Page` is any page the query may return: it sorts by `created_at`
alone, so rows of one stamp come in any order (`Numberings`). A client goes on
by its own limit until a page is shorter. The clock counts days; `counters` are
the cache entries, which expire; `recorded`, `actual` and `midnights` are
history. `BeginRecord`, `Record`, `DropRecord` are `record_validation`;
`BeginSummary`, `CountRows` and one `ReadDay` per day are `summary`.

**Deployment.** `instances[i]` is what an instance knows: its layers, its
settings, how far its migration is, and the secret of its generators. `Start`,
`CheckTable` and `CreateTable` (two steps of the guarded statements of the mssql
script) or `MigrateLocked`, `Listen`, `Stop`; then `CreateProduct` and
`GenerateLicense`, whose metadata may be that of a license it replaces. A
license carries its key with what the generator put into it. Signatures and
checksums are perfect, and the three generators of an instance share a secret
in the model, because no license depends on two of them.

## 3. Runs

All runs finish within about two minutes. Symmetry is used only where no liveness
is checked. An `IInv`, where a run names one, includes the types (`TypeOK`).

| Run | Bounds | Shows |
| --- | --- | --- |
| `seats` | 2 requests, 1 license, seats 0, 1 or 2, 2 machines, 3 activation ids, expiry 0, 1 or never, clock to 1 | `IInv`; `SeatOverrunBounded`: activations never exceed seats + 1; `MachineOverrunBounded`: a machine holds at most 2; `DeadLicenseRefused`; `ImplementsLedger` |
| `tenants` | 2 requests, 2 organizations, 2 licenses, 1 machine, 1 activation id | `OwnerChangesOnly`, `AuditTruthful`, `ValidMachineSeated` |
| `seat_limit` | as `seats`, seats 0 or 1 | refutes `SeatLimit` (finding 1) |
| `memory_limiter` | 3 callers, limit 2, window 4, lag up to 2 | `IInv`; `BurstBounded`: at most two limits in a window less the wait for the mutex; `WindowEnds` |
| `redis_limiter` | 3 callers, limit 2, window 3 | `IInv`; `BurstBounded`: at most two limits in a window's time; `NeverProlonged`; `WindowEndsUnlessLost` and `LostByFailure`: a full window ends unless a failure lost its EXPIRE |
| `redis_lockout` | 1 caller, limit 1, window 2 | refutes `WindowEnds` (finding 2) |
| `api_keys` | 2 requests, 2 organizations, 2 keys, page 1, 2 of the 3 scopes | `RevokedKeyRefused`, `OwnerRevokesOnly`, `AuditTruthful`, `IInv`; `IrrevocableForever`: a key off the page stays off it |
| `key_prefix` | tag of two words, secret of 3 letters, 2 of them in the prefix | refutes `PrefixRoundTrip` (finding 3) |
| `accounts` | 2 requests, 2 organizations, 2 users, 2 addresses | `UniqueUsers`, `SessionsTruthful`, `AuditTruthful`, `PrivilegeGranted`, `HeadlessForever`, `IInv` |
| `storage` | 2 clients, 1 connection, 2 ids, 2 owners, 1 prefix, 1 address; five groups of methods that share rows | `ImplementsContract`: every call is one atomic step, on either backend; `EveryCallEnds`: none waits for ever, although there is one connection; `IInv` |
| `usage` | 3 rows, 3 stamps or days, limits 1 to 3 of at most 2, history of 2 days, 1 validation at a time, 2 a day | `WalkComplete`: paging misses no row but one of equal stamp, or behind the first page if the limit was cut; `HistoryOrdered`, `HistoryExact`: the summary's days; `IInv` |
| `deployment` | 2 instances, 4 stacks of layers, 2 guarded statements, 2 secrets, one of them configured, 2 licenses, expiry at two thirds of a second or never | `ServesMigrated`, `ServesAsConfigured`, `SurvivesRotation`, `OfflineAgrees`, `IInv`; `StartRaceWon`: of instances that start together one gets to serve |

Why these bounds are enough: every race in the code is between a request and
one other that changes what it read, so two requests meet every conflict. Two
keys and a page of one let a newer key push the older one off the page, and
revocations and creations of either go on after it. In `accounts`
two users fill one organization or two, under one address or two. Seats 0, 1 and
2 are the boundary of the comparison and let one machine hold two; three ids
allow an overrun and a replacement after a deletion. `MaxTime` 1 lets a license
expire before, during and after a call. The limiter's windows are longer than
the longest lag, so that stale and fresh callers meet in one window and in two.
One prefix and one address make every second key or user clash; one connection
is the smallest pool. Three rows with limits up to 3, the server's being 2, give
walks of one, two and three pages, cut or not, around an insertion; two
validations a day increment a counter that exists. In `deployment` the clock
has a time between the expiry in the key and the one in the row, and times after
both; two licenses let one be given the metadata of the other; one secret can be shared and the other cannot, and the stacks name a database
in full, by half, and another one.
The theorems below then hold for every value of the constants.

**Fairness.** The license, key, account and usage specifications state none: their
properties are safety properties. The limiters assume that the clock advances
(`WF(Tick)`) and that a caller that has started gets its turn: a thread waiting
for the mutex gets it (`Incr` in memory; its critical sections are short and
never block), and a command sent to Redis is answered or fails (`Step`; the 30 s
timeout ends a wait that would not). Nothing obliges callers to come, and
nothing keeps them from coming: a full window ends under any traffic.
`Storage` assumes that a call goes on when it can (`WF(Step)`) and that the pool
serves its waiters in turn (`SF(Acquire)`: connections come free again and again
and one waiter may not be passed over for ever); it does not assume that `Fail`,
the timeout, ever happens, so that nothing is saved by it. `Deployment` assumes
that a starting instance runs on (`WF(Advance)`), and nothing about stops.

**Deadlock** is checked in every run; no state of these models is without a step.

## 4. Findings

1. *Seat limit.* Two machines that validate at once both count the last free
   seat and both take it (`licenses.rs:181-202`). `docs/ARCHITECTURE.md:73`
   promises the check. The overrun is bounded by the requests in flight (proved).
2. *Locked out.* If Redis carries out INCR but EXPIRE fails or is never sent,
   the counter never expires and its key stays limited
   (`thaumiel-cache/src/redis.rs:59-74`); the trait documents a fixed window.
3. *Key never found.* The environment tag of an API key is taken from the request
   as it is. With an underscore in it, `prefix_of` cuts a presented key in the
   wrong place (`thaumiel-auth/src/api_key.rs:61`), and the key can never be
   used; the test at line 79 asserts that the prefixes agree.

Other behaviour the models show, which differs from a document or may surprise:

* One machine that validates twice at once is activated twice
  (`licenses.rs:183-202`; no unique index), where `docs/API.md:168` calls the
  second a no-op; never more often than requests run at once
  (`MachineOverrunBounded`, proved).
* Revoking an activation of another license deletes nothing, and is answered 204
  and audited (`licenses.rs:141`), not 404 (`docs/API.md:155`).
* A key older than the newest 1000 of its organization is answered 404 by revoke
  (`routes/api_keys.rs:54-57`) and stays usable for ever: keys are not deleted,
  and revoked ones keep their place (`IrrevocableForever`, proved).
* The `seats_used` of an answer may be out of date: it is counted before the
  list of activations is read (`licenses.rs:181-184`), so a machine that was
  activated in between is told `valid` with a number that leaves it out. No
  property speaks of this number, only of what is decided on it.
* The providers take any failed look-up for a missing user and insert one
  (`thaumiel-auth/src/ldap.rs:112-123`, and in `oidc.rs`, `saml.rs`), so an
  existing user is then answered 409 (`docs/CONFIGURATION.md:65`).
* A midnight during a summary leaves a day out of its history (`usage.rs:57`).
* A client that asks for more than 200 rows gets 200 (`pagination.rs:24`), fewer
  than it asked for, and takes them for the whole list; `WalkComplete` says that
  it misses only rows behind those.
* A section of the configuration that is begun must be complete, although
  "Everything has a default" (`docs/CONFIGURATION.md:3`): an instance that is
  given only `THAUMIEL_DATABASE__URL` and no file does not start.
* An ed25519 license is refused in the last fraction of a second before its
  expiry, which is signed in whole seconds (`ed25519_signed.rs:98`).
* ed25519 licenses survive a new secret, contrary to the warning the generator
  logs (`ed25519_signed.rs:59-61`); hmac ones do not (`docs/DEPLOYMENT.md:44`).
* Of two instances that start together on an empty SQL Server database one may
  fail, and has to be started again (`mssql.rs:252`).

Documented and not findings: a revocation repeated writes two entries
(`docs/API.md:147`), audit entries may be missing (`API.md:224`), and the memory
cache does not coordinate instances (`DEPLOYMENT.md:28`). A fixed window lets
two limits through around its border; that is its nature, and what
`BurstBounded` states. Registration, documented as one step (`API.md:37`),
inserts the organization and then its owner (`routes/auth.rs:26`, `36`): a
failure between them leaves an organization that nobody ever manages
(`HeadlessForever`, proved), and of which no client was told the id.

## 5. Proofs

TLAPS checks every leaf. Assumptions are those named in the modules
(`ConstantsAssumption`, `NoneAssumption`, `KeysAssumption`,
`AbsentAssumption`, `LimiterAssumption`, `DeploymentAssumption`,
`PoolAssumption`, `ListingAssumption`, `UsageAssumption`); TLC evaluates them in the runs.

**Licensing** (`LicensingProofs`). No property of interest is inductive alone.
`IInv` adds to the types what each step knows:

* `ArgumentsOK`: past its lookup a revoking request's license exists and is its
  organization's, because rows are never removed and never change owner.
* `SnapshotOK`: the row in `seen` differs from the stored one in its status at
  most, because seats and owner are written once.
* `DeadOK`: a license dead on arrival is dead still, and a row read since says
  so. It needs that death is final: status only goes to `Revoked`, and the
  clock never goes back (`DeadForever`).
* `SeatsOK`: activations plus `Racers` – requests holding a count that leaves
  a seat free – stay within seats + requests − 1. A request becomes a racer only
  by counting fewer activations than seats, and then at most the others race
  too; taking the seat turns one racer into one activation.
* `MachinesOK`: activations of one machine plus the requests about to record it
  stay within the number of requests. A request joins them only by finding the
  machine unknown, when no activation of it exists and at most all requests are
  about to record it.
* `ActivationsOK`: finitely many, one id each.

From it follow `TypeCorrect`, `SeatOverrun`, `MachineOverrun`, `DeadRefused`, `ValidSeated`,
`AuditTruth` (where an activation is reported as removed, its id was in the
request until then and is in the log from then on, so no new one gets it),
`OwnersOnly`, and `Refinement`: each step of the routes is a step
of the ledger or leaves the tables alone (`LedgerStep`, one case per action
that writes a table).

**ApiKeys** (`ApiKeysProofs`). `IInv` says that a key dead on arrival is
revoked now, and that past the lookup the key was alive, the secret genuine and
the scope read the scope stored. `RevokedRefused`, `Entitlement` (who is let in
holds the secret, and a scope that allows what it does),
`OwnersRevoke` and `AuditTruth` follow. For `IrrevocableKeys`: no row goes, is
moved to another organization or changes its age, so the newer keys of a key
only become more (`PagesMove`), and a request revokes only what it found on a
page (`RevokedBy`). `FoundByPrefix` is about the texts, for
every tag, secret and prefix length. Without an underscore in the tag the third
part begins after `thm_tag_` and nowhere else (`ThirdPartBegins`). With one, the
first of them (`FirstSeparator`; a least index) ends the second part, and the
prefix that is cut off is shorter than the one stored.

**Accounts** (`AccountsProofs`). Users are only ever inserted (`UsersKept`), by
a call whose (organization, address) matches no row; so an address stays one
user and what was true of a user stays true. `IInv` adds what a request knows:
a registering call carries the role owner and a login the role member, a
creating call names a user who may add users and is of the organization, and
the identity in `who` is that of a row. From it follow `Uniqueness`,
`TruthfulSessions`, `AuditTruth`, `Privilege` and `Headlessness`. All rest on
users never changing: a route that changed a role would have to void its tokens.

**MemoryLimiter** (`MemoryLimiterProofs`). `BurstOK` relates what was let through
to the entry that stands. The entry accounts for all of it but one limit, that of
the entry before; for all of it since the last moment at which a caller could
still find that one, the longest wait after its expiry; and a caller is never
staler than `MaxLag`, so nothing was let through since the entry expired for
all. A new entry finds the last of these true of the old one, which is how the
limit in front of it comes about. `BurstLimited` follows; `CountsKept` adds that
whatever clocks the callers read, the count of a running window is neither lost
nor lowered and its end not put off, short of a restart.

**RedisLimiter** (`RedisLimiterProofs`). The types, and that a caller at the
limiter is counted under a key, make `OneExpirer` inductive: a caller becomes an
expirer only when the counter was 0, a counter with an expirer is positive and
has no expiry, and a counter without expiry is not removed by time. `BurstOK` is
as above, with the time since the EXPIRE for the age of the window. From these,
`SingleExpirer`, `BurstLimited` and `WindowsRunOut`. `LossNeedsFailure` goes
through the steps: only one that ends in an error can leave a counter that
nobody will expire. `LockedOutForever` says what then follows: a counter found
by INCR has its expirer behind it, so such a key is limited in every later state.

**Deployment** (`DeploymentProofs`). `IInv` adds to the types `MigrationOK` – an
instance that has come to a statement has left the earlier ones in place,
because the schema only grows (`SchemaGrows`) – and `IssuedOK`: the key in a row
was made by its generator under some secret from the row's own product and
expiry, and an ed25519 row carries that secret's public key. `Migrated` is the
first at its last statement; `RotationSurvived` and `OfflineAgreement` compare
what `IssuedOK` says was written with what `Validates` asks, over
`WholeSecondsBounds`. `ConfiguredOK` adds that an instance holds the settings of
the layers it was started with, and `ServedAsConfigured` needs of these that in
a merge of layers the last one wins (`LastLayerWins`). That is an induction over
the layers, which the prover does not do for an operator, but does for a set
of numbers that holds 0 and with each its successor (`SetInduction`). `RaceOK`
says that of the starts that race one has come as far as the schema, unless an
instance was stopped. Nobody creates the next table before it, so whoever fails,
fails behind it (`LostToLeader`). All hold for any stacks of layers, and any
number of instances, statements and secrets.

**Storage** (`StorageProofs`). Two facts carry the refinement. The ids of the
rows are unique, and a call that is creating a row brings an id that is neither
stored nor in another call (`UniqueIds`, `FreshIds`), so that a search by id has
one answer and a create never meets its own row. And between the two statements
of a revocation the answer of the first one stands: a row that it found is still
there, because rows of the tables it works on are never deleted, and one that it
did not find keeps being answered as missing (`PendingOK`). A call takes effect,
for its caller, with its first statement; waiting for the pool, reading the row
again and giving the connection back leave the contract's state alone. `PoolOK`
says that a statement runs on a connection held, of which there are at most as
many as the pool has; none is held while waiting for one, so an empty pool
always has a client that needs nothing more from it (`PoolNeverStuck`).

**Usage** (`UsageProofs`). A row that shares its stamp with no other has a rank,
the number of rows listed before it, and every order the query may return puts
it there (`RankIsNumber`); insertions only raise ranks. `WalkOK` says that a row
still to be shown has a rank of at least the offset: a page that leaves it out
is full, so the offset grows by no more than the rows it passed (`SegmentSize`).
A walk whose limit is cut is still at offset 0 when its only page comes.
`CountersOK` says that a counter is exact until its day is as old as the time to
live, and `ReadOK` where the next day of a summary lies. With the assumption
`CounterTTL >= HistoryDays`, which the constants of `usage.rs` satisfy, the
days of a history are never that old.

Only model-checked: `WindowEnds`, `WindowEndsUnlessLost`, `EveryCallEnds` and
`StartRaceWon`, because liveness is beyond the prover. The safety they rest on is
proved: `CountsKept`, `LossNeedsFailure`, `PoolNeverStuck` and `LostToLeader`.
`ApiKeys` assumes finitely many key ids, `Licensing` finitely many requests,
`Storage` finitely many clients, `Listing` finitely many rows.

## 6. Not modelled

* JSON forms, wording, metrics, tracing, static files and the wire protocols of
  databases, Redis and identity providers.
* The dashboard (`thaumiel-ui`): a client of the API, whose state is what its
  views show; a reload restores it from the server.
* Row conversions beyond the columns something depends on, and how timestamps
  are written as text.
* `get`, `set` and `del` of the caches as operations of their own: `Usage` reads
  a counter in one step, and nothing calls the other two.
* The provider metadata that OIDC and SAML fetch once and keep (`oidc.rs:73`,
  `saml.rs:100`): verification is the library's, and a login in `Accounts` is
  verified or not. A provider that changes its keys is not recognised before
  the server restarts.
* Configuration values of the wrong type, which make a start fail as a missing
  one does.
