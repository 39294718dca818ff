-------------------------- MODULE DeploymentProofs --------------------------
(***************************************************************************)
(* Theorems about Deployment: for any number of instances, statements,     *)
(* products and licenses, any configurations, secrets and expiries,        *)
(* whoever serves finds a migrated schema, and licenses stay valid over    *)
(* restarts and new secrets as long as their time allows.                  *)
(*                                                                         *)
(* That an instance serves as it was configured rests on what merging any  *)
(* number of layers yields, which is proved by induction on them.  That a  *)
(* race of starts is won is liveness, and left to TLC.                     *)
(***************************************************************************)
EXTENDS Deployment, WellFoundedInduction, TLAPS

\* Truncating to whole seconds loses less than one.
LEMMA WholeSecondsBounds ==
  ASSUME NEW t \in Nat
  PROVE  /\ WholeSeconds(t) \in Nat
         /\ WholeSeconds(t) <= t
         /\ t < WholeSeconds(t) + Second
  <1> DEFINE q == t \div Second
             r == t % Second
  <1>1. Second \in Nat \ {0}
    BY DeploymentAssumption
  <1>2. q \in Nat /\ r \in 0 .. Second - 1 /\ t = Second * q + r
    BY <1>1
  <1>3. WholeSeconds(t) = Second * q
    BY <1>1, <1>2 DEF WholeSeconds
  <1>4. Second * q \in Nat
    BY <1>1, <1>2
  <1> HIDE DEF q, r
  <1> QED
    BY <1>1, <1>2, <1>3, <1>4

\* A generated key is one of the forms that a license may carry.
LEMMA GeneratedForm ==
  ASSUME NEW g \in Generators, NEW s \in Secrets, NEW p \in Products,
         NEW e \in Expiries, NEW d \in Secrets \cup {None}
  PROVE  [product |-> p, backend |-> g, key |-> GeneratedKey(g, s, p, e),
          metadata |-> d, expires |-> e] \in License
  <1>1. e \in Nat \cup {None}
    BY DeploymentAssumption
  <1>2. CASE g = "opaque"
    BY <1>2 DEF GeneratedKey, OpaqueKey, License, Registered
  <1>3. CASE g = "hmac"
    BY <1>3 DEF GeneratedKey, HmacKey, License, Registered
  <1>4. CASE g = "ed25519"
    <2>1. (IF e = None THEN None ELSE WholeSeconds(e)) \in Nat \cup {None}
      BY <1>1, WholeSecondsBounds
    <2> QED
      BY <1>4, <2>1 DEF GeneratedKey, Ed25519Key, License, Registered
  <1> QED
    BY <1>2, <1>3, <1>4 DEF Generators

-----------------------------------------------------------------------------
(* Configuration.                                                          *)

\* Induction, with a set in place of a predicate.
LEMMA SetInduction ==
  ASSUME NEW S, 0 \in S, \A n \in Nat : n \in S => n + 1 \in S
  PROVE  Nat \subseteq S
  <1> DEFINE T == Nat \ S
  <1>1. ASSUME T # {}
        PROVE  \E x \in T : \A y \in T : ~(y < x)
    <2>1. \E x \in T : \A y \in T : ~(<<y, x>> \in OpToRel(<, Nat))
      BY <1>1, NatLessThanWellFounded, WFMin
    <2> QED
      BY <2>1 DEF OpToRel
  <1>2. T = {}
    <2> SUFFICES ASSUME T # {} PROVE FALSE
      OBVIOUS
    <2>1. PICK x \in T : \A y \in T : ~(y < x)
      BY <1>1
    <2>2. x # 0 /\ x - 1 \in Nat
      OBVIOUS
    <2> QED
      BY <2>1, <2>2
  <1> QED
    BY <1>2

\* The definition of Merged by recursion defines a function: the merger of the
\* first layers, for any number of them.
LEMMA MergedUnfolds ==
  ASSUME NEW layers, Len(layers) \in Nat
  PROVE  \E f : /\ f = [n \in 0 .. Len(layers) |->
                          IF n = 0 THEN <<>> ELSE Over(layers[n], f[n - 1])]
                /\ Merged(layers) = f[Len(layers)]
  <1> DEFINE Upto(n, f) ==
               f = [i \in 0 .. n |-> IF i = 0 THEN <<>> ELSE Over(layers[i], f[i - 1])]
             S == {n \in Nat : \E f : Upto(n, f)}
  <1>1. 0 \in S
    <2> DEFINE f == [i \in 0 .. 0 |-> <<>>]
    <2>1. Upto(0, f)
      OBVIOUS
    <2> QED
      BY <2>1
  <1>2. ASSUME NEW n \in Nat, n \in S
        PROVE  n + 1 \in S
    <2>1. PICK f : Upto(n, f)
      BY <1>2
    <2> DEFINE g == [i \in 0 .. n + 1 |->
                       IF i <= n THEN f[i] ELSE Over(layers[n + 1], f[n])]
    <2>2. Upto(n + 1, g)
      <3>1. ASSUME NEW i \in 0 .. n + 1
            PROVE  g[i] = IF i = 0 THEN <<>> ELSE Over(layers[i], g[i - 1])
        <4>1. CASE i = n + 1
          BY <4>1
        <4>2. CASE i # n + 1
          <5>1. i \in 0 .. n /\ g[i] = f[i] /\ (i # 0 => i - 1 \in 0 .. n)
            BY <4>2
          <5>2. i # 0 => g[i - 1] = f[i - 1]
            BY <5>1
          <5>3. f[i] = IF i = 0 THEN <<>> ELSE Over(layers[i], f[i - 1])
            BY <2>1, <5>1
          <5> QED
            BY <5>1, <5>2, <5>3
        <4> QED
          BY <4>1, <4>2
      <3> QED
        BY <3>1
    <2> HIDE DEF g
    <2> QED
      BY <2>2
  <1> HIDE DEF S
  <1>3. Len(layers) \in S
    BY <1>1, <1>2, SetInduction
  <1> DEFINE merged == CHOOSE f : Upto(Len(layers), f)
  <1>4. Upto(Len(layers), merged)
    BY <1>3 DEF S
  <1>5. Merged(layers) = merged[Len(layers)]
    BY DEF Merged
  <1> HIDE DEF merged
  <1> QED
    BY <1>4, <1>5

\* However many layers there are, what is said is what some layer says, and
\* the last layer that says anything of a key has its way.
THEOREM LastLayerWins ==
  ASSUME NEW layers, Len(layers) \in Nat, DOMAIN layers = 1 .. Len(layers), NEW key
  PROVE  /\ key \in DOMAIN Merged(layers) <=>
               \E n \in DOMAIN layers : key \in DOMAIN layers[n]
         /\ \A n \in DOMAIN layers :
               /\ key \in DOMAIN layers[n]
               /\ \A m \in DOMAIN layers : m > n => key \notin DOMAIN layers[m]
               => Merged(layers)[key] = layers[n][key]
  <1> DEFINE N == Len(layers)
  <1>1. PICK f : /\ f = [n \in 0 .. N |->
                          IF n = 0 THEN <<>> ELSE Over(layers[n], f[n - 1])]
                 /\ Merged(layers) = f[N]
    BY MergedUnfolds
  <1> DEFINE Says(k) ==
               key \in DOMAIN f[k] <=> \E n \in 1 .. k : key \in DOMAIN layers[n]
             Last(k) ==
               \A n \in 1 .. k :
                 /\ key \in DOMAIN layers[n]
                 /\ \A m \in 1 .. k : m > n => key \notin DOMAIN layers[m]
                 => f[k][key] = layers[n][key]
             S == {k \in Nat : k <= N => Says(k) /\ Last(k)}
  <1>2. 0 \in S
    <2>1. f[0] = <<>>
      BY <1>1
    <2> QED
      BY <2>1
  <1>3. ASSUME NEW k \in Nat, k \in S
        PROVE  k + 1 \in S
    <2> SUFFICES ASSUME k + 1 <= N
                 PROVE  Says(k + 1) /\ Last(k + 1)
      OBVIOUS
    <2>1. k + 1 \in 0 .. N /\ k + 1 # 0 /\ (k + 1) - 1 = k
      OBVIOUS
    <2>2. f[k + 1] = Over(layers[k + 1], f[k])
      BY <1>1, <2>1
    <2>3. /\ DOMAIN f[k + 1] = DOMAIN layers[k + 1] \cup DOMAIN f[k]
          /\ key \in DOMAIN f[k + 1] =>
                f[k + 1][key] = IF key \in DOMAIN layers[k + 1]
                                THEN layers[k + 1][key] ELSE f[k][key]
      BY <2>2 DEF Over
    <2>4. Says(k) /\ Last(k)
      BY <1>3
    <2>5. Says(k + 1)
      BY <2>3, <2>4
    <2>6. Last(k + 1)
      <3> SUFFICES ASSUME NEW n \in 1 .. k + 1, key \in DOMAIN layers[n],
                          \A m \in 1 .. k + 1 : m > n => key \notin DOMAIN layers[m]
                   PROVE  f[k + 1][key] = layers[n][key]
        OBVIOUS
      <3>1. CASE n = k + 1
        BY <2>3, <3>1
      <3>2. CASE n # k + 1
        <4>1. n \in 1 .. k /\ key \notin DOMAIN layers[k + 1]
          BY <3>2
        <4>2. f[k][key] = layers[n][key] /\ key \in DOMAIN f[k]
          BY <2>4, <4>1
        <4> QED
          BY <2>3, <4>1, <4>2
      <3> QED
        BY <3>1, <3>2
    <2> QED
      BY <2>5, <2>6
  <1> HIDE DEF S
  <1>4. N \in S
    BY <1>2, <1>3, SetInduction
  <1> QED
    BY <1>1, <1>4 DEF S

-----------------------------------------------------------------------------
(* Type correctness.                                                       *)

\* An instance that is down has the form of an instance.
LEMMA DownForm == Down \in Instance
  <1>1. 1 \in 1 .. Statements + 1
    BY DeploymentAssumption
  <1> QED
    BY <1>1 DEF Down, Instance

\* The initial state is well typed.
LEMMA TypeInit == Init => TypeOK
  <1> SUFFICES ASSUME Init PROVE TypeOK
    OBVIOUS
  <1>1. Statements \in Nat /\ MaxTime \in Nat
    BY DeploymentAssumption
  <1>2. instances \in [Instances -> Instance]
    BY DownForm DEF Init
  <1>3. schema \in 0 .. Statements /\ now \in 0 .. MaxTime
    BY <1>1 DEF Init
  <1>4. /\ products \in [Products -> Registered \cup {None}]
        /\ licenses \in [Licenses -> License \cup {None}]
    BY DEF Init
  <1>5. dbms \in {"mssql", "postgres"} /\ drawn \subseteq Secrets /\ stopped \in BOOLEAN
    BY DEF Init
  <1> QED
    BY <1>2, <1>3, <1>4, <1>5 DEF TypeOK

\* The instance steps keep the type: only an instance, the schema and the
\* secrets in use change.
LEMMA TypeInstance ==
  ASSUME TypeOK, NEW i \in Instances, Start(i) \/ Advance(i) \/ Stop(i)
  PROVE  TypeOK'
  <1>1. /\ dbms' = dbms /\ products' = products /\ licenses' = licenses /\ now' = now
    BY DEF Start, Advance, CheckTable, CreateTable, MigrateLocked, Listen, Stop, tables
  <1>2. Statements \in Nat \ {0}
    BY DeploymentAssumption
  <1>3. instances[i] \in Instance /\ schema \in 0 .. Statements
    BY <1>2 DEF TypeOK
  <1>4. ASSUME NEW state \in Instance, Become(i, state)
        PROVE  instances' \in [Instances -> Instance]
    BY <1>4 DEF Become, TypeOK
  <1>5. /\ instances' \in [Instances -> Instance] /\ schema' \in 0 .. Statements
        /\ drawn' \subseteq Secrets /\ stopped' \in BOOLEAN
    <2>1. CASE Start(i)
      <3>1. PICK stack \in DOMAIN Configs :
               Become(i, [Down EXCEPT !.phase = "migrating", !.layers = stack,
                                      !.config = Configs[stack]])
        BY <2>1 DEF Start
      <3>2. stack \in Stacks /\ Configs[stack] \in AppConfigs
        BY <3>1 DEF Configs, AppConfigs
      <3>3. [Down EXCEPT !.phase = "migrating", !.layers = stack,
                         !.config = Configs[stack]] \in Instance
        BY <3>2, DownForm DEF Instance
      <3> QED
        BY <1>3, <1>4, <2>1, <3>1, <3>3 DEF Start, TypeOK
    <2>2. CASE CheckTable(i)
      <3>1. instances[i].at + 1 \in 1 .. Statements + 1
        BY <1>2, <1>3, <2>2 DEF CheckTable, Batch, Migrating, Instance
      <3>2. /\ [instances[i] EXCEPT !.at = @ + 1] \in Instance
            /\ [instances[i] EXCEPT !.missing = TRUE] \in Instance
        BY <1>3, <3>1, Zenon DEF Instance
      <3> QED
        BY <1>3, <1>4, <2>2, <3>2 DEF CheckTable, TypeOK
    <2>3. CASE CreateTable(i)
      <3>1. instances[i].at \in 1 .. Statements /\ instances[i].at + 1 \in 1 .. Statements + 1
        BY <1>2, <1>3, <2>3 DEF CreateTable, Batch, Migrating, Instance
      <3>2. [instances[i] EXCEPT !.missing = FALSE, !.at = @ + 1] \in Instance
        BY <1>3, <3>1 DEF Instance
      <3>3. schema' \in 0 .. Statements
        BY <1>2, <1>3, <2>3, <3>1 DEF CreateTable
      <3> QED
        BY <1>4, <2>3, <3>2, <3>3, DownForm DEF CreateTable, TypeOK
    <2>4. CASE MigrateLocked(i)
      <3>1. [instances[i] EXCEPT !.at = Statements + 1] \in Instance
        BY <1>2, <1>3 DEF Instance
      <3>2. schema' \in 0 .. Statements
        BY <1>2, <1>3, <2>4 DEF MigrateLocked
      <3> QED
        BY <1>4, <2>4, <3>1, <3>2 DEF MigrateLocked, TypeOK
    <2>5. CASE Listen(i)
      <3>1. PICK secret \in Secrets :
               /\ Become(i, [instances[i] EXCEPT !.phase = "serving", !.secret = secret])
               /\ drawn' = drawn \cup {secret}
        BY <2>5, DeploymentAssumption DEF Listen, NewSecrets
      <3>2. [instances[i] EXCEPT !.phase = "serving", !.secret = secret] \in Instance
        BY <1>3 DEF Instance
      <3> QED
        BY <1>3, <1>4, <2>5, <3>1, <3>2 DEF Listen, TypeOK
    <2>6. CASE Stop(i)
      BY <1>3, <1>4, <2>6, DownForm DEF Stop, TypeOK
    <2> QED
      BY <2>1, <2>2, <2>3, <2>4, <2>5, <2>6 DEF Advance
  <1> QED
    BY <1>1, <1>5 DEF TypeOK

\* What clients send as metadata is a secret's public key, or nothing.
LEMMA SentForm ==
  ASSUME TypeOK, NEW sent \in SentMetadata, NEW g, NEW s \in Secrets
  PROVE  MergedMetadata(sent, g, s) \in Secrets \cup {None}
  <1>1. sent \in Secrets \cup {None}
    BY DEF SentMetadata, TypeOK, License
  <1> QED
    BY <1>1 DEF MergedMetadata

\* Creating a product and generating a license keep the type.
LEMMA TypeTables ==
  ASSUME TypeOK, MigrationOK, NEW i \in Instances, NEW p \in Products,
         NEW asked \in Asked \cup {None}
  PROVE  /\ CreateProduct(i, p, asked) => TypeOK'
         /\ \A l \in Licenses : GenerateLicense(i, l, p, asked) => TypeOK'
  <1>1. ASSUME CreateProduct(i, p, asked)
        PROVE  TypeOK'
    BY <1>1 DEF CreateProduct, TypeOK
  <1>2. ASSUME NEW l \in Licenses, GenerateLicense(i, l, p, asked)
        PROVE  TypeOK'
    <2>1. PICK g \in Registered, e \in Expiries, sent \in SentMetadata :
             licenses' = [licenses EXCEPT ![l] =
                [product |-> p, backend |-> g,
                 key |-> GeneratedKey(g, instances[i].secret, p, e),
                 metadata |-> MergedMetadata(sent, g, instances[i].secret),
                 expires |-> e]]
      BY <1>2 DEF GenerateLicense
    <2>2. instances[i].secret \in Secrets
      BY <1>2 DEF GenerateLicense, Serves, MigrationOK
    <2>3. [product |-> p, backend |-> g,
           key |-> GeneratedKey(g, instances[i].secret, p, e),
           metadata |-> MergedMetadata(sent, g, instances[i].secret),
           expires |-> e] \in License
      BY <2>2, SentForm, GeneratedForm DEF Registered
    <2> QED
      BY <1>2, <2>1, <2>3 DEF GenerateLicense, TypeOK
  <1> QED
    BY <1>1, <1>2

\* Every step keeps the type.
LEMMA TypeStep == TypeOK /\ MigrationOK /\ [Next]_vars => TypeOK'
  <1>1. ASSUME TypeOK, Tick PROVE TypeOK'
    BY <1>1, DeploymentAssumption DEF Tick, TypeOK, tables
  <1>2. ASSUME TypeOK, UNCHANGED vars PROVE TypeOK'
    BY <1>2 DEF vars, TypeOK
  <1> QED
    BY <1>1, <1>2, TypeInstance, TypeTables DEF Next

-----------------------------------------------------------------------------
(* Migration.                                                              *)

\* Statements take effect and stay.
LEMMA SchemaGrows ==
  ASSUME TypeOK, [Next]_vars
  PROVE  schema' \in Nat /\ schema <= schema'
  <1>1. Statements \in Nat \ {0} /\ schema \in 0 .. Statements
    BY DeploymentAssumption DEF TypeOK
  <1>2. ASSUME NEW i \in Instances, CreateTable(i)
        PROVE  schema' \in Nat /\ schema <= schema'
    <2>1. instances[i].at \in Nat
      BY <1>1 DEF TypeOK, Instance
    <2> QED
      BY <1>1, <1>2, <2>1 DEF CreateTable
  <1>3. ASSUME NEW i \in Instances, MigrateLocked(i)
        PROVE  schema' \in Nat /\ schema <= schema'
    BY <1>1, <1>3 DEF MigrateLocked
  <1>4. CASE schema' = schema
    BY <1>1, <1>4
  <1> QED
    BY <1>2, <1>3, <1>4 DEF Next, Advance, Start, CheckTable, Listen, Stop,
       CreateProduct, GenerateLicense, Tick, vars

\* An instance that has come to a statement finds the tables before it.
LEMMA MigrationStep == TypeOK /\ MigrationOK /\ [Next]_vars => MigrationOK'
  <1> SUFFICES ASSUME TypeOK, MigrationOK, [Next]_vars, NEW i \in Instances,
                      instances'[i].phase # "down"
               PROVE  /\ instances'[i].config \in AppConfigs
                      /\ instances'[i].config.url = Shared =>
                            instances'[i].at - 1 <= schema'
                      /\ instances'[i].phase = "serving" =>
                            /\ instances'[i].at = Statements + 1
                            /\ instances'[i].secret \in Secrets
    BY DEF MigrationOK
  <1>1. /\ Statements \in Nat \ {0} /\ schema \in 0 .. Statements
        /\ schema' \in Nat /\ schema <= schema'
    BY DeploymentAssumption, SchemaGrows DEF TypeOK
  <1>2. instances[i] \in Instance /\ instances[i].at \in Nat
    BY <1>1 DEF TypeOK, Instance
  <1>3. ASSUME instances[i].phase # "down"
        PROVE  /\ instances[i].config \in AppConfigs
               /\ instances[i].config.url = Shared => instances[i].at - 1 <= schema
               /\ instances[i].phase = "serving" =>
                     /\ instances[i].at = Statements + 1
                     /\ instances[i].secret \in Secrets
    BY <1>3 DEF MigrationOK
  <1>4. CASE instances'[i] = instances[i]
    BY <1>1, <1>2, <1>3, <1>4
  <1>5. CASE Start(i)
    <2>1. PICK stack \in DOMAIN Configs :
             Become(i, [Down EXCEPT !.phase = "migrating", !.layers = stack,
                                    !.config = Configs[stack]])
      BY <1>5 DEF Start
    <2>2. Configs[stack] \in AppConfigs
      BY <2>1 DEF Configs, AppConfigs
    <2>3. /\ instances'[i].phase = "migrating" /\ instances'[i].at = 1
          /\ instances'[i].config = Configs[stack]
      BY <2>1 DEF Become, Down, TypeOK
    <2> QED
      BY <1>1, <2>2, <2>3
  <1>6. CASE CheckTable(i)
    <2>1. /\ instances'[i].config = instances[i].config
          /\ instances'[i].phase = "migrating" /\ instances[i].phase = "migrating"
          /\ \/ instances'[i].at = instances[i].at
             \/ /\ instances[i].at <= schema
                /\ instances'[i].at = instances[i].at + 1
      BY <1>2, <1>6 DEF CheckTable, Batch, Migrating, Become, TypeOK, Instance
    <2> QED
      BY <1>1, <1>2, <1>3, <2>1
  <1>7. CASE CreateTable(i)
    <2>1. /\ instances'[i].config = instances[i].config
          /\ instances'[i].phase = "migrating" /\ instances[i].phase = "migrating"
          /\ instances'[i].at = instances[i].at + 1 /\ schema' = instances[i].at
      <3>1. CASE schema < instances[i].at
        <4>1. instances'[i] = [instances[i] EXCEPT !.missing = FALSE, !.at = @ + 1]
          BY <1>7, <3>1 DEF CreateTable, Become, TypeOK
        <4>2. schema' = instances[i].at /\ instances[i].phase = "migrating"
          BY <1>7, <3>1 DEF CreateTable, Batch, Migrating
        <4> QED
          BY <1>2, <4>1, <4>2 DEF Instance
      <3>2. CASE ~(schema < instances[i].at)
        <4>1. instances'[i] = Down
          BY <1>7, <3>2 DEF CreateTable, Become, TypeOK
        <4> QED
          BY <4>1 DEF Down
      <3> QED
        BY <3>1, <3>2
    <2> QED
      BY <1>1, <1>2, <1>3, <2>1
  <1>8. CASE MigrateLocked(i)
    <2>1. /\ instances'[i].config = instances[i].config
          /\ instances'[i].phase = "migrating" /\ instances[i].phase = "migrating"
          /\ instances'[i].at = Statements + 1
          /\ instances[i].config.url = Shared => schema' = Statements
      BY <1>2, <1>8 DEF MigrateLocked, Migrating, Become, TypeOK, Instance
    <2> QED
      BY <1>1, <1>3, <2>1
  <1>9. CASE Listen(i)
    <2>1. /\ instances'[i].config = instances[i].config
          /\ instances[i].phase = "migrating"
          /\ instances'[i].at = instances[i].at
          /\ instances[i].at = Statements + 1
          /\ instances'[i].secret \in Secrets
      BY <1>2, <1>9, DeploymentAssumption DEF Listen, NewSecrets, Become, TypeOK, Instance
    <2> QED
      BY <1>1, <1>2, <1>3, <2>1
  <1>10. CASE Stop(i)
    BY <1>10 DEF Stop, Become, Down, TypeOK
  <1>11. ASSUME NEW j \in Instances, j # i, Start(j) \/ Advance(j) \/ Stop(j)
         PROVE  instances'[i] = instances[i]
    BY <1>11 DEF Start, Advance, CheckTable, CreateTable, MigrateLocked, Listen, Stop,
       Become, TypeOK
  <1>12. CASE UNCHANGED instances
    BY <1>4, <1>12
  <1>13. CASE \E j \in Instances : Start(j) \/ Advance(j) \/ Stop(j)
    BY <1>4, <1>5, <1>6, <1>7, <1>8, <1>9, <1>10, <1>11, <1>13 DEF Advance
  <1> QED
    BY <1>12, <1>13 DEF Next, CreateProduct, GenerateLicense, Tick, vars

\* What one instance does, the others do not notice.
LEMMA OthersKept ==
  ASSUME TypeOK, NEW j \in Instances, Start(j) \/ Advance(j) \/ Stop(j)
  PROVE  \A i \in Instances \ {j} : instances'[i] = instances[i]
  BY DEF Start, Advance, CheckTable, CreateTable, MigrateLocked, Listen, Stop, Become, TypeOK

\* The leader of a race keeps its lead, or hands it to the instance that
\* creates a table before it.
LEMMA RaceStep == TypeOK /\ RaceOK /\ [Next]_vars => RaceOK'
  <1> SUFFICES ASSUME TypeOK, RaceOK, [Next]_vars, schema' > 0, ~stopped'
               PROVE  \E i \in Instances :
                        /\ instances'[i].phase # "down"
                        /\ instances'[i].config.url = Shared
                        /\ instances'[i].at = schema' + 1
    BY DEF RaceOK
  <1> DEFINE Leads(i) == /\ instances[i].phase # "down"
                         /\ instances[i].config.url = Shared
                         /\ instances[i].at = schema + 1
  <1>1. Statements \in Nat \ {0} /\ schema \in 0 .. Statements
    BY DeploymentAssumption DEF TypeOK
  <1>2. ~stopped
    BY DEF Next, Start, Advance, CheckTable, CreateTable, MigrateLocked, Listen, Stop,
       CreateProduct, GenerateLicense, Tick, vars, TypeOK
  <1>3. schema > 0 => \E i \in Instances : Leads(i)
    BY <1>2 DEF RaceOK
  <1>4. CASE UNCHANGED <<instances, schema>>
    BY <1>3, <1>4
  <1>5. ASSUME NEW j \in Instances, Start(j) \/ CheckTable(j) \/ Listen(j)
        PROVE  \E i \in Instances :
                 /\ instances'[i].phase # "down" /\ instances'[i].config.url = Shared
                 /\ instances'[i].at = schema' + 1
    <2>1. schema' = schema
      BY <1>5 DEF Start, CheckTable, Listen
    <2>2. PICK i \in Instances : Leads(i)
      BY <1>3, <2>1
    <2>3. CASE i # j
      BY <1>5, <2>1, <2>2, <2>3, OthersKept DEF Advance
    <2>4. CASE i = j
      <3>1. instances[i] \in Instance
        BY DEF TypeOK
      <3>2. ~Start(i)
        BY <2>2 DEF Start
      <3>3. CASE CheckTable(i)
        <4>1. instances'[i] = [instances[i] EXCEPT !.missing = TRUE]
          BY <1>1, <2>2, <3>3 DEF CheckTable, Become, TypeOK
        <4>2. instances[i].phase = "migrating"
          BY <3>3 DEF CheckTable, Batch, Migrating
        <4> QED
          BY <2>1, <2>2, <3>1, <4>1, <4>2 DEF Instance
      <3>4. CASE Listen(i)
        <4>1. PICK secret \in NewSecrets :
                 instances'[i] = [instances[i] EXCEPT !.phase = "serving", !.secret = secret]
          BY <3>4 DEF Listen, Become, TypeOK
        <4> QED
          BY <2>1, <2>2, <3>1, <4>1 DEF Instance
      <3> QED
        BY <1>5, <2>4, <3>2, <3>3, <3>4
    <2> QED
      BY <2>3, <2>4
  <1>6. ASSUME NEW j \in Instances, CreateTable(j)
        PROVE  \E i \in Instances :
                 /\ instances'[i].phase # "down" /\ instances'[i].config.url = Shared
                 /\ instances'[i].at = schema' + 1
    <2>1. /\ instances[j] \in Instance /\ instances[j].config.url = Shared
          /\ instances[j].phase = "migrating" /\ instances[j].at \in Nat
      BY <1>1, <1>6 DEF CreateTable, Batch, Migrating, TypeOK, Instance
    <2>2. CASE schema < instances[j].at
      <3>1. /\ schema' = instances[j].at
            /\ instances'[j] = [instances[j] EXCEPT !.missing = FALSE, !.at = @ + 1]
        BY <1>6, <2>2 DEF CreateTable, Become, TypeOK
      <3> QED
        BY <2>1, <3>1 DEF Instance
    <2>3. CASE ~(schema < instances[j].at)
      <3>1. schema' = schema
        BY <1>6, <2>3 DEF CreateTable
      <3>2. PICK i \in Instances : Leads(i)
        BY <1>3, <3>1
      <3>3. i # j
        BY <1>1, <2>1, <2>3, <3>2
      <3> QED
        BY <1>6, <3>1, <3>2, <3>3, OthersKept DEF Advance
    <2> QED
      BY <2>2, <2>3
  <1>7. ASSUME NEW j \in Instances, MigrateLocked(j)
        PROVE  \E i \in Instances :
                 /\ instances'[i].phase # "down" /\ instances'[i].config.url = Shared
                 /\ instances'[i].at = schema' + 1
    <2>1. /\ instances[j] \in Instance /\ instances[j].phase = "migrating"
          /\ instances'[j] = [instances[j] EXCEPT !.at = Statements + 1]
          /\ schema' = IF instances[j].config.url = Shared THEN Statements ELSE schema
      BY <1>7 DEF MigrateLocked, Migrating, Become, TypeOK
    <2>2. CASE instances[j].config.url = Shared
      BY <2>1, <2>2 DEF Instance
    <2>3. CASE instances[j].config.url # Shared
      <3>1. schema' = schema
        BY <2>1, <2>3
      <3>2. PICK i \in Instances : Leads(i)
        BY <1>3, <3>1
      <3> QED
        BY <1>7, <2>3, <3>1, <3>2, OthersKept DEF Advance
    <2> QED
      BY <2>2, <2>3
  <1>8. ASSUME NEW j \in Instances, Stop(j)
        PROVE  FALSE
    BY <1>8 DEF Stop
  <1> QED
    BY <1>4, <1>5, <1>6, <1>7, <1>8 DEF Next, Advance, CreateProduct, GenerateLicense,
       Tick, vars

-----------------------------------------------------------------------------
(* What instances run on.                                                  *)

\* A start takes its settings from its layers, and nothing changes them while
\* the instance runs.
LEMMA ConfiguredStep == TypeOK /\ ConfiguredOK /\ [Next]_vars => ConfiguredOK'
  <1> SUFFICES ASSUME TypeOK, ConfiguredOK, [Next]_vars, NEW i \in Instances,
                      instances'[i].phase # "down"
               PROVE  /\ instances'[i].layers \in DOMAIN Configs
                      /\ instances'[i].config = Configs[instances'[i].layers]
                      /\ instances'[i].config.url = Shared =>
                            instances'[i].config.backend = dbms'
    BY DEF ConfiguredOK
  <1>1. dbms' = dbms
    BY DEF Next, Start, Advance, CheckTable, CreateTable, MigrateLocked, Listen, Stop,
       CreateProduct, GenerateLicense, Tick, vars
  <1>2. ASSUME instances[i].phase # "down", instances'[i].layers = instances[i].layers,
               instances'[i].config = instances[i].config
        PROVE  /\ instances'[i].layers \in DOMAIN Configs
               /\ instances'[i].config = Configs[instances'[i].layers]
               /\ instances'[i].config.url = Shared => instances'[i].config.backend = dbms'
    BY <1>1, <1>2 DEF ConfiguredOK
  <1>3. instances[i] \in Instance
    BY DEF TypeOK
  <1>4. CASE Start(i)
    <2>1. PICK stack \in DOMAIN Configs :
             /\ Configs[stack].url = Shared => Configs[stack].backend = dbms
             /\ Become(i, [Down EXCEPT !.phase = "migrating", !.layers = stack,
                                       !.config = Configs[stack]])
      BY <1>4 DEF Start
    <2>2. instances'[i].layers = stack /\ instances'[i].config = Configs[stack]
      BY <2>1 DEF Become, Down, TypeOK
    <2> QED
      BY <1>1, <2>1, <2>2
  <1>5. CASE Advance(i)
    <2>1. instances[i].phase = "migrating"
      BY <1>5 DEF Advance, CheckTable, CreateTable, MigrateLocked, Listen, Batch, Migrating
    <2>2. \/ instances'[i] = Down
          \/ /\ instances'[i].layers = instances[i].layers
             /\ instances'[i].config = instances[i].config
      <3>1. CASE CheckTable(i)
        <4>1. \/ instances'[i] = [instances[i] EXCEPT !.at = @ + 1]
              \/ instances'[i] = [instances[i] EXCEPT !.missing = TRUE]
          BY <3>1 DEF CheckTable, Become, TypeOK
        <4> QED
          BY <1>3, <4>1 DEF Instance
      <3>2. CASE CreateTable(i)
        <4>1. \/ instances'[i] = [instances[i] EXCEPT !.missing = FALSE, !.at = @ + 1]
              \/ instances'[i] = Down
          BY <3>2 DEF CreateTable, Become, TypeOK
        <4> QED
          BY <1>3, <4>1 DEF Instance
      <3>3. CASE MigrateLocked(i)
        BY <1>3, <3>3 DEF MigrateLocked, Become, TypeOK, Instance
      <3>4. CASE Listen(i)
        BY <1>3, <3>4 DEF Listen, Become, TypeOK, Instance
      <3> QED
        BY <1>5, <3>1, <3>2, <3>3, <3>4 DEF Advance
    <2> QED
      BY <1>2, <2>1, <2>2 DEF Down
  <1>6. CASE Stop(i)
    BY <1>6 DEF Stop, Become, Down, TypeOK
  <1>7. ASSUME NEW j \in Instances, j # i, Start(j) \/ Advance(j) \/ Stop(j)
        PROVE  instances'[i] = instances[i]
    BY <1>7, OthersKept
  <1>8. CASE UNCHANGED instances
    BY <1>2, <1>8
  <1>9. CASE \E j \in Instances : Start(j) \/ Advance(j) \/ Stop(j)
    BY <1>2, <1>4, <1>5, <1>6, <1>7, <1>9
  <1> QED
    BY <1>8, <1>9 DEF Next, CreateProduct, GenerateLicense, Tick, vars

-----------------------------------------------------------------------------
(* Licenses.                                                               *)

\* A license is as a generator made it.
LEMMA IssuedStep ==
  TypeOK /\ MigrationOK /\ IssuedOK /\ [Next]_vars => IssuedOK'
  <1> SUFFICES ASSUME TypeOK, MigrationOK, IssuedOK, [Next]_vars
               PROVE  IssuedOK'
    OBVIOUS
  <1>1. CASE licenses' = licenses
    BY <1>1 DEF IssuedOK
  <1>2. ASSUME NEW i \in Instances, NEW p \in Products, NEW asked \in Asked \cup {None},
               NEW l \in Licenses, GenerateLicense(i, l, p, asked)
        PROVE  IssuedOK'
    <2> DEFINE s == instances[i].secret
    <2>1. PICK g, e, sent :
             licenses' = [licenses EXCEPT ![l] =
                [product |-> p, backend |-> g,
                 key |-> GeneratedKey(g, s, p, e),
                 metadata |-> MergedMetadata(sent, g, s),
                 expires |-> e]]
      BY <1>2 DEF GenerateLicense
    <2>2. s \in Secrets
      BY <1>2 DEF GenerateLicense, Serves, MigrationOK
    <2>3. /\ licenses'[l].key = GeneratedKey(licenses'[l].backend, s,
                                            licenses'[l].product, licenses'[l].expires)
          /\ licenses'[l].backend = "ed25519" => licenses'[l].metadata = s
      BY <2>1 DEF TypeOK, MergedMetadata
    <2>4. \A k \in Licenses \ {l} : licenses'[k] = licenses[k]
      BY <2>1 DEF TypeOK
    <2> HIDE DEF s
    <2> QED
      BY <2>2, <2>3, <2>4 DEF IssuedOK
  <1> QED
    BY <1>1, <1>2 DEF Next, Start, Advance, CheckTable, CreateTable, MigrateLocked,
       Listen, Stop, CreateProduct, Tick, tables, vars

-----------------------------------------------------------------------------
(* The theorems.                                                           *)

\* The invariant holds of every behavior.
THEOREM Invariance == Spec => []IInv
  <1>1. Init => IInv
    BY TypeInit DEF Init, IInv, MigrationOK, ConfiguredOK, RaceOK, IssuedOK, Down
  <1>2. IInv /\ [Next]_vars => IInv'
    BY TypeStep, MigrationStep, ConfiguredStep, RaceStep, IssuedStep DEF IInv
  <1> QED
    BY <1>1, <1>2, PTL DEF Spec

\* Every variable keeps its type.
THEOREM TypeCorrect == Spec => []TypeOK
  <1>1. IInv => TypeOK
    BY DEF IInv
  <1> QED
    BY <1>1, Invariance, PTL

\* Whoever serves finds a complete schema, however many instances migrate at
\* the same time, on a database system with or without a lock.
THEOREM Migrated == Spec => []ServesMigrated
  <1>1. IInv => ServesMigrated
    <2> SUFFICES ASSUME IInv, NEW i \in Instances, Serves(i)
                 PROVE  schema = Statements
      BY DEF ServesMigrated
    <2>1. Statements \in Nat /\ schema \in 0 .. Statements
      BY DeploymentAssumption DEF IInv, TypeOK
    <2>2. instances[i].at = Statements + 1 /\ instances[i].at - 1 <= schema
      BY DEF IInv, MigrationOK, Serves
    <2> QED
      BY <2>1, <2>2
  <1> QED
    BY <1>1, Invariance, PTL

\* A start that fails in a race leaves one behind that is further, so of the
\* instances that start together the first never fails.
THEOREM LostToLeader == Spec => LosesToLeader
  <1>1. ASSUME IInv, [Next]_vars, NEW i \in Instances, instances[i].phase = "migrating",
               instances'[i].phase = "down", ~stopped'
        PROVE  \E j \in Instances :
                 /\ instances'[j].phase # "down" /\ instances'[j].config.url = Shared
                 /\ instances'[j].at > instances[i].at
    <2>1. TypeOK /\ RaceOK /\ RaceOK'
      BY <1>1, RaceStep DEF IInv
    <2>2. /\ Statements \in Nat \ {0} /\ schema \in 0 .. Statements
          /\ instances[i] \in Instance /\ instances[i].at \in 1 .. Statements + 1
      BY <2>1, DeploymentAssumption DEF TypeOK, Instance
    <2>3. instances' # instances
      BY <1>1
    <2>4. PICK j \in Instances : Start(j) \/ Advance(j) \/ Stop(j)
      BY <1>1, <2>3 DEF Next, CreateProduct, GenerateLicense, Tick, vars
    <2>5. j = i
      BY <1>1, <2>1, <2>4, OthersKept
    <2>6. ~Start(i) /\ ~Stop(i)
      BY <1>1 DEF Start, Stop
    <2>7. ~CheckTable(i) /\ ~MigrateLocked(i) /\ ~Listen(i)
      <3>1. ASSUME CheckTable(i) PROVE FALSE
        <4>1. \/ instances'[i] = [instances[i] EXCEPT !.at = @ + 1]
              \/ instances'[i] = [instances[i] EXCEPT !.missing = TRUE]
          BY <2>1, <3>1 DEF CheckTable, Become, TypeOK
        <4> QED
          BY <1>1, <2>2, <4>1 DEF Instance
      <3>2. ASSUME MigrateLocked(i) PROVE FALSE
        BY <1>1, <2>1, <2>2, <3>2 DEF MigrateLocked, Become, TypeOK, Instance
      <3>3. ASSUME Listen(i) PROVE FALSE
        BY <1>1, <2>1, <2>2, <3>3 DEF Listen, Become, TypeOK, Instance
      <3> QED
        BY <3>1, <3>2, <3>3
    <2>8. CreateTable(i)
      BY <2>4, <2>5, <2>6, <2>7 DEF Advance
    <2>9. ~(schema < instances[i].at)
      <3> SUFFICES ASSUME schema < instances[i].at PROVE FALSE
        OBVIOUS
      <3>1. instances'[i] = [instances[i] EXCEPT !.missing = FALSE, !.at = @ + 1]
        BY <2>1, <2>8 DEF CreateTable, Become, TypeOK
      <3> QED
        BY <1>1, <2>2, <3>1 DEF Instance
    <2>10. schema' = schema /\ schema >= instances[i].at /\ schema > 0
      BY <2>2, <2>8, <2>9 DEF CreateTable
    <2>11. PICK k \in Instances : /\ instances'[k].phase # "down"
                                 /\ instances'[k].config.url = Shared
                                 /\ instances'[k].at = schema' + 1
      BY <1>1, <2>1, <2>10 DEF RaceOK
    <2> QED
      BY <2>2, <2>10, <2>11
  <1>2. IInv /\ [Next]_vars =>
          [\A i \in Instances :
             instances[i].phase = "migrating" /\ instances'[i].phase = "down" /\ ~stopped' =>
               \E j \in Instances :
                 /\ instances'[j].phase # "down" /\ instances'[j].config.url = Shared
                 /\ instances'[j].at > instances[i].at]_vars
    BY <1>1
  <1> QED
    BY <1>2, Invariance, PTL DEF Spec, LosesToLeader

\* However many layers an instance was started with, it serves from the url
\* that the last of them to name one names, and runs the system that is there.
THEOREM ServedAsConfigured == Spec => []ServesAsConfigured
  <1>1. IInv => ServesAsConfigured
    <2> DEFINE url == <<"database", "url">>
    <2> SUFFICES ASSUME IInv, NEW i \in Instances, instances[i].phase = "serving"
                 PROVE  /\ \A n \in DOMAIN instances[i].layers :
                             /\ url \in DOMAIN instances[i].layers[n]
                             /\ \A m \in DOMAIN instances[i].layers :
                                   m > n => url \notin DOMAIN instances[i].layers[m]
                             => instances[i].config.url = instances[i].layers[n][url]
                        /\ Serves(i) => instances[i].config.backend = dbms
      BY DEF ServesAsConfigured
    <2> DEFINE layers == instances[i].layers
    <2>1. /\ layers \in Stacks
          /\ instances[i].config = AppConfig(layers)
          /\ instances[i].config.url = Shared => instances[i].config.backend = dbms
      BY DEF IInv, ConfiguredOK, Configs
    <2>2. Len(layers) \in Nat /\ DOMAIN layers = 1 .. Len(layers)
      BY <2>1, DeploymentAssumption
    <2>3. instances[i].config.url = Setting(layers, url)
      BY <2>1 DEF AppConfig
    <2> HIDE DEF layers, url
    <2>4. ASSUME NEW n \in DOMAIN layers, url \in DOMAIN layers[n],
                 \A m \in DOMAIN layers : m > n => url \notin DOMAIN layers[m]
          PROVE  Setting(layers, url) = layers[n][url]
      BY <2>2, <2>4, LastLayerWins DEF Setting
    <2> QED
      BY <2>1, <2>3, <2>4 DEF Serves, layers, url
  <1> QED
    BY <1>1, Invariance, PTL

\* A license is accepted by every instance, whatever secrets it and the issuer
\* hold, unless it is an hmac one of another secret, or an ed25519 one past the
\* expiry that was signed.
THEOREM RotationSurvived == Spec => []SurvivesRotation
  <1>1. IInv => SurvivesRotation
    <2> SUFFICES ASSUME IInv, NEW i \in Instances, NEW l \in Licenses,
                        Serves(i), licenses[l] # None
                 PROVE  Accepts(i, l) <=>
                          /\ licenses[l].backend = "hmac" =>
                                licenses[l].key.signer = instances[i].secret
                          /\ licenses[l].backend = "ed25519" => TimeLeft(l)
      BY DEF SurvivesRotation
    <2> DEFINE row == licenses[l]
    <2>1. /\ row \in License /\ now \in Nat
          /\ row.expires \in Nat \cup {None} /\ row.backend \in Generators
      <3>1. row \in License /\ now \in Nat
        BY DeploymentAssumption DEF IInv, TypeOK
      <3>2. row.expires \in Expiries /\ row.backend \in Registered
        BY <3>1 DEF License
      <3> QED
        BY <3>1, <3>2, DeploymentAssumption DEF Registered
    <2>2. PICK s \in Secrets :
             /\ row.key = GeneratedKey(row.backend, s, row.product, row.expires)
             /\ row.backend = "ed25519" => row.metadata = s
      BY DEF IInv, IssuedOK
    <2>3. s # None
      BY DeploymentAssumption
    <2>4. /\ TimeLeft(l) <=> row.expires = None \/ now <= WholeSeconds(row.expires)
          /\ row.expires # None => WholeSeconds(row.expires) # None
      <3>1. row.expires # None => WholeSeconds(row.expires) \in Nat
        BY <2>1, WholeSecondsBounds
      <3> QED
        BY <3>1, DeploymentAssumption DEF TimeLeft
    <2> HIDE DEF row
    <2>5. CASE row.backend = "opaque"
      BY <2>2, <2>5 DEF Accepts, Validates, GeneratedKey, OpaqueKey, row
    <2>6. CASE row.backend = "hmac"
      BY <2>2, <2>6 DEF Accepts, Validates, ChecksumMatches,
                                 GeneratedKey, HmacKey, row
    <2>7. CASE row.backend = "ed25519"
      BY <2>2, <2>3, <2>4, <2>7 DEF Accepts, Validates, SignedFor, GeneratedKey, Ed25519Key,
                                 VerifyingKey, row
    <2> QED
      BY <2>1, <2>5, <2>6, <2>7 DEF Generators, row
  <1> QED
    BY <1>1, Invariance, PTL

\* Checked offline, an ed25519 key never outlives its license.
THEOREM OfflineAgreement == Spec => []OfflineAgrees
  <1>1. IInv => OfflineAgrees
    <2> SUFFICES ASSUME IInv, NEW l \in Licenses, licenses[l] # None,
                        licenses[l].backend = "ed25519", licenses[l].expires # None,
                        Validates("ed25519", licenses[l].key.signer, licenses[l].key,
                                  None, licenses[l].product, now)
                 PROVE  now <= licenses[l].expires
      BY DEF OfflineAgrees
    <2> DEFINE row == licenses[l]
    <2>1. row \in License /\ now \in Nat /\ row.expires \in Nat
      <3>1. row \in License /\ now \in Nat
        BY DeploymentAssumption DEF IInv, TypeOK
      <3>2. row.expires \in Expiries
        BY <3>1 DEF License
      <3> QED
        BY <3>1, <3>2, DeploymentAssumption
    <2>2. PICK s \in Secrets :
             row.key = GeneratedKey(row.backend, s, row.product, row.expires)
      BY DEF IInv, IssuedOK
    <2>3. row.key.expires = WholeSeconds(row.expires)
      BY <2>2 DEF GeneratedKey, Ed25519Key
    <2>4. /\ WholeSeconds(row.expires) \in Nat
          /\ WholeSeconds(row.expires) <= row.expires
      BY <2>1, WholeSecondsBounds
    <2>5. WholeSeconds(row.expires) # None
      BY <2>4, DeploymentAssumption
    <2>6. now <= WholeSeconds(row.expires)
      BY <2>3, <2>5 DEF Validates, SignedFor
    <2> HIDE DEF row
    <2>7. now <= row.expires
      BY <2>1, <2>4, <2>6
    <2> QED
      BY <2>7 DEF row
  <1> QED
    BY <1>1, Invariance, PTL
=============================================================================
