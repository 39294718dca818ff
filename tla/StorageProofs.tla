---------------------------- MODULE StorageProofs ----------------------------
(***************************************************************************)
(* Theorems about Storage for every value of its constants: both backends  *)
(* implement the contract of the Storage trait, and no pool of connections *)
(* is a deadlock.                                                          *)
(***************************************************************************)
EXTENDS Storage, FiniteSetTheorems, TLAPS

-----------------------------------------------------------------------------
(* What the contract allows a method to do to its table, in one operator.  *)

Hits(R, q) == {r \in R : Wanted(q, r)}

Clash(R, q) == \E r \in R : r.name = q.name

Namesake(R, q) == \E r \in R : r.name = q.name /\ r.owner = q.owner

Created(R, q, o) ==
    /\ q.method \in Creates
    /\ \/ /\ q.method = "create_user" => ~Namesake(R, q)
          /\ o.rows = R \cup {NewRow(q)}
          /\ o.answer = Ok({NewRow(q)})
       \/ /\ q.method = "create_user" /\ Namesake(R, q)
          /\ o.rows = R /\ o.answer = Refused("conflict")
       \/ /\ q.method = "create_api_key" /\ Clash(R, q)
          /\ o.rows = R /\ o.answer = Refused("storage")

FoundOne(R, q, o) ==
    /\ q.method \in Finds
    /\ o.rows = R
    /\ \/ \E r \in Hits(R, q) : o.answer = Ok({r})
       \/ Hits(R, q) = {} /\ o.answer = Refused("not_found")

Listed(R, q, o) ==
    /\ q.method \in Lists
    /\ o.rows = R /\ o.answer = Ok(Hits(R, q))

RevokedRows(R, q) == {[r EXCEPT !.revoked = TRUE] : r \in Hits(R, q)}

Revoked(R, q, o) ==
    /\ q.method \in Revokes
    /\ o.rows = (R \ Hits(R, q)) \cup RevokedRows(R, q)
    /\ o.answer = IF Hits(R, q) = {} THEN Refused("not_found")
                  ELSE Ok(RevokedRows(R, q))

TouchedRows(R, q) == {[r EXCEPT !.used = TRUE] : r \in Hits(R, q)}

Touched(R, q, o) ==
    /\ q.method = "touch_api_key_last_used"
    /\ o.rows = (R \ Hits(R, q)) \cup TouchedRows(R, q)
    /\ o.answer = Ok({})

Deleted(R, q, o) ==
    /\ q.method = "delete_activation"
    /\ o.rows = R \ Hits(R, q) /\ o.answer = Ok({})

Allowed(R, q, o) ==
    \/ Created(R, q, o) \/ FoundOne(R, q, o) \/ Listed(R, q, o)
    \/ Revoked(R, q, o) \/ Touched(R, q, o) \/ Deleted(R, q, o)

-----------------------------------------------------------------------------
(* The statements of the SQL backends are allowed.                         *)

\* Both modules speak of the same rows and answers.
LEMMA SqlRows ==
  ASSUME NEW q, NEW r
  PROVE  /\ Sql!NewRow(q) = NewRow(q)
         /\ Sql!Wanted(q, r) = Wanted(q, r)
         /\ Sql!Ok(r) = Ok(r) /\ Sql!Refused(r) = Refused(r)
  BY DEF Sql!NewRow, NewRow, Sql!Wanted, Wanted, Sql!Ok, Ok, Sql!Refused, Refused

\* An insert that breaks no constraint adds its row.
LEMMA SqlInsert ==
  ASSUME NEW R, NEW q, NEW o \in Sql!InsertInto(R, q)
  PROVE  o.rows = R \cup {NewRow(q)} /\ o.answer = Ok({NewRow(q)})
  BY SqlRows DEF Sql!InsertInto

\* A query for one row answers with one it wants, or finds none.
LEMMA SqlSelectOne ==
  ASSUME NEW R, NEW q, NEW o \in Sql!SelectOne(R, q)
  PROVE  /\ o.rows = R
         /\ \/ \E r \in Hits(R, q) : o.answer = Ok({r})
            \/ Hits(R, q) = {} /\ o.answer = Refused("not_found")
  <1>1. {r \in R : Sql!Wanted(q, r)} = Hits(R, q)
    BY SqlRows DEF Hits
  <1>2. CASE Hits(R, q) = {}
    BY <1>1, <1>2, SqlRows DEF Sql!SelectOne, Sql!Answers
  <1>3. CASE Hits(R, q) # {}
    <2>1. PICK r \in Hits(R, q) : o \in Sql!Answers(R, Sql!Ok({r}))
      BY <1>1, <1>3 DEF Sql!SelectOne
    <2> QED
      BY <2>1, SqlRows DEF Sql!Answers
  <1> QED
    BY <1>2, <1>3

\* A query for all rows answers with those it wants.
LEMMA SqlSelectAll ==
  ASSUME NEW R, NEW q, NEW o \in Sql!SelectAll(R, q)
  PROVE  o.rows = R /\ o.answer = Ok(Hits(R, q))
  BY SqlRows DEF Sql!SelectAll, Sql!Answers, Hits

\* What the rows wanted become.
New(R, q, new) == {new[r] : r \in Hits(R, q)}

\* An update changes them and no others.
LEMMA SqlUpdate ==
  ASSUME NEW R, NEW q, NEW new, NEW o \in Sql!Update(R, q, new)
  PROVE  /\ o.rows = (R \ Hits(R, q)) \cup New(R, q, new)
         /\ o.answer = IF Hits(R, q) = {} THEN Refused("not_found")
                       ELSE Ok(New(R, q, new))
         /\ o = [rows |-> o.rows, answer |-> o.answer]
  <1>1. {r \in R : Sql!Wanted(q, r)} = Hits(R, q)
    BY SqlRows DEF Hits
  <1> QED
    BY <1>1, SqlRows DEF Sql!Update, New

\* The first statement of every method.
LEMMA SqlAllowed ==
  ASSUME NEW R, NEW q, q.method \in Methods, NEW o \in Sql!Statement(R, q)
  PROVE  Allowed(R, q, o)
  <1>1. CASE q.method \in Creates \ {"create_api_key", "create_user"}
    <2>1. o \in Sql!InsertInto(R, q)
      BY <1>1 DEF Creates, Sql!Statement, Sql!CreateOrganization,
         Sql!CreateProduct, Sql!CreateLicense, Sql!CreateActivation,
         Sql!AppendAuditLog
    <2> QED
      BY <1>1, <2>1, SqlInsert DEF Allowed, Created
  <1>2. CASE q.method = "create_api_key"
    <2>1. o \in Sql!Unique(R, q, Clash(R, q), "storage")
      BY <1>2 DEF Sql!Statement, Sql!CreateApiKey, Clash
    <2>2. CASE Clash(R, q)
      BY <1>2, <2>1, <2>2, SqlRows
         DEF Sql!Unique, Sql!Answers, Allowed, Created, Creates
    <2>3. CASE ~Clash(R, q)
      BY <1>2, <2>1, <2>3, SqlInsert DEF Sql!Unique, Allowed, Created, Creates
    <2> QED
      BY <2>2, <2>3
  <1>3. CASE q.method = "create_user"
    <2>1. o \in Sql!Unique(R, q, Namesake(R, q), "conflict")
      <3>1. Namesake(R, q) <=> \E r \in R : r.owner = q.owner /\ r.name = q.name
        BY DEF Namesake
      <3> QED
        BY <1>3, <3>1 DEF Sql!Statement, Sql!CreateUser, Sql!Unique
    <2>2. CASE Namesake(R, q)
      BY <1>3, <2>1, <2>2, SqlRows
         DEF Sql!Unique, Sql!Answers, Allowed, Created, Creates
    <2>3. CASE ~Namesake(R, q)
      BY <1>3, <2>1, <2>3, SqlInsert DEF Sql!Unique, Allowed, Created, Creates
    <2> QED
      BY <2>2, <2>3
  <1>4. CASE q.method \in Finds
    <2>1. o \in Sql!SelectOne(R, q)
      BY <1>4 DEF Finds, Sql!Statement, Sql!GetOrganization, Sql!GetProduct,
         Sql!GetLicense, Sql!GetLicenseByKey, Sql!GetApiKeyByPrefix,
         Sql!GetUserByEmail, Sql!GetUser
    <2> QED
      BY <1>4, <2>1, SqlSelectOne DEF Allowed, FoundOne
  <1>5. CASE q.method \in Lists
    <2>1. o \in Sql!SelectAll(R, q)
      BY <1>5 DEF Lists, Sql!Statement, Sql!CountActivations, Sql!ListActivations
    <2> QED
      BY <1>5, <2>1, SqlSelectAll DEF Allowed, Listed
  <1>6. CASE q.method \in Revokes
    <2> DEFINE new == [r \in R |-> [r EXCEPT !.revoked = TRUE]]
    <2>1. o \in Sql!Update(R, q, new)
      BY <1>6 DEF Revokes, Sql!Statement, Sql!SetLicenseStatus, Sql!RevokeApiKey
    <2>2. New(R, q, new) = RevokedRows(R, q)
      BY DEF Hits, RevokedRows, New
    <2> HIDE DEF new
    <2> QED
      BY <1>6, <2>1, <2>2, SqlUpdate DEF Allowed, Revoked
  <1>7. CASE q.method = "touch_api_key_last_used"
    <2> DEFINE new == [r \in R |-> [r EXCEPT !.used = TRUE]]
    <2>1. PICK u \in Sql!Update(R, q, new) :
              o = [u EXCEPT !.answer = Ok({})]
      BY <1>7, SqlRows DEF Sql!Statement, Sql!TouchApiKeyLastUsed
    <2>2. New(R, q, new) = TouchedRows(R, q)
      BY DEF Hits, TouchedRows, New
    <2> HIDE DEF new
    <2> QED
      BY <1>7, <2>1, <2>2, SqlUpdate DEF Allowed, Touched
  <1>8. CASE q.method = "delete_activation"
    <2>1. o \in Sql!Answers({r \in R : ~Sql!Wanted(q, r)}, Sql!Ok({}))
      BY <1>8 DEF Sql!Statement, Sql!DeleteActivation
    <2>2. o.rows = R \ Hits(R, q) /\ o.answer = Ok({})
      BY <2>1, SqlRows DEF Sql!Answers, Hits
    <2> QED
      BY <1>8, <2>2 DEF Allowed, Deleted
  <1> QED
    BY <1>1, <1>2, <1>3, <1>4, <1>5, <1>6, <1>7, <1>8 DEF Methods

-----------------------------------------------------------------------------
(* The methods of the in-memory backend are allowed, if ids are fresh: its *)
(* insert would replace a row of the same id.                              *)

\* This backend, too, speaks of the same rows and answers.
LEMMA MemoryRows ==
  ASSUME NEW q, NEW r
  PROVE  /\ Memory!NewRow(q) = NewRow(q)
         /\ Memory!Wanted(q, r) = Wanted(q, r)
         /\ Memory!Ok(r) = Ok(r) /\ Memory!Refused(r) = Refused(r)
  BY DEF Memory!NewRow, NewRow, Memory!Wanted, Wanted, Memory!Ok, Ok,
         Memory!Refused, Refused

\* An insert under a fresh key replaces no row.
LEMMA MemoryInsert ==
  ASSUME NEW R, NEW q, \A r \in R : r.id # q.id,
         NEW o \in Memory!Insert(R, q)
  PROVE  o.rows = R \cup {NewRow(q)} /\ o.answer = Ok({NewRow(q)})
  <1>1. {r \in R : r.id # q.id} = R
    OBVIOUS
  <1> QED
    BY <1>1, MemoryRows DEF Memory!Insert

\* A get answers with a row it wants, or finds none.
LEMMA MemoryGet ==
  ASSUME NEW R, NEW q, NEW o \in Memory!Get(R, q)
  PROVE  /\ o.rows = R
         /\ \/ \E r \in Hits(R, q) : o.answer = Ok({r})
            \/ Hits(R, q) = {} /\ o.answer = Refused("not_found")
  <1>1. {r \in R : Memory!Wanted(q, r)} = Hits(R, q)
    BY MemoryRows DEF Hits
  <1>2. CASE Hits(R, q) = {}
    BY <1>1, <1>2, MemoryRows DEF Memory!Get, Memory!Answers
  <1>3. CASE Hits(R, q) # {}
    <2>1. PICK r \in Hits(R, q) : o \in Memory!Answers(R, Memory!Ok({r}))
      BY <1>1, <1>3 DEF Memory!Get
    <2> QED
      BY <2>1, MemoryRows DEF Memory!Answers
  <1> QED
    BY <1>2, <1>3

\* A filter answers with the rows it wants.
LEMMA MemoryFilter ==
  ASSUME NEW R, NEW q, NEW o \in Memory!Filter(R, q)
  PROVE  o.rows = R /\ o.answer = Ok(Hits(R, q))
  BY MemoryRows DEF Memory!Filter, Memory!Answers, Hits

\* A refused change leaves the table as it was, as an UPDATE of no row does.
LEMMA MemoryModify ==
  ASSUME NEW R, NEW q, NEW new, NEW o \in Memory!Modify(R, q, new)
  PROVE  /\ o.rows = (R \ Hits(R, q)) \cup New(R, q, new)
         /\ o.answer = IF Hits(R, q) = {} THEN Refused("not_found")
                       ELSE Ok(New(R, q, new))
  <1>1. {r \in R : Memory!Wanted(q, r)} = Hits(R, q)
    BY MemoryRows DEF Hits
  <1>2. CASE Hits(R, q) = {}
    <2>1. o.rows = R /\ o.answer = Refused("not_found")
      BY <1>1, <1>2, MemoryRows DEF Memory!Modify, Memory!Answers
    <2>2. New(R, q, new) = {}
      BY <1>2 DEF New
    <2> QED
      BY <1>2, <2>1, <2>2
  <1>3. CASE Hits(R, q) # {}
    <2>1. o = [rows |-> (R \ Hits(R, q)) \cup New(R, q, new),
               answer |-> Memory!Ok(New(R, q, new))]
      BY <1>1, <1>3 DEF Memory!Modify, New
    <2> QED
      BY <1>3, <2>1, MemoryRows
  <1> QED
    BY <1>2, <1>3

\* Every method.
LEMMA MemoryAllowed ==
  ASSUME NEW R, NEW q, q.method \in Methods,
         q.method \in Creates => \A r \in R : r.id # q.id,
         NEW o \in Memory!Method(R, q)
  PROVE  Allowed(R, q, o)
  <1>1. CASE q.method \in Creates \ {"create_user"}
    <2>1. o \in Memory!Insert(R, q)
      BY <1>1 DEF Creates, Memory!Method, Memory!CreateOrganization,
         Memory!CreateProduct, Memory!CreateLicense, Memory!CreateActivation,
         Memory!CreateApiKey, Memory!AppendAuditLog
    <2> QED
      BY <1>1, <2>1, MemoryInsert DEF Allowed, Created
  <1>2. CASE q.method = "create_user"
    <2>1. o \in IF Namesake(R, q) THEN Memory!Answers(R, Memory!Refused("conflict"))
                ELSE Memory!Insert(R, q)
      <3>1. Namesake(R, q) <=> \E r \in R : r.owner = q.owner /\ r.name = q.name
        BY DEF Namesake
      <3> QED
        BY <1>2, <3>1 DEF Memory!Method, Memory!CreateUser
    <2>2. CASE Namesake(R, q)
      BY <1>2, <2>1, <2>2, MemoryRows DEF Memory!Answers, Allowed, Created, Creates
    <2>3. CASE ~Namesake(R, q)
      BY <1>2, <2>1, <2>3, MemoryInsert DEF Allowed, Created, Creates
    <2> QED
      BY <2>2, <2>3
  <1>3. CASE q.method \in Finds
    <2>1. o \in Memory!Get(R, q)
      BY <1>3 DEF Finds, Memory!Method, Memory!GetOrganization,
         Memory!GetProduct, Memory!GetLicense, Memory!GetLicenseByKey,
         Memory!GetApiKeyByPrefix, Memory!GetUserByEmail, Memory!GetUser
    <2> QED
      BY <1>3, <2>1, MemoryGet DEF Allowed, FoundOne
  <1>4. CASE q.method \in Lists
    <2>1. o \in Memory!Filter(R, q)
      BY <1>4 DEF Lists, Memory!Method, Memory!CountActivations,
         Memory!ListActivations
    <2> QED
      BY <1>4, <2>1, MemoryFilter DEF Allowed, Listed
  <1>5. CASE q.method \in Revokes
    <2> DEFINE new == [r \in R |-> [r EXCEPT !.revoked = TRUE]]
    <2>1. o \in Memory!Modify(R, q, new)
      BY <1>5 DEF Revokes, Memory!Method, Memory!SetLicenseStatus,
         Memory!RevokeApiKey
    <2>2. New(R, q, new) = RevokedRows(R, q)
      BY DEF Hits, RevokedRows, New
    <2> HIDE DEF new
    <2> QED
      BY <1>5, <2>1, <2>2, MemoryModify DEF Allowed, Revoked
  <1>6. CASE q.method = "touch_api_key_last_used"
    <2> DEFINE rows == {IF Memory!Wanted(q, r) THEN [r EXCEPT !.used = TRUE]
                        ELSE r : r \in R}
    <2>1. o \in Memory!Answers(rows, Memory!Ok({}))
      BY <1>6 DEF Memory!Method, Memory!TouchApiKeyLastUsed
    <2>2. rows = (R \ Hits(R, q)) \cup TouchedRows(R, q)
      BY MemoryRows DEF Hits, TouchedRows
    <2> HIDE DEF rows
    <2> QED
      BY <1>6, <2>1, <2>2, MemoryRows DEF Memory!Answers, Allowed, Touched
  <1>7. CASE q.method = "delete_activation"
    <2>1. o \in Memory!Answers({r \in R : ~Memory!Wanted(q, r)}, Memory!Ok({}))
      BY <1>7 DEF Memory!Method, Memory!DeleteActivation
    <2>2. o.rows = R \ Hits(R, q) /\ o.answer = Ok({})
      BY <2>1, MemoryRows DEF Memory!Answers, Hits
    <2> QED
      BY <1>7, <2>2 DEF Allowed, Deleted
  <1> QED
    BY <1>1, <1>2, <1>3, <1>4, <1>5, <1>6, <1>7 DEF Methods

-----------------------------------------------------------------------------
(* What every allowed outcome has in common.                               *)

\* The requests a method gets are typed; a create draws an id, and what is
\* revoked is named by its id alone.
LEMMA RequestTyped ==
  ASSUME NEW m \in Methods, NEW q \in Requests(m)
  PROVE  /\ q \in Request /\ q.method = m
         /\ m \in Creates => NewRow(q) \in Row
         /\ m \in Revokes => q.id # None /\ q.owner = None /\ q.name = None
  <1>1. q.method = m /\ q.id \in Ids \cup {None}
        /\ q.owner \in Owners \cup {None} /\ q.name \in Names
        /\ q = [method |-> q.method, id |-> q.id, owner |-> q.owner,
                name |-> q.name]
    BY DEF Requests, Names
  <1>2. m \in Creates => q.id \in Ids
    BY DEF Requests, Creates, Lists
  <1>3. m \in Revokes => q.id \in Ids /\ q.owner = None /\ q.name = None
    BY DEF Requests, Revokes, Lists
  <1> QED
    BY <1>1, <1>2, <1>3, NoneAssumption DEF Request, NewRow, Row

\* Each method has a table; no row is deleted from one that has a revoke.
LEMMA TableTyped ==
  ASSUME NEW m \in Methods
  PROVE  /\ TableOf(m) \in Tables
         /\ TableOf("delete_activation") = "activations"
         /\ m \in Revokes => TableOf(m) # "activations"
  BY DEF Tables, TableOf, Revokes, Lists

UniqueIn(R) == \A r, s \in R : r.id = s.id => r = s

\* An outcome is typed.
LEMMA AllowedTyped ==
  ASSUME NEW m \in Methods, NEW q \in Requests(m), NEW R \in SUBSET Row,
         NEW o, Allowed(R, q, o)
  PROVE  o.rows \in SUBSET Row /\ o.answer \in Reply
  <1>1. Hits(R, q) \subseteq Row
    BY DEF Hits
  <1>2. RevokedRows(R, q) \subseteq Row /\ TouchedRows(R, q) \subseteq Row
    BY <1>1 DEF RevokedRows, TouchedRows, Row
  <1>3. q.method \in Creates => NewRow(q) \in Row
    BY RequestTyped
  <1>4. /\ \A S \in SUBSET Row : Ok(S) \in Reply
        /\ \A status \in {"not_found", "conflict", "storage"} :
               Refused(status) \in Reply
    BY DEF Ok, Refused, Reply
  <1>5. CASE Created(R, q, o)
    BY <1>3, <1>4, <1>5 DEF Created
  <1>6. CASE FoundOne(R, q, o)
    BY <1>1, <1>4, <1>6 DEF FoundOne
  <1>7. CASE Listed(R, q, o)
    BY <1>1, <1>4, <1>7 DEF Listed
  <1>8. CASE Revoked(R, q, o)
    BY <1>1, <1>2, <1>4, <1>8 DEF Revoked
  <1>9. CASE Touched(R, q, o)
    BY <1>1, <1>2, <1>4, <1>9 DEF Touched
  <1>10. CASE Deleted(R, q, o)
    BY <1>1, <1>4, <1>10 DEF Deleted
  <1> QED
    BY <1>5, <1>6, <1>7, <1>8, <1>9, <1>10 DEF Allowed

\* A changed row keeps its id, so that ids stay unique; none appears but the
\* one a create has drawn, and only delete_activation makes one disappear.
LEMMA AllowedIds ==
  ASSUME NEW m \in Methods, NEW q \in Requests(m), NEW R \in SUBSET Row,
         NEW o, Allowed(R, q, o), UniqueIn(R),
         m \in Creates => \A r \in R : r.id # q.id
  PROVE  /\ UniqueIn(o.rows)
         /\ \A s \in o.rows :
                (\E r \in R : r.id = s.id) \/ (m \in Creates /\ s.id = q.id)
         /\ m # "delete_activation" =>
                \A r \in R : \E s \in o.rows : s.id = r.id
  <1>1. q.method = m
    BY RequestTyped
  <1>2. CASE Created(R, q, o)
    <2>1. NewRow(q).id = q.id
      BY DEF NewRow
    <2> QED
      BY <1>1, <1>2, <2>1 DEF Created, UniqueIn
  <1>3. CASE FoundOne(R, q, o) \/ Listed(R, q, o)
    BY <1>3 DEF FoundOne, Listed, UniqueIn
  <1>4. CASE Revoked(R, q, o)
    <2>1. \A s \in RevokedRows(R, q) : \E r \in Hits(R, q) :
              s = [r EXCEPT !.revoked = TRUE] /\ s.id = r.id
      BY DEF RevokedRows, Hits, Row
    <2>2. \A r \in Hits(R, q) : \E s \in RevokedRows(R, q) : s.id = r.id
      <3> TAKE r \in Hits(R, q)
      <3>1. [r EXCEPT !.revoked = TRUE] \in RevokedRows(R, q)
        BY DEF RevokedRows
      <3>2. [r EXCEPT !.revoked = TRUE].id = r.id
        BY DEF Hits, Row
      <3> QED
        BY <3>1, <3>2
    <2>3. ASSUME NEW s \in RevokedRows(R, q), NEW t \in RevokedRows(R, q), s.id = t.id
          PROVE  s = t
      <3>1. PICK r \in Hits(R, q) : s = [r EXCEPT !.revoked = TRUE] /\ s.id = r.id
        BY <2>1
      <3>2. PICK u \in Hits(R, q) : t = [u EXCEPT !.revoked = TRUE] /\ t.id = u.id
        BY <2>1
      <3>3. r = u
        BY <2>3, <3>1, <3>2 DEF UniqueIn, Hits
      <3> QED
        BY <3>1, <3>2, <3>3
    <2>4. o.rows = (R \ Hits(R, q)) \cup RevokedRows(R, q)
      BY <1>4 DEF Revoked
    <2> QED
      BY <2>1, <2>2, <2>3, <2>4 DEF UniqueIn, Hits
  <1>5. CASE Touched(R, q, o)
    <2>1. \A s \in TouchedRows(R, q) : \E r \in Hits(R, q) :
              s = [r EXCEPT !.used = TRUE] /\ s.id = r.id
      BY DEF TouchedRows, Hits, Row
    <2>2. \A r \in Hits(R, q) : \E s \in TouchedRows(R, q) : s.id = r.id
      <3> TAKE r \in Hits(R, q)
      <3>1. [r EXCEPT !.used = TRUE] \in TouchedRows(R, q)
        BY DEF TouchedRows
      <3>2. [r EXCEPT !.used = TRUE].id = r.id
        BY DEF Hits, Row
      <3> QED
        BY <3>1, <3>2
    <2>3. ASSUME NEW s \in TouchedRows(R, q), NEW t \in TouchedRows(R, q), s.id = t.id
          PROVE  s = t
      <3>1. PICK r \in Hits(R, q) : s = [r EXCEPT !.used = TRUE] /\ s.id = r.id
        BY <2>1
      <3>2. PICK u \in Hits(R, q) : t = [u EXCEPT !.used = TRUE] /\ t.id = u.id
        BY <2>1
      <3>3. r = u
        BY <2>3, <3>1, <3>2 DEF UniqueIn, Hits
      <3> QED
        BY <3>1, <3>2, <3>3
    <2>4. o.rows = (R \ Hits(R, q)) \cup TouchedRows(R, q)
      BY <1>5 DEF Touched
    <2> QED
      BY <2>1, <2>2, <2>3, <2>4 DEF UniqueIn, Hits
  <1>6. CASE Deleted(R, q, o)
    BY <1>1, <1>6 DEF Deleted, UniqueIn
  <1> QED
    BY <1>2, <1>3, <1>4, <1>5, <1>6 DEF Allowed

-----------------------------------------------------------------------------
(* The invariant.                                                          *)

\* An empty database without calls.
LEMMA InitInv == Init => CallsOK
  <1> SUFFICES ASSUME Init PROVE CallsOK
    OBVIOUS
  <1>1. TypeOK
    BY DEF Init, TypeOK, Steps, Reply, NoReply, Refused
  <1>2. UniqueIds /\ FreshIds /\ PendingOK
    BY DEF Init, UniqueIds, FreshIds, Creating, PendingOK
  <1> QED
    BY <1>1, <1>2 DEF CallsOK

\* A client in a call has asked for a method, of a table.
LEMMA InCall ==
  ASSUME TypeOK, NEW c \in Clients, pc[c] # "idle"
  PROVE  /\ call[c].method \in Methods /\ call[c] \in Requests(call[c].method)
         /\ TableOf(call[c].method) \in Tables
         /\ T(c) \in SUBSET Row
  <1>1. PICK m \in Methods : call[c] \in Requests(m)
    BY DEF TypeOK
  <1>2. call[c].method = m
    BY <1>1, RequestTyped
  <1>3. TableOf(m) \in Tables
    BY TableTyped
  <1> QED
    BY <1>1, <1>2, <1>3 DEF TypeOK, T

\* A client takes an allowed outcome and goes on.
EffectStep(c, o, step) ==
    /\ pc[c] \in {"acquire", "run"}
    /\ Allowed(T(c), call[c], o)
    /\ Effect(c, o)
    /\ pc' = [pc EXCEPT ![c] = step]
    /\ step \in {"reacquire", "select", "done"}
    /\ step # "done" => call[c].method \in Revokes
    /\ held' \in SUBSET Clients
    /\ UNCHANGED <<backend, workload, call>>

\* An allowed outcome keeps the invariant.
LEMMA EffectInv ==
  ASSUME CallsOK, NEW c \in Clients, NEW o, NEW step, EffectStep(c, o, step)
  PROVE  CallsOK'
  <1> USE DEF CallsOK
  <1> DEFINE m == call[c].method
             t == TableOf(m)
  <1>1. /\ m \in Methods /\ call[c] \in Requests(m) /\ t \in Tables
        /\ T(c) \in SUBSET Row
    BY InCall DEF EffectStep
  <1>2. /\ db' = [db EXCEPT ![t] = o.rows]
        /\ reply' = [reply EXCEPT ![c] = o.answer]
        /\ pc' = [pc EXCEPT ![c] = step] /\ step \in Steps /\ step # "idle"
        /\ held' \in SUBSET Clients
        /\ backend' = backend /\ workload' = workload /\ call' = call
    BY DEF EffectStep, Effect, Steps
  <1>3. m \in Creates => \A r \in T(c) : r.id # call[c].id
    BY DEF EffectStep, FreshIds, Creating
  <1>4. UniqueIn(T(c))
    BY <1>1 DEF UniqueIds, UniqueIn, T
  <1>5. Allowed(T(c), call[c], o)
    BY DEF EffectStep
  <1>6. o.rows \in SUBSET Row /\ o.answer \in Reply
    BY <1>1, <1>5, AllowedTyped
  <1>7. /\ UniqueIn(o.rows)
        /\ \A s \in o.rows : (\E r \in T(c) : r.id = s.id)
                             \/ (m \in Creates /\ s.id = call[c].id)
        /\ m # "delete_activation" => \A r \in T(c) : \E s \in o.rows : s.id = r.id
    BY <1>1, <1>3, <1>4, <1>5, AllowedIds
  <1> HIDE DEF m, t
  <1>8. TypeOK'
    BY <1>1, <1>2, <1>6 DEF TypeOK
  <1>9. UniqueIds'
    BY <1>1, <1>2, <1>7 DEF UniqueIds, UniqueIn, TypeOK
  <1>10. FreshIds'
    <2> SUFFICES ASSUME NEW d \in Clients, Creating(d)'
                 PROVE  /\ \A r \in T(d)' : r.id # call[d].id
                        /\ \A e \in Clients \ {d} :
                              Creating(e)' => call[e].id # call[d].id
      BY <1>2 DEF FreshIds
    <2>1. d # c /\ Creating(d)
      BY <1>2 DEF Creating, TypeOK, EffectStep
    <2>2. \A e \in Clients : Creating(e)' => Creating(e)
      BY <1>2 DEF Creating, TypeOK, EffectStep
    <2>3. \A r \in T(d)' : r.id # call[d].id
      <3>1. CASE TableOf(call[d].method) = t
        <4>1. T(d)' = o.rows /\ T(d) = T(c)
          BY <1>1, <1>2, <3>1 DEF T, TypeOK, t, m
        <4>2. m \in Creates => call[d].id # call[c].id
          BY <2>1 DEF FreshIds, Creating, EffectStep, m
        <4> QED
          BY <1>7, <2>1, <4>1, <4>2 DEF FreshIds
      <3>2. CASE TableOf(call[d].method) # t
        <4>1. T(d)' = T(d)
          BY <1>2, <3>2 DEF T, TypeOK
        <4> QED
          BY <2>1, <4>1 DEF FreshIds
      <3> QED
        BY <3>1, <3>2
    <2> QED
      BY <2>1, <2>2, <2>3 DEF FreshIds
  <1>11. PendingOK'
    <2> SUFFICES ASSUME NEW d \in Clients, pc'[d] \in {"reacquire", "select"}
                 PROVE  /\ call[d].method \in Revokes
                        /\ (\A r \in T(d)' : ~Wanted(call[d], r)) =>
                               reply'[d] = Refused("not_found")
      BY <1>2 DEF PendingOK
    <2>1. call[d].method \in Revokes
      BY <1>2 DEF PendingOK, TypeOK, EffectStep
    <2>2. call[d].method \in Methods /\ call[d] \in Requests(call[d].method)
          /\ T(d) \in SUBSET Row
      BY <1>2, InCall DEF TypeOK, EffectStep
    <2>3. \A r : Wanted(call[d], r) <=> r.id = call[d].id
      BY <2>1, <2>2, RequestTyped DEF Wanted
    <2>4. (\A r \in T(d)' : ~Wanted(call[d], r)) =>
              \A r \in T(d) : ~Wanted(call[d], r)
      <3>1. CASE TableOf(call[d].method) = t
        <4>1. T(d)' = o.rows /\ T(d) = T(c)
          BY <1>1, <1>2, <3>1 DEF T, TypeOK, t, m
        <4>2. m # "delete_activation"
          BY <2>1, <2>2, <3>1, TableTyped DEF t
        <4> QED
          BY <1>7, <2>3, <4>1, <4>2
      <3>2. CASE TableOf(call[d].method) # t
        BY <1>2, <3>2 DEF T, TypeOK
      <3> QED
        BY <3>1, <3>2
    <2>5. CASE d = c
      <3>1. Revoked(T(c), call[c], o)
        BY <1>5, <2>1, <2>5 DEF Allowed, Created, FoundOne, Listed, Touched,
           Deleted, Revokes, Creates, Finds, Lists
      <3>2. (\A r \in T(c) : ~Wanted(call[c], r)) => Hits(T(c), call[c]) = {}
        BY DEF Hits
      <3>3. reply'[c] = o.answer
        BY <1>2 DEF TypeOK
      <3> QED
        BY <2>1, <2>4, <2>5, <3>1, <3>2, <3>3 DEF Revoked
    <2>6. CASE d # c
      <3>1. pc[d] = pc'[d] /\ reply'[d] = reply[d]
        BY <1>2, <2>6 DEF TypeOK
      <3> QED
        BY <2>1, <2>4, <3>1 DEF PendingOK
    <2> QED
      BY <2>5, <2>6
  <1> QED
    BY <1>8, <1>9, <1>10, <1>11

\* Every step of Run and RunInMemory is such a step, on either backend.
LEMMA RunAllowed ==
  ASSUME CallsOK, NEW c \in Clients, Run(c) \/ RunInMemory(c)
  PROVE  \E o, step : EffectStep(c, o, step)
  <1> USE DEF CallsOK
  <1>1. /\ pc[c] \in {"acquire", "run"}
        /\ call[c].method \in Methods
    BY InCall DEF Run, RunInMemory
  <1>2. held \in SUBSET Clients
    BY DEF TypeOK
  <1>3. CASE Run(c)
    <2>1. PICK o \in Sql!Statement(T(c), call[c]) : Effect(c, o)
      BY <1>3 DEF Run
    <2>2. Allowed(T(c), call[c], o)
      BY <1>1, <2>1, SqlAllowed
    <2>3. PICK step \in {"reacquire", "select", "done"} :
             /\ pc' = [pc EXCEPT ![c] = step]
             /\ step # "done" => call[c].method \in Revokes
             /\ held' \in SUBSET Clients
             /\ UNCHANGED <<backend, workload, call>>
      BY <1>2, <1>3 DEF Run, Proceed, Revokes
    <2>4. EffectStep(c, o, step)
      BY <1>1, <2>1, <2>2, <2>3 DEF EffectStep
    <2> QED
      BY <2>4
  <1>4. CASE RunInMemory(c)
    <2>1. PICK o \in Memory!Method(T(c), call[c]) : Effect(c, o)
      BY <1>4 DEF RunInMemory
    <2>2. call[c].method \in Creates => \A r \in T(c) : r.id # call[c].id
      BY <1>1 DEF FreshIds, Creating
    <2>3. Allowed(T(c), call[c], o)
      BY <1>1, <2>1, <2>2, MemoryAllowed
    <2>4. /\ pc' = [pc EXCEPT ![c] = "done"] /\ held' = held
          /\ UNCHANGED <<backend, workload, call>>
      BY <1>4 DEF RunInMemory, Proceed
    <2>5. EffectStep(c, o, "done")
      BY <1>1, <1>2, <2>1, <2>3, <2>4 DEF EffectStep
    <2> QED
      BY <2>5
  <1> QED
    BY <1>3, <1>4

\* A row read again is one of the table, which stays as it is.
LEMMA SelectReads ==
  ASSUME CallsOK, NEW c \in Clients, Select(c)
  PROVE  /\ db' = db /\ pc' = [pc EXCEPT ![c] = "done"] /\ pc[c] = "select"
         /\ held' = held /\ UNCHANGED <<backend, workload, call>>
         /\ \/ \E r \in Hits(T(c), call[c]) : reply' = [reply EXCEPT ![c] = Ok({r})]
            \/ Hits(T(c), call[c]) = {} /\ reply' = reply
  <1> USE DEF CallsOK
  <1>1. PICK o \in Sql!SelectOne(T(c), call[c]) : Effect(c, o)
    BY DEF Select
  <1>2. pc[c] = "select" /\ Proceed(c, "done", held)
    BY DEF Select
  <1>3. o.rows = T(c)
    BY <1>1, SqlSelectOne
  <1>4. db' = db
    BY <1>1, <1>2, <1>3, InCall DEF Effect, T, TypeOK
  <1>5. CASE Hits(T(c), call[c]) = {}
    <2>1. o.answer = Refused("not_found")
      BY <1>1, <1>5, SqlSelectOne
    <2>2. reply[c] = Refused("not_found")
      BY <1>2, <1>5 DEF PendingOK, Hits
    <2>3. reply' = reply
      BY <1>1, <2>1, <2>2 DEF Effect, TypeOK
    <2> QED
      BY <1>2, <1>4, <1>5, <2>3 DEF Proceed
  <1>6. CASE Hits(T(c), call[c]) # {}
    <2>1. PICK r \in Hits(T(c), call[c]) : o.answer = Ok({r})
      BY <1>1, <1>6, SqlSelectOne
    <2>2. reply' = [reply EXCEPT ![c] = Ok({r})]
      BY <1>1, <2>1 DEF Effect
    <2> QED
      BY <1>2, <1>4, <2>2 DEF Proceed
  <1> QED
    BY <1>5, <1>6

\* So does reading a revoked row again,
LEMMA SelectInv ==
  ASSUME CallsOK, NEW c \in Clients, Select(c)
  PROVE  CallsOK'
  <1> USE DEF CallsOK
  <1>1. /\ db' = db /\ pc' = [pc EXCEPT ![c] = "done"] /\ pc[c] = "select"
        /\ held' = held /\ UNCHANGED <<backend, workload, call>>
    BY SelectReads
  <1>2. reply' \in [Clients -> Reply]
        /\ \A d \in Clients \ {c} : reply'[d] = reply[d]
    <2>1. Hits(T(c), call[c]) \subseteq Row
      BY <1>1, InCall DEF Hits
    <2>2. \A S \in SUBSET Row : Ok(S) \in Reply
      BY DEF Ok, Reply
    <2>3. CASE reply' = reply
      BY <2>3 DEF TypeOK
    <2>4. CASE \E r \in Hits(T(c), call[c]) : reply' = [reply EXCEPT ![c] = Ok({r})]
      BY <2>1, <2>2, <2>4 DEF TypeOK
    <2> QED
      BY <2>3, <2>4, SelectReads
  <1>3. TypeOK'
    BY <1>1, <1>2 DEF TypeOK, Steps
  <1>4. UniqueIds'
    BY <1>1 DEF UniqueIds
  <1>5. FreshIds'
    <2>1. \A d \in Clients : Creating(d)' => Creating(d)
      BY <1>1 DEF Creating, TypeOK
    <2> QED
      BY <1>1, <2>1 DEF FreshIds, T
  <1>6. PendingOK'
    BY <1>1, <1>2 DEF PendingOK, T, TypeOK
  <1> QED
    BY <1>3, <1>4, <1>5, <1>6

\* a new call, whose id is drawn fresh if it needs one,
LEMMA AskInv ==
  ASSUME CallsOK, NEW c \in Clients, Ask(c)
  PROVE  CallsOK'
  <1> USE DEF CallsOK
  <1>1. PICK m \in workload : \E q \in Requests(m) :
            /\ m \in Creates => Fresh(q.id, TableOf(m))
            /\ call' = [call EXCEPT ![c] = q]
    BY DEF Ask
  <1>2. PICK q \in Requests(m) : /\ m \in Creates => Fresh(q.id, TableOf(m))
                                /\ call' = [call EXCEPT ![c] = q]
    BY <1>1
  <1>3. /\ pc[c] = "idle" /\ pc' = [pc EXCEPT ![c] = "acquire"]
        /\ UNCHANGED <<backend, workload, db, held, reply>>
    BY DEF Ask
  <1>4. m \in Methods
    BY WorkloadsAssumption DEF TypeOK
  <1>5. q \in Request /\ q.method = m
    BY <1>4, RequestTyped
  <1>6. TypeOK'
    BY <1>2, <1>3, <1>4, <1>5 DEF TypeOK, Steps
  <1>7. UniqueIds'
    BY <1>3 DEF UniqueIds
  <1>8. FreshIds'
    <2>1. call'[c] = q /\ pc'[c] # "idle"
          /\ \A d \in Clients \ {c} : call'[d] = call[d] /\ pc'[d] = pc[d]
      BY <1>2, <1>3 DEF TypeOK
    <2>2. \A d \in Clients \ {c} : Creating(d)' =>
              Creating(d) /\ T(d)' = T(d) /\ pc[d] # "idle"
      BY <1>3, <2>1 DEF Creating, T
    <2>3. Creating(c)' => m \in Creates
      BY <1>5, <2>1 DEF Creating
    <2>4. T(c)' = db[TableOf(m)]
      BY <1>3, <1>5, <2>1 DEF T
    <2>5. ASSUME NEW d \in Clients \ {c}, Creating(c)', Creating(d)'
          PROVE  call[d].id # q.id
      BY <1>2, <2>2, <2>3, <2>5 DEF Fresh
    <2>6. Creating(c)' => \A r \in T(c)' : r.id # q.id
      BY <1>2, <2>3, <2>4 DEF Fresh
    <2> QED
      BY <2>1, <2>2, <2>5, <2>6 DEF FreshIds
  <1>9. PendingOK'
    BY <1>2, <1>3 DEF PendingOK, T, TypeOK
  <1> QED
    BY <1>6, <1>7, <1>8, <1>9

\* a connection taken from the pool,
LEMMA AcquireInv ==
  ASSUME CallsOK, NEW c \in Clients, Acquire(c)
  PROVE  CallsOK'
  <1> USE DEF CallsOK
  <1>1. /\ held' = held \cup {c}
        /\ UNCHANGED <<backend, workload, call, db, reply>>
        /\ \/ pc[c] = "acquire" /\ pc' = [pc EXCEPT ![c] = "run"]
           \/ pc[c] = "reacquire" /\ pc' = [pc EXCEPT ![c] = "select"]
    BY DEF Acquire, Proceed
  <1>2. TypeOK'
    BY <1>1 DEF TypeOK, Steps
  <1>3. UniqueIds'
    BY <1>1 DEF UniqueIds
  <1>4. FreshIds'
    <2>1. \A d \in Clients : Creating(d)' => Creating(d)
      BY <1>1 DEF Creating, TypeOK
    <2> QED
      BY <1>1, <2>1 DEF FreshIds, T
  <1>5. PendingOK'
    <2>1. \A d \in Clients : pc'[d] \in {"reacquire", "select"} =>
              pc[d] \in {"reacquire", "select"}
      BY <1>1 DEF TypeOK
    <2> QED
      BY <1>1, <2>1 DEF PendingOK, T
  <1> QED
    BY <1>2, <1>3, <1>4, <1>5

\* and a call that ends, with its answer or without.
LEMMA EndInv ==
  ASSUME CallsOK, NEW c \in Clients, End(c)
  PROVE  CallsOK'
  <1> USE DEF CallsOK
  <1>1. NoReply \in Reply
    BY DEF NoReply, Refused, Reply
  <1>2. TypeOK'
    BY <1>1 DEF End, TypeOK, Steps
  <1>3. UniqueIds'
    BY DEF End, UniqueIds
  <1>4. \A d \in Clients : pc'[d] # "idle" =>
            /\ pc'[d] = pc[d] /\ call'[d] = call[d] /\ reply'[d] = reply[d]
            /\ T(d)' = T(d)
    BY DEF End, TypeOK, T
  <1>5. FreshIds'
    <2>1. \A d \in Clients : Creating(d)' =>
              Creating(d) /\ call'[d] = call[d] /\ T(d)' = T(d)
      BY <1>4 DEF Creating
    <2> QED
      BY <2>1 DEF FreshIds
  <1>6. PendingOK'
    BY <1>4 DEF PendingOK
  <1> QED
    BY <1>2, <1>3, <1>5, <1>6

\* Every step keeps the invariant.
LEMMA NextInv == CallsOK /\ [Next]_vars => CallsOK'
  <1> SUFFICES ASSUME CallsOK, [Next]_vars PROVE CallsOK'
    OBVIOUS
  <1>1. CASE UNCHANGED vars
    BY <1>1 DEF vars, CallsOK, TypeOK, UniqueIds, FreshIds, Creating, PendingOK, T
  <1>2. CASE Next
    <2>1. PICK c \in Clients : Ask(c) \/ Acquire(c) \/ Step(c) \/ Fail(c)
      BY <1>2 DEF Next
    <2>2. CASE Ask(c)
      BY <2>2, AskInv
    <2>3. CASE Acquire(c)
      BY <2>3, AcquireInv
    <2>4. CASE Run(c) \/ RunInMemory(c)
      BY <2>4, RunAllowed, EffectInv
    <2>5. CASE Select(c)
      BY <2>5, SelectInv
    <2>6. CASE Return(c) \/ Fail(c)
      BY <2>6, EndInv DEF Return, Fail
    <2> QED
      BY <2>1, <2>2, <2>3, <2>4, <2>5, <2>6 DEF Step
  <1> QED
    BY <1>1, <1>2

-----------------------------------------------------------------------------
(* The connections.                                                        *)

\* At the start nobody holds one.
LEMMA InitPool == Init => PoolOK
  <1>1. Cardinality({}) = 0 /\ 0 <= MaxConnections
    BY PoolAssumption, FS_EmptySet
  <1> QED
    BY <1>1 DEF Init, PoolOK

\* A connection more or less.
LEMMA HeldCount ==
  ASSUME TypeOK, NEW c \in Clients
  PROVE  /\ Cardinality(held) \in Nat
         /\ Cardinality(held \cup {c}) \in Nat /\ Cardinality(held \ {c}) \in Nat
         /\ Cardinality(held \cup {c}) <= Cardinality(held) + 1
         /\ Cardinality(held \ {c}) <= Cardinality(held)
  <1>1. IsFiniteSet(held)
    BY PoolAssumption, FS_Subset DEF TypeOK
  <1>2. Cardinality(held) \in Nat
    BY <1>1, FS_CardinalityType
  <1>3. Cardinality(held \cup {c}) = IF c \in held THEN Cardinality(held)
                                    ELSE Cardinality(held) + 1
    BY <1>1, FS_AddElement
  <1>4. Cardinality(held \ {c}) = IF c \in held THEN Cardinality(held) - 1
                                 ELSE Cardinality(held)
    BY <1>1, FS_RemoveElement
  <1>5. Cardinality(held \ {c}) \in Nat
    BY <1>1, FS_Subset, FS_CardinalityType
  <1> QED
    BY <1>2, <1>3, <1>4, <1>5

\* Only Acquire takes a connection, when there is one to take; a client that
\* goes to wait for another has given its own back.
LEMMA NextPool == TypeOK /\ PoolOK /\ [Next]_vars => PoolOK'
  <1> SUFFICES ASSUME TypeOK, PoolOK, [Next]_vars PROVE PoolOK'
    OBVIOUS
  <1>1. MaxConnections \in Nat
    BY PoolAssumption
  <1>2. CASE UNCHANGED vars
    BY <1>2 DEF vars, PoolOK
  <1>3. ASSUME NEW c \in Clients, NEW step \in Steps, pc' = [pc EXCEPT ![c] = step],
               \/ /\ held' = held
                  /\ c \in held => step \in {"run", "select", "done"}
                  /\ step \in {"run", "select"} => c \in held
               \/ /\ held' = held \ {c}
                  /\ step \notin {"run", "select"}
               \/ /\ held' = held \cup {c} /\ Cardinality(held) < MaxConnections
                  /\ step \in {"run", "select"}
        PROVE  PoolOK'
    <2>1. /\ pc'[c] = step
          /\ \A d \in Clients \ {c} : pc'[d] = pc[d] /\ (d \in held' <=> d \in held)
          /\ held \subseteq Clients
      BY <1>3 DEF TypeOK
    <2>2. Cardinality(held') <= MaxConnections
      <3>1. /\ Cardinality(held) \in Nat
            /\ Cardinality(held \cup {c}) <= Cardinality(held) + 1
            /\ Cardinality(held \ {c}) <= Cardinality(held)
            /\ Cardinality(held \cup {c}) \in Nat /\ Cardinality(held \ {c}) \in Nat
        BY HeldCount
      <3>2. CASE held' = held
        BY <3>2 DEF PoolOK
      <3>3. CASE held' = held \ {c}
        BY <1>1, <3>1, <3>3 DEF PoolOK
      <3>4. CASE held' = held \cup {c} /\ Cardinality(held) < MaxConnections
        BY <1>1, <3>1, <3>4
      <3> QED
        BY <1>3, <3>2, <3>3, <3>4
    <2> QED
      BY <1>3, <2>1, <2>2 DEF PoolOK
  <1>4. ASSUME NEW c \in Clients, Ask(c)
        PROVE  PoolOK'
    <2>1. c \notin held
      BY <1>4 DEF Ask, PoolOK
    <2> QED
      BY <1>3, <1>4, <2>1 DEF Ask, Steps
  <1>5. ASSUME NEW c \in Clients, Acquire(c)
        PROVE  PoolOK'
    BY <1>3, <1>5 DEF Acquire, Proceed, Steps
  <1>6. ASSUME NEW c \in Clients, Run(c)
        PROVE  PoolOK'
    <2>1. c \in held
      BY <1>6 DEF Run, PoolOK
    <2> QED
      BY <1>3, <1>6, <2>1 DEF Run, Proceed, Steps
  <1>7. ASSUME NEW c \in Clients, Select(c) \/ RunInMemory(c)
        PROVE  PoolOK'
    BY <1>3, <1>7 DEF Select, RunInMemory, Proceed, Steps
  <1>8. ASSUME NEW c \in Clients, Return(c) \/ Fail(c)
        PROVE  PoolOK'
    BY <1>3, <1>8 DEF Return, Fail, End, Steps
  <1> QED
    BY <1>2, <1>4, <1>5, <1>6, <1>7, <1>8 DEF Next, Step

\* Rows and calls are typed; ids are unique in their tables, those that are
\* about to be inserted too; a revoke between its statements has its answer;
\* and statements run with the connections of the pool and no others.
THEOREM Invariance == Spec => []IInv
  <1>1. Init => IInv
    BY InitInv, InitPool DEF IInv
  <1>2. IInv /\ [Next]_vars => IInv'
    BY NextInv, NextPool DEF IInv, CallsOK
  <1> QED
    BY <1>1, <1>2, PTL DEF Spec

\* With however many clients and however few connections: while somebody waits
\* for the pool, somebody else is at work with a connection of it.
THEOREM PoolNeverStuck == Spec => []NoPoolDeadlock
  <1>1. IInv => NoPoolDeadlock
    <2> SUFFICES ASSUME IInv, Cardinality(held) >= MaxConnections
                 PROVE  \E d \in held : pc[d] \notin {"acquire", "reacquire"}
      BY DEF NoPoolDeadlock
    <2>1. held # {}
      BY PoolAssumption, FS_EmptySet
    <2> QED
      BY <2>1 DEF IInv, PoolOK
  <1> QED
    BY <1>1, Invariance, PTL

-----------------------------------------------------------------------------
(* The refinement.                                                         *)

\* The contract speaks of the same tables, rows and answers.
LEMMA ContractRows ==
  ASSUME NEW q, NEW r
  PROVE  /\ Contract!NewRow(q) = NewRow(q)
         /\ Contract!Wanted(q, r) = Wanted(q, r)
         /\ Contract!Ok(r) = Ok(r) /\ Contract!Refused(r) = Refused(r)
         /\ Contract!TableOf(q) = TableOf(q) /\ Contract!Requests(q) = Requests(q)
  BY DEF Contract!NewRow, NewRow, Contract!Wanted, Wanted, Contract!Ok, Ok,
         Contract!Refused, Refused, Contract!TableOf, TableOf, Contract!Lists,
         Lists, Contract!Requests, Requests

\* It has the same methods,
LEMMA ContractMethods ==
  /\ Contract!Methods = Methods /\ Contract!Creates = Creates
  /\ Contract!Finds = Finds /\ Contract!Lists = Lists
  /\ Contract!Revokes = Revokes /\ Contract!NoReply = NoReply
  BY DEF Contract!Methods, Methods, Contract!Creates, Creates, Contract!Finds,
         Finds, Contract!Lists, Lists, Contract!Revokes, Revokes,
         Contract!NoReply, NoReply, Contract!Refused, Refused

\* and looks for the same rows.
LEMMA ContractFound ==
  ASSUME NEW c
  PROVE  /\ Contract!Taken(c) = T(c)
         /\ Contract!Found(c) = Hits(T(c), call[c])
  BY ContractRows DEF Contract!Taken, Contract!Found, T, Hits

\* How far a call is, when its client takes a step.
LEMMA ProgressStep ==
  ASSUME TypeOK, NEW c \in Clients, NEW step \in Steps,
         pc' = [pc EXCEPT ![c] = step]
  PROVE  /\ step \in {"acquire", "run"} =>
                Progress' = [Progress EXCEPT ![c] = "asked"]
         /\ step \in {"reacquire", "select", "done"} =>
                Progress' = [Progress EXCEPT ![c] = "done"]
         /\ step = "idle" => Progress' = [Progress EXCEPT ![c] = "idle"]
  BY DEF Progress, Steps, TypeOK

\* An allowed outcome is a step of the contract.
LEMMA EffectRefines ==
  ASSUME CallsOK, NEW c \in Clients, NEW o, NEW step, EffectStep(c, o, step)
  PROVE  Contract!Next
  <1> USE DEF CallsOK
  <1> DEFINE q == call[c]
  <1>1. Progress[c] = "asked"
    BY DEF EffectStep, Progress
  <1>2. Progress' = [Progress EXCEPT ![c] = "done"]
    BY ProgressStep DEF EffectStep, Steps
  <1>3. Contract!Takes(c, o.rows, o.answer)
    BY <1>1, <1>2, ContractRows DEF Contract!Takes, EffectStep, Effect
  <1>4. Allowed(T(c), q, o)
    BY DEF EffectStep
  <1> HIDE DEF q
  <1>5. CASE Created(T(c), call[c], o)
    <2>1. {r \in T(c) : r.name = call[c].name /\ r.owner = call[c].owner} # {}
              <=> Namesake(T(c), call[c])
      BY DEF Namesake
    <2>2. Contract!Create(c) \/ Contract!RefusePrefix(c)
      BY <1>3, <1>5, <2>1, ContractRows, ContractMethods, ContractFound
         DEF Created, Clash, Contract!Create, Contract!RefusePrefix
    <2> QED
      BY <1>1, <2>2 DEF Contract!Next
  <1>6. CASE FoundOne(T(c), call[c], o)
    <2>1. Contract!Find(c)
      BY <1>3, <1>6, ContractRows, ContractMethods, ContractFound
         DEF FoundOne, Contract!Find
    <2> QED
      BY <1>1, <2>1 DEF Contract!Next
  <1>7. CASE Listed(T(c), call[c], o)
    <2>1. Contract!List(c)
      BY <1>3, <1>7, ContractRows, ContractMethods, ContractFound
         DEF Listed, Contract!List
    <2> QED
      BY <1>1, <2>1 DEF Contract!Next
  <1>8. CASE Revoked(T(c), call[c], o)
    <2>1. Contract!Revoke(c)
      BY <1>3, <1>8, ContractRows, ContractMethods, ContractFound
         DEF Revoked, RevokedRows, Contract!Revoke
    <2> QED
      BY <1>1, <2>1 DEF Contract!Next
  <1>9. CASE Touched(T(c), call[c], o)
    <2>1. Contract!Touch(c)
      BY <1>3, <1>9, ContractRows, ContractMethods, ContractFound
         DEF Touched, TouchedRows, Contract!Touch
    <2> QED
      BY <1>1, <2>1 DEF Contract!Next
  <1>10. CASE Deleted(T(c), call[c], o)
    <2>1. Contract!Delete(c)
      BY <1>3, <1>10, ContractRows, ContractMethods, ContractFound
         DEF Deleted, Contract!Delete
    <2> QED
      BY <1>1, <2>1 DEF Contract!Next
  <1> QED
    BY <1>4, <1>5, <1>6, <1>7, <1>8, <1>9, <1>10 DEF Allowed, q

\* A second statement that finds the row reads it again; one that does not
\* changes nothing the caller could see.
LEMMA SelectRefines ==
  ASSUME CallsOK, NEW c \in Clients, Select(c)
  PROVE  [Contract!Next]_(Contract!vars)
  <1> USE DEF CallsOK
  <1>1. /\ db' = db /\ pc' = [pc EXCEPT ![c] = "done"] /\ pc[c] = "select"
        /\ call' = call
    BY SelectReads
  <1>2. Progress[c] = "done" /\ Progress' = Progress
    BY <1>1, ProgressStep DEF Progress, Steps, TypeOK
  <1>3. CASE reply' = reply
    BY <1>1, <1>2, <1>3 DEF Contract!vars
  <1>4. CASE \E r \in Hits(T(c), call[c]) : reply' = [reply EXCEPT ![c] = Ok({r})]
    <2>1. PICK r \in Hits(T(c), call[c]) : reply' = [reply EXCEPT ![c] = Ok({r})]
      BY <1>4
    <2>2. call[c].method \in Methods /\ call[c] \in Requests(call[c].method)
          /\ TableOf(call[c].method) \in Tables
      BY <1>1, InCall
    <2>3. call[c].method \in Revokes
      BY <1>1 DEF PendingOK
    <2>4. \A s : Wanted(call[c], s) <=> s.id = call[c].id
      BY <2>2, <2>3, RequestTyped DEF Wanted
    <2>5. Hits(T(c), call[c]) = {r}
      BY <2>2, <2>4 DEF Hits, UniqueIds, T
    <2>6. Contract!Reread(c)
      BY <1>1, <1>2, <2>1, <2>3, <2>5, ContractRows, ContractMethods,
         ContractFound DEF Contract!Reread
    <2> QED
      BY <2>6 DEF Contract!Next
  <1> QED
    BY <1>3, <1>4, SelectReads

\* Every step is a step of the contract or none.
LEMMA NextRefines ==
  ASSUME CallsOK, [Next]_vars
  PROVE  [Contract!Next]_(Contract!vars)
  <1>1. CASE UNCHANGED vars
    BY <1>1 DEF vars, Contract!vars, Progress
  <1>2. CASE Next
    <2>1. PICK c \in Clients : Ask(c) \/ Acquire(c) \/ Step(c) \/ Fail(c)
      BY <1>2 DEF Next
    <2>2. CASE Ask(c)
      <3>1. PICK m \in workload : \E q \in Requests(m) : call' = [call EXCEPT ![c] = q]
        BY <2>2 DEF Ask
      <3>2. m \in Methods
        BY WorkloadsAssumption DEF CallsOK, TypeOK
      <3>3. /\ Progress[c] = "idle" /\ Progress' = [Progress EXCEPT ![c] = "asked"]
            /\ db' = db /\ reply' = reply
        BY <2>2, ProgressStep DEF Ask, Progress, Steps, CallsOK
      <3>4. Contract!Ask(c)
        BY <3>1, <3>2, <3>3, ContractRows, ContractMethods DEF Contract!Ask
      <3> QED
        BY <3>4 DEF Contract!Next
    <2>3. CASE Acquire(c)
      <3>1. /\ db' = db /\ call' = call /\ reply' = reply
            /\ \/ pc[c] = "acquire" /\ pc' = [pc EXCEPT ![c] = "run"]
               \/ pc[c] = "reacquire" /\ pc' = [pc EXCEPT ![c] = "select"]
        BY <2>3 DEF Acquire, Proceed
      <3>2. Progress' = Progress
        BY <3>1, ProgressStep DEF Progress, Steps, CallsOK, TypeOK
      <3> QED
        BY <3>1, <3>2 DEF Contract!vars
    <2>4. CASE Run(c) \/ RunInMemory(c)
      BY <2>4, RunAllowed, EffectRefines
    <2>5. CASE Select(c)
      BY <2>5, SelectRefines
    <2>6. CASE Return(c) \/ Fail(c)
      <3>1. pc[c] # "idle" /\ End(c)
        BY <2>6 DEF Return, Fail
      <3>2. Progress[c] # "idle" /\ Progress' = [Progress EXCEPT ![c] = "idle"]
        BY <3>1, ProgressStep DEF End, Progress, Steps, CallsOK
      <3>3. Contract!End(c)
        BY <3>1, <3>2, ContractMethods DEF End, Contract!End
      <3> QED
        BY <3>3 DEF Contract!Next
    <2> QED
      BY <2>1, <2>2, <2>3, <2>4, <2>5, <2>6 DEF Step
  <1> QED
    BY <1>1, <1>2

\* Either backend implements the storage contract, for any pool and any
\* number of clients: whatever runs beside it, and wherever it breaks off, a
\* call takes effect at one moment or fails.
THEOREM Refinement == Spec => ImplementsContract
  <1>1. Init => Contract!Init
    <2>1. Contract!Tables = Tables
      BY ContractMethods, ContractRows DEF Contract!Tables, Tables
    <2> QED
      BY <2>1, ContractMethods DEF Init, Contract!Init, Progress
  <1>2. CallsOK /\ [Next]_vars => [Contract!Next]_(Contract!vars)
    BY NextRefines
  <1>3. IInv => CallsOK
    BY DEF IInv
  <1> QED
    BY <1>1, <1>2, <1>3, Invariance, PTL DEF Spec, ImplementsContract, Contract!Spec
=============================================================================
