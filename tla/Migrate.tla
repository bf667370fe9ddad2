------------------------------ MODULE Migrate ------------------------------
(***************************************************************************)
(* The database comes into being (cmd/migrate, internal/db/migrations)     *)
(* while servers may already use it (readyz, createTodo).                  *)
(*                                                                         *)
(* A migrator lists the Goose migrations that are not in the version table,*)
(* applies each of them in a transaction of its own, which also writes the *)
(* version, and then has River do the same for its tables.  No session lock*)
(* is asked for: two migrators may list the same migrations.  The first and*)
(* the third cannot be applied twice, so the slower migrator fails; but the *)
(* second can be applied again after the third has undone it.  A migrator  *)
(* may also be cut off anywhere, by its sixty seconds or by a crash, and is*)
(* run again.                                                              *)
(*                                                                         *)
(* A todo's body is a short sequence of letters, white space and what no   *)
(* text in PostgreSQL can hold: what Go trims, what SQL trims, what both   *)
(* count and what cannot be sent is all that matters of it.                *)
(***************************************************************************)
EXTENDS Naturals, Sequences, FiniteSetsExt

CONSTANTS Migrators,    \* runs of cmd/migrate
          Bodies,       \* what clients may send as the body of a todo
          SeedBodies,   \* the items that the first migration inserts
          MaxBody,      \* appmodel.MaxTodoBodyLength, 280 in the migrations too
          RiverLatest,  \* River's migrations; the second creates river_job
          MaxFailures   \* BOUND: how often migrators are cut off

\* "nul" stands for NUL and for bytes that are not UTF-8.
Chars == {"x", "space", "tab", "nul"}

ASSUME MigrateAssumption ==
    /\ Bodies \subseteq Seq(Chars) /\ SeedBodies \subseteq Bodies
    /\ MaxBody \in Nat /\ RiverLatest \in Nat /\ MaxFailures \in Nat

VARIABLES
    versions,  \* the rows of goose_db_version
    schema,    \* the tables and constraints there are
    inserted,  \* how often the seed rows were inserted
    bodies,    \* the bodies in todos
    river,     \* River migrations applied so far
    pc,        \* where each migrator is
    pending,   \* the Goose migrations it has listed and not yet applied
    failures

dbVars == <<versions, schema, inserted, bodies, river>>
vars == <<dbVars, pc, pending, failures>>

Objects == {"tables", "notBlank", "trimLength", "maxLength"}

Init ==
    /\ versions = {} /\ schema = {} /\ inserted = 0 /\ bodies = {} /\ river = 0
    /\ pc = [m \in Migrators |-> "start"]
    /\ pending = [m \in Migrators |-> {}]
    /\ failures = 0

-----------------------------------------------------------------------------
(* Bodies                                                                  *)

Trim(body, white) ==
    LET kept == {i \in 1..Len(body) : body[i] \notin white} IN
    IF kept = {} THEN <<>> ELSE SubSeq(body, Min(kept), Max(kept))

\* strings.TrimSpace removes all white space, trim() of SQL spaces only.
TrimSpace(body) == Trim(body, {"space", "tab"})
SqlTrim(body) == Trim(body, {"space"})

\* Mutation of IsTooLong: one character more than the constraint allows.
IsTooLongByOne(body) == Len(body) > MaxBody + 1

IsTooLong(body) == Len(body) > MaxBody

validateTodoBody(body) == TrimSpace(body) # <<>> /\ ~IsTooLong(TrimSpace(body))

\* What a value of PostgreSQL's type text can be.
IsText(body) == \A i \in DOMAIN body : body[i] # "nul"

\* The three seed rows are such texts, without white space around them.
ASSUME SeedAssumption ==
    \A body \in SeedBodies : validateTodoBody(body) /\ TrimSpace(body) = body /\ IsText(body)

\* What CreateTodo inserts for a body that was sent.
Stored(body) == SqlTrim(TrimSpace(body))

Holds(constraint, body) ==
    CASE constraint = "notBlank"   -> Len(SqlTrim(body)) > 0
      [] constraint = "trimLength" -> Len(SqlTrim(body)) \in 1..MaxBody
      [] constraint = "maxLength"  -> Len(SqlTrim(body)) <= MaxBody
      [] OTHER                     -> TRUE

Accepts(constraints, body) == \A c \in constraints : Holds(c, body)

\* createTodo: what is no text and a constraint that does not hold make the INSERT
\* fail; the former is not looked for, and answered with an internal error.
CreateTodo(body) ==
    /\ validateTodoBody(body)
    /\ IsText(TrimSpace(body))
    /\ "tables" \in schema
    /\ Accepts(schema, Stored(body))
    /\ bodies' = bodies \cup {Stored(body)}
    /\ UNCHANGED <<versions, schema, inserted, river, pc, pending, failures>>

-----------------------------------------------------------------------------
(* Migrations                                                              *)

Drops == <<{}, {}, {"trimLength"}>>
Adds == <<{"tables", "notBlank"}, {"trimLength"}, {"maxLength"}>>

\* What exists cannot be created, what does not exist cannot be dropped, and a
\* constraint that is added is checked against every row.
Applies(v) ==
    /\ Adds[v] \cap schema = {}
    /\ Drops[v] \subseteq schema
    /\ v > 1 => "tables" \in schema
    /\ \A c \in Adds[v], b \in bodies : Holds(c, b)

\* Mutation of Recorded: the version is written after the transaction, which a
\* crash may prevent.
RecordedSeparately(v) == {versions, versions \cup {v}}

Recorded(v) == {versions \cup {v}}

\* Mutation of Order.
RiverFirst == <<"river", "goose">>

\* The two halves of main.
Order == <<"goose", "river">>

Goto(m, place) == pc' = [pc EXCEPT ![m] = place]

After(half) == IF half = Order[1] THEN Order[2] ELSE "done"

Fails(m) == Goto(m, "failed") /\ UNCHANGED <<dbVars, pending, failures>>

\* provider.Up lists what there is to do when it is called.
Start(m) ==
    /\ pc[m] = "start"
    /\ Goto(m, Order[1])
    /\ pending' = [pending EXCEPT ![m] = 1..3 \ versions]
    /\ UNCHANGED <<dbVars, failures>>

ApplyNext(m) ==
    LET v == Min(pending[m]) IN
    /\ pc[m] = "goose" /\ pending[m] # {}
    /\ Applies(v)
    /\ schema' = (schema \ Drops[v]) \cup Adds[v]
    /\ versions' \in Recorded(v)
    /\ bodies' = IF v = 1 THEN SeedBodies ELSE bodies
    /\ inserted' = IF v = 1 THEN inserted + 1 ELSE inserted
    /\ pending' = [pending EXCEPT ![m] = @ \ {v}]
    /\ UNCHANGED <<river, pc, failures>>

ApplyFails(m) ==
    /\ pc[m] = "goose" /\ pending[m] # {}
    /\ ~Applies(Min(pending[m]))
    /\ Fails(m)

UpReturns(m) ==
    /\ pc[m] = "goose" /\ pending[m] = {}
    /\ Goto(m, After("goose"))
    /\ UNCHANGED <<dbVars, pending, failures>>

\* rivermigrate: one transaction for each version.
MigrateRiver(m) ==
    /\ pc[m] = "river"
    /\ IF river < RiverLatest
       THEN river' = river + 1 /\ pc' = pc
       ELSE river' = river /\ Goto(m, After("river"))
    /\ UNCHANGED <<versions, schema, inserted, bodies, pending, failures>>

\* Another migrator was faster.
RiverFails(m) ==
    /\ pc[m] = "river"
    /\ \E other \in Migrators \ {m} : pc[other] = "river"
    /\ river < RiverLatest
    /\ river' = river + 1
    /\ Goto(m, "failed")
    /\ UNCHANGED <<versions, schema, inserted, bodies, pending, failures>>

CutOff(m) ==
    /\ pc[m] \in {"goose", "river"}
    /\ failures < MaxFailures
    /\ failures' = failures + 1
    /\ Goto(m, "failed")
    /\ UNCHANGED <<dbVars, pending>>

RunAgain(m) == pc[m] \in {"failed", "done"} /\ Goto(m, "start") /\ UNCHANGED <<dbVars, pending, failures>>

Run(m) ==
    \/ Start(m) \/ ApplyNext(m) \/ ApplyFails(m) \/ UpReturns(m)
    \/ MigrateRiver(m) \/ RiverFails(m)

Next ==
    \/ \E m \in Migrators : Run(m) \/ CutOff(m) \/ RunAgain(m)
    \/ \E body \in Bodies : CreateTodo(body)

(***************************************************************************)
(* A migrator runs to its end, and one that failed is run again.           *)
(***************************************************************************)
Fairness ==
    \A m \in Migrators : WF_vars(Run(m)) /\ WF_vars(pc[m] = "failed" /\ RunAgain(m))

Spec == Init /\ [][Next]_vars /\ Fairness

-----------------------------------------------------------------------------
\* The type invariant; a stored body is a trimmed text.
TypeOK ==
    /\ versions \in SUBSET (1..3)
    /\ schema \in SUBSET Objects
    /\ inserted \in Nat
    /\ \A b \in bodies : b \in Seq(Chars) /\ TrimSpace(b) = b /\ IsText(b)
    /\ river \in 0..RiverLatest
    /\ pc \in [Migrators -> {"start", "goose", "river", "done", "failed"}]
    /\ pending \in [Migrators -> SUBSET (1..3)]
    /\ failures \in 0..MaxFailures

\* What the migrations up to n leave behind.
SchemaAt(n) ==
    {o \in UNION {Adds[v] : v \in 1..n} : \A v \in 1..n : o \in Drops[v] => o \in Adds[v]}

\* Wherever migrators are cut off and whoever else runs, the version table tells
\* what the database accepts, and the seed rows were inserted once (00001-00003;
\* main.go:38-57).  The schema may hold more than its versions ask for: a slow
\* migrator can bring back the constraint that the third migration dropped, and
\* then it accepts what it accepted without it.
VersionsTellSchema ==
    \E n \in 0..3 :
        /\ versions = 1..n
        /\ SchemaAt(n) \subseteq schema
        /\ \A body \in Bodies : Accepts(schema, body) <=> Accepts(SchemaAt(n), body)
        /\ inserted = IF n = 0 THEN 0 ELSE 1

\* What validateTodoBody lets pass no constraint refuses, whatever has been migrated,
\* although Go and SQL disagree about white space; a body that is no text at all the
\* database refuses on other grounds.  And so no row stops a migration that is
\* still to come (app.go:475-485; 00002:2-4; 00003:2-5).
NoConstraintRefuses ==
    /\ \A body \in Bodies : validateTodoBody(body) => Accepts(schema, Stored(body))
    /\ \A v \in 1..3 \ versions : \A body \in bodies : Accepts(Adds[v], body)

\* readyz: todos and app_events, and river_job.
Ready == "tables" \in schema /\ river >= 2

\* When a server of a database that began empty reports that it is ready, no Goose
\* migration is missing, although readyz looks for tables only: those of River,
\* whose later migrations it does not wait for, come after them (app.go:108-125).
ReadyMeansMigrated == Ready => versions = 1..3

\* However migrators are cut off and get in each other's way, the database comes
\* to be ready for good.
ComesToBeReady == <>[](Ready /\ versions = 1..3 /\ river = RiverLatest)
=============================================================================
