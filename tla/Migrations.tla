----------------------------- MODULE Migrations -----------------------------
(***************************************************************************)
(* alembic over one database: upgrades one revision at a time to the head  *)
(* and downgrades one at a time (Makefile migrate and migrate-down), each  *)
(* revision in a transaction of its own.  A run may stop, or be stopped,   *)
(* after any of its revisions; a revision with a statement that fails is   *)
(* rolled back, and the run ends.                                          *)
(***************************************************************************)
EXTENDS Naturals, FiniteSets, SequencesExt, Revisions, Models

VARIABLES
    version,  \* the revisions that are applied (alembic_version)
    schema,   \* the tables, columns and value checks of the database
    floor     \* history: the lowest version a downgrade has led to

migrating == <<version, schema, floor>>

HEAD == Len(Revisions)

Kinds == {"create", "ensure", "drop", "discard", "needs", "add", "supply",
          "withdraw", "lose", "rename", "renameany", "check", "uncheck"}

\* The chain is made of statements of these kinds.  There is no constant in
\* this, so that its evaluation settles it.
ASSUME RevisionsAssumption ==
    /\ HEAD \in Nat /\ DOMAIN Revisions = 1..HEAD
    /\ \A n \in DOMAIN Revisions : \A L \in {Revisions[n].up, Revisions[n].down} :
         /\ Len(L) \in Nat /\ DOMAIN L = 1..Len(L)
         /\ \A k \in DOMAIN L : L[k].do \in Kinds

\* made: the revision that made a table; "none" in ok: a statement failed.
Empty == [made |-> <<>>, columns |-> {}, checks |-> {}, ok |-> TRUE]

Stopped(s) == [s EXCEPT !.ok = FALSE]

Exist(s, ts) == ts \subseteq DOMAIN s.made

Without(s, ts) ==
    [s EXCEPT !.made = [t \in DOMAIN s.made \ ts |-> s.made[t]],
              !.columns = {c \in @ : c[1] \notin ts},
              !.checks = {c \in @ : c[1] \notin ts}]

With(s, ts, n) ==
    [s EXCEPT !.made = [t \in DOMAIN s.made \cup ts |->
                          IF t \in ts THEN n ELSE s.made[t]]]

\* Foreign keys that a DROP TABLE without CASCADE can run into.
References == {<<"loans", "orders">>, <<"orders", "products">>}

Referred(s, ts) ==
    \E r \in References :
        /\ r[1] \in DOMAIN s.made \ ts /\ r[2] \in ts
        /\ r = <<"orders", "products">> => <<"orders", "product_id">> \in s.columns

Tables(cs) == {c[1] : c \in cs}
Renamed(s, names) ==
    [s EXCEPT !.columns = (@ \ {<<n[1], n[2]>> : n \in names})
                            \cup {<<n[1], n[3]>> : n \in names}]

\* What a statement of revision n makes of the schema; no statement follows
\* one that failed.
Execute(s, statement, n) ==
    LET what == statement.what
        does(do) == statement.do = do
    IN  IF ~s.ok THEN s ELSE
        CASE does("create") ->
               IF \E t \in what : Exist(s, {t}) THEN Stopped(s)
               ELSE With(s, what, n)
          [] does("ensure") -> With(s, what \ DOMAIN s.made, n)
          [] does("drop") ->
               IF Exist(s, what) /\ ~Referred(s, what) THEN Without(s, what)
               ELSE Stopped(s)
          [] does("discard") -> Without(s, what)
          [] does("needs") -> IF Exist(s, what) THEN s ELSE Stopped(s)
          [] does("add") ->
               IF Exist(s, Tables(what)) /\ what \cap s.columns = {}
               THEN [s EXCEPT !.columns = @ \cup what] ELSE Stopped(s)
          [] does("supply") ->
               IF Exist(s, Tables(what))
               THEN [s EXCEPT !.columns = @ \cup what] ELSE Stopped(s)
          [] does("withdraw") ->
               IF what \subseteq s.columns
               THEN [s EXCEPT !.columns = @ \ what] ELSE Stopped(s)
          [] does("lose") ->
               IF Exist(s, Tables(what))
               THEN [s EXCEPT !.columns = @ \ what] ELSE Stopped(s)
          [] does("rename") ->
               IF {<<m[1], m[2]>> : m \in what} \subseteq s.columns
               THEN Renamed(s, what) ELSE Stopped(s)
          [] does("renameany") ->
               Renamed(s, {m \in what : <<m[1], m[2]>> \in s.columns})
          [] does("check") ->
               IF Exist(s, Tables(what))
               THEN [s EXCEPT !.checks =
                       {c \in @ : \A k \in what : c[1] # k[1] \/ c[2] # k[2]}
                         \cup what]
               ELSE Stopped(s)
          [] does("uncheck") ->
               [s EXCEPT !.checks = {c \in @ : <<c[1], c[2]>> \notin what}]

\* The statements of one direction of revision n, in order.
Run(s, statements, n) ==
    FoldLeft(LAMBDA x, statement : Execute(x, statement, n), s, statements)

Skipped(s, n) == Revisions[n].skip \cap DOMAIN s.made # {}

Upgraded(s, n) ==
    IF Skipped(s, n) THEN s ELSE Run(s, Revisions[n].up, n)

Downgraded(s, n) == Run(s, Revisions[n].down, n)

----------------------------------------------------------------------------
MigrationInit ==
    /\ version = 0
    /\ schema = Empty
    /\ floor = HEAD

\* A step of "alembic upgrade head".
Upgrade ==
    /\ version < HEAD
    /\ LET s == Upgraded(schema, version + 1)
       IN  s.ok /\ schema' = s
    /\ version' = version + 1
    /\ UNCHANGED floor

\* "alembic downgrade -1".
Downgrade ==
    /\ version > 0
    /\ LET s == Downgraded(schema, version)
       IN  s.ok /\ schema' = s
    /\ version' = version - 1
    /\ floor' = IF version' < floor THEN version' ELSE floor

MigrationNext == Upgrade \/ Downgrade

MigrationSpec == MigrationInit /\ [][MigrationNext]_migrating

----------------------------------------------------------------------------
UpgradedFrom(s, revisions) ==
    FoldLeft(LAMBDA x, n : Upgraded(x, n), s, revisions)

\* The schema of a database that was only ever upgraded, at 045 and at the head.
Halfway == UpgradedFrom(Empty, [n \in 1..45 |-> n])
Fresh == UpgradedFrom(Halfway, [n \in 1..(HEAD - 45) |-> n + 45])

\* The type invariant; what is left of the schema belongs to its tables.
MigrationTypeOK ==
    /\ version \in 0..HEAD /\ floor \in 0..HEAD
    /\ schema.ok
    /\ \A t \in DOMAIN schema.made : schema.made[t] \in 1..HEAD
    /\ \A c \in schema.columns \cup schema.checks : c[1] \in DOMAIN schema.made

\* A database that downgrades have not taken below revision 029 can always be
\* upgraded to the head again, and has there the tables, columns and value
\* checks of one that was only upgraded: no downgrade of 030 to 092 leaves
\* behind, or takes away, what the upgrades after it build on.  (The downgrades
\* of 032 and 033 do not bring back the tables they replaced: 029 fails then.)
RollForward ==
    floor >= 29 =>
      /\ version < HEAD => Upgraded(schema, version + 1).ok
      /\ version = HEAD => schema = Fresh

Admits(write) ==
    \A c \in schema.checks :
        c[1] = write[1] /\ c[2] = write[2] => write[3] \in c[3]

\* README.md:41 and 45: the shared models and the migrations are each "the
\* single source of truth" of the one schema, so a database at the head has
\* the tables and columns that the models map, and takes the values that the
\* handlers write.
HeadServesServices ==
    version = HEAD =>
      /\ ModelTables \subseteq DOMAIN schema.made
      /\ ModelColumns \subseteq schema.columns
      /\ \A write \in Writes : Admits(write)
=============================================================================
