----------------------------- MODULE SchemaGuard -----------------------------
(***************************************************************************)
(* The database schema and the processes that serve from it: the alembic    *)
(* revisions (migrations/versions), the bootstrap that drives them          *)
(* (scripts/bootstrap_dev.py) and the check every process makes once, when  *)
(* it starts (app/schema_guard.py).                                         *)
(*                                                                         *)
(* A release of the code is numbered by the head of its migrations, so      *)
(* release 3 expects the database at revision 3.  Nothing stops a running   *)
(* process when the database or the code on disk changes under it, and on   *)
(* SQLite, the default, the statements of an upgrade, a downgrade or a      *)
(* reset that dies stay, whatever alembic_version says.                     *)
(***************************************************************************)
EXTENDS Naturals, Sequences

CONSTANTS
    Releases,   \* the releases that were, or may be, put on disk
    Deaths      \* bound: after how many statements a command may die

ASSUME ReleasesAssumption == Releases \subseteq 1..4
ASSUME DeathsAssumption == Deaths \subseteq Nat \ {0}

VARIABLES
    schema,     \* the tables there are, and the columns a revision adds to one
    revision,   \* the row of alembic_version, 0 when there is none
    release,    \* the release on disk
    serving,    \* per process the release it runs, 0 when it is down
    torn        \* what a removal that died took of the recorded revision

schemaVars == <<schema, revision, release, serving, torn>>

Processes == {"api", "worker"}

-----------------------------------------------------------------------------
(* What the revisions create, in the order of their statements.  Columns of  *)
(* a new table come with it; "agent_runs.usage" stands for the four columns  *)
(* added to a table of an earlier revision.                                  *)

Initial == <<"agent_runs", "approvals", "audit_events", "customers", "leads",
    "outbox_events", "outreach_activities", "prospect_candidates", "tenants",
    "vessel_positions", "crm_activities", "followup_tasks", "inquiries",
    "rate_snapshots", "rfqs", "schedule_options", "supplier_quotes",
    "customer_quotes", "bookings", "tracking_events">>
KnowledgeAndGraph == <<"agent_runs.usage", "knowledge_documents", "knowledge_chunks",
    "pipeline_graph_runs">>
SourceRuns == <<"source_runs">>
GraphState == <<"graph_checkpoints", "graph_checkpoint_writes", "acquisition_runs">>

REVISIONS == <<Initial, KnowledgeAndGraph, SourceRuns, GraphState>>

Adds(r) == {REVISIONS[r][i] : i \in 1..Len(REVISIONS[r])}

\* What the models of a release declare: tests/test_migrations.py compares them
\* with the outcome of its migrations, column by column.
Declared(c) == UNION {Adds(r) : r \in 1..c}

\* What was there before alembic: a database migrated to revision w, or never,
\* on which an older release c called create_all.  That creates tables, never a
\* column of a table that exists.
CreateAll(w, c) == IF w = 0 THEN Declared(c) ELSE Declared(w) \cup (Declared(c) \ {"agent_runs.usage"})

SchemaTypeOK ==
    /\ schema \subseteq Declared(4)
    /\ revision \in 0..4
    /\ release \in Releases
    /\ serving \in [Processes -> 0..4]
    /\ torn \subseteq Declared(4)

SchemaInit ==
    /\ \E c \in Releases \cup {0}, w \in 0..4 :
        w <= c /\ schema = CreateAll(w, c) /\ revision = w
    /\ release \in Releases
    /\ serving = [p \in Processes |-> 0]
    /\ torn = {}

-----------------------------------------------------------------------------
(* alembic upgrade head, revision by revision *)

HeadRevision == release

\* Statement i of revision r runs into nothing: CREATE TABLE and ADD COLUMN fail
\* on what exists.
Runs(r, i) == REVISIONS[r][i] \notin schema

\* The next revision completes and is recorded with it.
Migrate ==
    /\ revision < HeadRevision
    /\ \A i \in 1..Len(REVISIONS[revision + 1]) : Runs(revision + 1, i)
    /\ schema' = schema \cup Adds(revision + 1)
    /\ revision' = revision + 1
    /\ UNCHANGED <<release, serving, torn>>

\* It dies, or is refused by what is there, after its first n statements and
\* before it is recorded.
MigrationDies(n) ==
    /\ revision < HeadRevision
    /\ n \in 1..Len(REVISIONS[revision + 1])
    /\ \A i \in 1..n : Runs(revision + 1, i)
    /\ schema' = schema \cup {REVISIONS[revision + 1][i] : i \in 1..n}
    /\ UNCHANGED <<revision, release, serving, torn>>

-----------------------------------------------------------------------------
(* What takes tables away.  The operator stopped the processes that use them, *)
(* and keeps them stopped while the command runs: nothing in the code asks.   *)

\* The last n statements of revision r, which its downgrade takes back first.
LastOf(r, n) == LET size == Len(REVISIONS[r])
                IN {REVISIONS[r][i] : i \in (size - n + 1)..size}

\* alembic downgrade -1: DROP fails on what is not there.
Downgrade ==
    /\ revision \in 1..HeadRevision
    /\ \A p \in Processes : serving[p] < revision
    /\ Adds(revision) \subseteq schema
    /\ schema' = schema \ Adds(revision)
    /\ revision' = revision - 1
    /\ UNCHANGED <<release, serving, torn>>

\* It dies after n of its drops, and the revision stays recorded.
DowngradeDies(n) ==
    /\ revision \in 1..HeadRevision
    /\ \A p \in Processes : serving[p] < revision
    /\ n \in 1..Len(REVISIONS[revision])
    /\ LastOf(revision, n) \subseteq schema
    /\ schema' = schema \ LastOf(revision, n)
    /\ torn' = torn \cup LastOf(revision, n)
    /\ UNCHANGED <<revision, release, serving>>

\* A column goes with its table.
Dropped(tables) == tables \cup IF "agent_runs" \in tables THEN {"agent_runs.usage"} ELSE {}

\* bootstrap_dev.py --reset-db, before it upgrades: of the tables there are, those
\* the models of the release on disk declare, and then alembic_version.
Reset ==
    /\ \A p \in Processes : serving[p] = 0
    /\ schema' = schema \ Dropped(Declared(release))
    /\ revision' = 0
    /\ torn' = {}
    /\ UNCHANGED <<release, serving>>

\* It dies with the tables of the revisions after r dropped, and n of r: in the
\* last case, between its two transactions, all of them are.  (drop_all goes by
\* the foreign keys; the order here, against that of their creation, respects
\* them too.)
ResetDies(r, n) ==
    LET gone == Dropped((Declared(release) \ Declared(r)) \cup LastOf(r, n))
    IN /\ \A p \in Processes : serving[p] = 0
       /\ r \in 1..release /\ n \in 1..Len(REVISIONS[r])
       /\ schema' = schema \ gone
       /\ torn' = torn \cup (gone \cap schema \cap Declared(revision))
       /\ UNCHANGED <<revision, release, serving>>

\* alembic stamp head, as the refusal advises, "having confirmed the schema is
\* current".
Stamp ==
    /\ revision = 0
    /\ schema = Declared(HeadRevision)
    /\ revision' = HeadRevision
    /\ UNCHANGED <<schema, release, serving, torn>>

-----------------------------------------------------------------------------
(* Releases and processes *)

\* Another release is put on disk; what runs goes on running.
Deploy(c) ==
    /\ release' = c
    /\ UNCHANGED <<schema, revision, serving, torn>>

\* Mutant: a database ahead of the code, or behind it, is served.
EnsureSomeSchema == revision # 0

\* ensure_schema: anything but the head of the release refuses the start.
EnsureSchema == revision # 0 /\ revision = HeadRevision

Start(p) ==
    /\ serving[p] = 0
    /\ EnsureSchema
    /\ serving' = [serving EXCEPT ![p] = release]
    /\ UNCHANGED <<schema, revision, release, torn>>

Stop(p) ==
    /\ serving[p] # 0
    /\ serving' = [serving EXCEPT ![p] = 0]
    /\ UNCHANGED <<schema, revision, release, torn>>

\* What an operator does to the database, and to the disk.
Maintain ==
    \/ Migrate \/ \E n \in Deaths : MigrationDies(n)
    \/ Downgrade \/ \E n \in Deaths : DowngradeDies(n)
    \/ Reset \/ \E r \in 1..4, n \in Deaths : ResetDies(r, n)
    \/ Stamp
    \/ \E c \in Releases : Deploy(c)

SchemaNext == Maintain \/ \E p \in Processes : Start(p) \/ Stop(p)

SchemaSpec == SchemaInit /\ [][SchemaNext]_schemaVars

-----------------------------------------------------------------------------

\* Whatever became of the database before and since, a process never runs on one
\* that lacks a table or column its models declare: revisions that died half-way,
\* databases create_all built or patched, releases rolled forward and back under
\* processes that go on running (app/schema_guard.py, "a refused boot with an
\* instruction is a better failure than a running server with a stale schema").
\* Only a removal that died gets past the check: ensure_schema reads the revision
\* it left recorded, and not the tables it took.
ServedSchemaIsWhole == \A p \in Processes : Declared(serving[p]) \subseteq schema \cup torn

=============================================================================
