# Freight forwarder: specification and proofs

TLA+ models of the services under `src/app`, `src/worker` and `src/migrations`, the TLC runs that
check them and the theorems TLAPS proves about them. Paths below are relative to `src/`.

## The system

A freight forwarder's back office. A customer message becomes an *inquiry*; the inquiry is
completed, sailings and rates are looked up, an RFQ goes to suppliers, their answers are priced
into a *customer quote*, a person approves the quote, it is e-mailed to the customer, space is
booked with a carrier, and the vessel is tracked. The steps are HTTP services over one relational
database; a linear orchestrator and a LangGraph pipeline call the same services in order. Beside
that, a prospecting part collects companies from directories, scores them, drafts and sends cold
e-mails, a worker runs follow-ups and collection, and an assistant answers questions from a
knowledge base.

| Part | State it keeps | Operations | What is hard | Correct when |
|---|---|---|---|---|
| State machine (`app/enums.py`, `app/state_machine.py`) | none (graph of statuses) | `can_transition`, `advance_status`, `derived_inquiry_status` | callers pass a status they read earlier | an inquiry only moves along the edges |
| Inbound messages (`app/services/inquiry.py`) | `customers`, `inquiries`, `outbox` | `ingest_message` | redelivery while the first delivery is in flight, a commit by the clarifying agent, a transaction open across an await | one inquiry per message, recorded whole and answered truly; the process goes on |
| Inquiry desk (`app/services/{inquiry,schedule,rates,rfq,supplier_email,pricing,approval,booking}.py`) | `inquiries`, `rfqs`, `supplier_quotes`, `customer_quotes`, `approvals`, `bookings`; e-mails and carrier orders outside | one request per operation, each in its own session | no row locks, awaits between reading and committing, effects before commits, an agent call that commits half a request | nothing is sent unapproved or booked unsent; statuses are backed by rows; retries do not duplicate |
| Orchestrator (`app/services/orchestrator.py`) | the session of a run | `run_pipeline`, `resume_after_approval`, ten stages | one stale inquiry row for the whole run; a refused stage is committed | the gate holds from any start stage; effects are not repeated |
| Graph pipeline and harness (`app/graph`, `app/harness`, `app/agents/registry.py`) | checkpoints, a cursor per run, audit rows | `run_graph`, `resume_graph`, eleven nodes, `decide`/`check`/`run` | cursor and rows committed separately, runs that overlap, resume into a node already done | no gated node runs without its approval; a cursor is true of the rows; resume repeats nothing |
| Prospecting and outreach (`app/services/prospecting.py`, `app/graph/acquisition.py`) | candidates, outreach activities | import, score, enrich, promote, draft, review, send, opt out | opt-out against a send in flight; cap counted before the e-mail; duplicate vendors | nobody is mailed unearned, over the cap, or after an opt-out |
| Sourcing and worker (`app/services/sourcing.py`, `worker/scheduler.py`) | source runs with cursors | `run_source`, `run_due_sources`, poll loop | crash while `running`, worker beside a request | every page is imported, a source keeps being collected |
| Follow-ups and delay alerts (`app/services/{followup,vessel}.py`) | tasks | `process_due`, `_raise_delay_alert` | one late commit for a batch of e-mails, look-up before insert | every due task is handled, one open alert per booking |
| Knowledge base (`app/knowledge`) | documents and chunks, each of an embedding model | `ingest_document`, `seed_corpus`, `search_knowledge` | check-then-insert, processes with different settings | answers cite only what is comparable |
| Assistant (`app/agents/{tool_loop,tools}.py`) | the steps of one question | five read-only tools, budget, `compose_answer` | rows change between the steps | it says only what a tool found |
| Schema guard and migrations (`app/schema_guard.py`, `migrations/`, `scripts/bootstrap_dev.py`) | tables, `alembic_version` | upgrade, downgrade, reset, stamp, start of a process | no transactional DDL, databases older than alembic, rollbacks under running processes | nobody serves from a schema that lacks something |
| Agent runtime (`app/agents/runtime.py`) | `agent_runs` | LLM calls with retry and budget | commits the caller's session, may fail | it never changes what it was not asked to |
| CRM, metrics, providers | customers, aggregates | see `PROJECT.json` | no interleaving that matters to the above | — |

Interaction is by calls and by rows: services share no memory, and every rule between them must
survive the fact that a row read at the start of a request may have changed when it commits.

## Modules

| Module | Models |
|---|---|
| `StateMachine` | the statuses and the graph; constant-level |
| `InquiryLifecycle` | abstract: a status that moves along the edges |
| `ApprovalGate` | abstract: approve before mail, mail before order, facts are never taken back |
| `FreightDB` | the committed rows of one inquiry and the effects that left the system; the reads and writes the services share |
| `Intake` | deliveries of inbound messages, each a request with its own transaction |
| `QuoteDesk` | the HTTP services, each request a session with its own memory; refines `ApprovalGate`, and `InquiryLifecycle` when serial |
| `Orchestrator` | pipeline runs over the same rows; refines `ApprovalGate` |
| `Harness` | agents, actions, risk and the decision before an action; constant-level |
| `GraphPipeline` | graph runs over the same rows under the harness, cursor and resume; refines `ApprovalGate` |
| `Outreach` | the life of candidates and drafts at one e-mail address |
| `Sourcing` | the crawl of one source by the worker and by requests |
| `Followups` | the tasks of one customer, the pollers, the delay alerts of one booking |
| `SchemaGuard` | revisions, releases on disk, the processes that serve |
| `Knowledge` | documents and ingestions, on top of `SchemaGuard` |
| `Assistant` | the tool loop, composed with `Knowledge` and `SchemaGuard`; refines `SchemaGuard` |
| `QuoteDeskProofs`, `OrchestratorProofs`, `GraphPipelineProofs`, `OutreachProofs`, `SourcingProofs`, `AssistantProofs` | theorems about the module of that name |
| `MailProofs` | theorems about `Intake` and `Followups` |
| `FreightDBProofs` | what the shared reads and writes keep, for the two pipelines |
| `MCMail`, `MCQuoteDesk`, `MCOrchestrator`, `MCGraphPipeline`, `MCOutreach`, `MCAssistant` | symmetry, the messages and the questions asked, for TLC |

**How state and actions correspond.** A row's columns are kept when some check or property tells
their values apart. The content of an inquiry is one Boolean, *complete* (`missing_fields` is
empty). Rows are numbered in creation order, so "newest first" is the highest number. A supplier, a
text, an embedding model is a model value. Every query filters on tenant and on the inquiry,
address, source or customer, so one of each stands for all. `rfqMailed`, `mailed`, `mails` and
`ordered` are what the mail server and the carrier saw: they survive any rollback.

*Intake.* A delivery moves at the awaits of its three agents. From the parser's answer to the commit of
a complete inquiry, or to the next await, the handler is synchronous and one step. `adds` is the flushed
customer of an open transaction: SQLite locks everybody else out after five seconds (`LockedOut`),
PostgreSQL lets an insertion of the same address wait (`Waits`), and a wait in the event loop is `Hang`,
which only `Restart` ends. `Insert` is the commit, made by the agent's run when there is a clarification
to draft, so `ClarifyRaises` keeps the rows as `Clarify` does. `told` and `clarified` are what the
gateway saw.

*Desk.* In `QuoteDesk` a handler is split exactly where another session can commit in between: at an
await, at a late read (`LoadInquiry`: `optimize_quote`, `review_quote` and `create_booking` read the
inquiry last), and at each commit, including the one the drafting agent makes in the middle of
`create_rfq` (`OpenRfq`). `sess[s].seen` is the inquiry status as read. An UPDATE carries the
changed columns only and is not conditional, hence `Advanced(seen, target)`. `Refuse` is the
exception `advance_status` raises (409, rollback); `Fail` is a provider error, a lost client, a
violated unique constraint or a crash, at any point. The session is closed without a commit, so
the rows stay and the effects stay. Two reads are closer together than in the code: `ReadSend` reads
quote and inquiry at one instant (`services/approval.py:21-24` has two queries), and a review inside the
two pipelines reads and commits in one step, since the desk has its interleavings. `CommitPatch` writes the
completeness also where two lists of missing fields differ and neither is empty.

*Orchestrator.* A stage is one step. What matters between stages is that the run keeps the inquiry
row it loaded (`seen`, `complete`) because the identity map returns the loaded object, that a run
continued from a quote keeps that row as well (`held`), and that a refused stage ends the run *and
commits* (`AdvanceOrFail` writes in both branches). `LoseRfq`, `LoseSend`, `LoseOrder` are crashes
after the effect and before the commit. Whether the instance is in production is chosen in `Init`
and guards the shortcuts (`auto_approve`, seeded quotes). Reviews, answers and edits happen between
stages.

*Graph.* A node holds no row of an earlier one, so `run[r]` carries identifiers and the place only; a
node that awaits a provider is two or more steps (`Awaiting`), and runs overlap inside it. `Halt` ends
the graph, `Record` writes the cursor, `Die` is everything that leaves none, and `TrackVessel` is the
exception the tracking node raises when a vessel name was given (`graph/builder.py:338` reads an
attribute of a dict). A ValueError or KeyError is neither: `guarded` (`graph/nodes.py:70-84`) turns it
into a failed step, after which the run is recorded and can be resumed at that node. `ProviderRaises` is
that for every node that awaits something, with what the node has done by then: after `OrderSpace` the
carrier has an order nobody recorded, after `OpenRfq` there is an RFQ of which not every supplier heard.
`DraftFails` is the agent's error that commits the RFQ row all the same. `Allowed` asks the harness on
behalf of the node's agent.

*Outreach.* A session keeps the columns of the rows it loaded (`session[s].rows`), and `Merged` writes
only the columns that differ from them. That is how a stale promotion, review or opt-out overwrites a
newer one. Of the consent, "given" is every value but an opt-out, so a promotion that grants one may or
may not differ from what it loaded (`CommitPromote`). `MailProspect` and `CommitSend` are apart, because
the e-mail precedes the commit. `earned` records what agents and reviewers ever granted, `lost[o]` how
often a record of an e-mail of draft `o` was lost: never committed, or written over.

*Sourcing.* `fetch[c]` is how far a caller is within `run_source`; each step ends in a commit. Ages of
runs are the three thresholds the code compares with. `Remember` forgets rows no query can return.

*Follow-ups.* A status `process_due` sets is in memory until the agent run recorded for the next task
commits it, or the poll ends: `poll[p].completed` and `suppressed` hold it, `Committed` applies it.
`PollFails` loses it or not (a failing agent still commits its own run). `Pollers` is a bound: the
worker polls one batch at a time, but nothing keeps administrators from polling at once, and each
further poll may mail a task once more.

*Schema.* The revisions are sequences of statements. `MigrationDies(n)`, `DowngradeDies(n)` and
`ResetDies(r, n)` stop after n of them, as SQLite keeps what ran; the reset has two transactions on any
database, the tables in the first and `alembic_version` in the second (`scripts/bootstrap_dev.py:221-225`).
The operator is assumed to keep the processes stopped that use the tables a command removes; after a
command that died, processes may start. `torn` is what such a removal took of the recorded revision.
`drop_all` drops by the foreign keys, `ResetDies` against the order of creation, which respects them too.
`CreateAll` is what an older bootstrap left. A release is numbered by its head.

*Assistant.* One question at a time, one tool call a step, so that ingestion, reconfiguration,
migration and restarts happen between the calls. A tool needs the tables it reads (`Reads`), a call without
them is refused. A search may return any texts of the index that
share a term with the question: scores are left open.

## Runs

| Run | Question | Instance | States |
|---|---|---|---|
| `desk_concurrent` | what survives every interleaving and failure: `FactsOnly`, `StatusHasEvidence`, `BookingsAreOrders`, `AnswersCounted`, `Gated`, `VerdictBeforeSent` | 2 sessions, 2 suppliers, 1 RFQ needing 2 answers, 2 quotes, 2 mails and 2 orders of the first | 1.0 M |
| `desk_serial` | what holds one request at a time: `QuotesAgree`, `OneRowEach`, `ForwardOnly` | 1 session, 2 RFQs, 3 quotes, pricing before and after completion | 708 k |
| `desk_rewind` | violated: an inquiry never moves back | 2 sessions, 1 quote | |
| `desk_sent_approved` | violated: no sent quote on an approved inquiry | 2 sessions, 2 quotes | |
| `orchestrator` | gate, one RFQ, effects once, completion; in production no step back, no rejected inquiry revived | 1 run at a time, 3 quotes, 1 crash after an effect, production or not | 1.3 M |
| `orchestrator_rerun` | violated: repeated runs book once | no crash at all | |
| `graph_pipeline` | the gate; how often an effect repeats (`EffectsBounded`); whether the cursor stays true of the rows (`CursorBacked`, `WaitsForTheAsked`, `ApprovalIsUsable`, `GateIsAhead`) | 2 runs, 2 quotes, 1 death or caught error; overlapping runs start at the top and price once | 800 k |
| `outreach` | `EveryMailEarned`, `CapHolds`, `SameShipperOnce`, `OptOutSticks` | 2 requests, 1 shipper at 2 vendors, 2 drafts, cap 1, 1 lost record | 1.5 M |
| `outreach_opt_out` | violated: no e-mail after an opt-out | 1 request at a time | |
| `mail` | coming in: `RecordedOnce`, `AnswersAreTrue`, liveness `Answered`; going out: `OneAlertPending`, `MailsBounded`, liveness `DueTaskHandled` | in: 2 deliveries at a time, 2 messages of one sender and 1 of another, either database; out: 2 pollers, 2 tasks, 2 refreshes, 1 fault | 108 k |
| `sourcing` | `NoPageSkipped`, liveness `SourcePolledAgain`, `SourceReadFromTheTop` | 4 kinds of source, 2 pages, 2 requests, 1 fault | 44 k |
| `assistant` | `ServedSchemaIsWhole`, `AnswersAreEvidence`, `FirstEmbeddingStays` | releases 1 and 3, 2 processes, 2 texts, 2 models, 2 ingestions, 3 kinds of question, budget 4, deaths after 1, 4 or 20 statements | 768 k |

**Bounds.** In `mail` a behaviour has the intake or the follow-ups at work: they share no row. Two
deliveries are the race of intake, its three messages a repeated contact beside a first one; three
deliveries were checked too (384 k states). Two sessions suffice for every race the services have: each
is one stale read against one commit (a third session only repeats the pattern, and the proofs hold for
any number). Where the proof had to count requests it was not so: with two, one stale verdict hides one
e-mail; with three it hides two, which an instance with one draft and three sessions shows (19 k states)
and the bound of `CapHolds` says. Two quotes are needed for a verdict on one to meet the other's; three
let a pipeline price again after a rejected and a sent quote. `MaxMails` and `MaxOrders` allow one
repetition, of the quotes in `Repeated`: in `desk_concurrent` the first, since what repeats a second
quote's e-mail is the same race (checked too, 2.5 M states); a session that would exceed them may only
fail. Graph runs start at the top, at `optimize`, `booking` or `vessel_tracking`, and are resumed at
every node that can halt. Two answers show a lost count. `MaxLosses`, `MaxFailures`, `MaxLost` and
`MaxFaults` bound crashes (`MaxFailures` together with caught errors) because each may repeat an effect,
and the properties count them. `desk_concurrent` requires both answers to price (the configured minimum
is two); `desk_serial` prices with one of two. `TogetherNodes`, `LaterNodes`, `MaxQuotesTogether`,
`TogetherOps` and `MaxPool` bound what may overlap: graph runs that begin beside one another do so at
the first node, once two have overlapped runs are resumed and no new one is begun (new ones at the first
node were checked too, 2.4 M states), and an outreach request may be joined by an import, a review or a
send, the operations whose races the properties are about (an opt-out is joined by them, and their loads
commute). `Pages` 2 gives a first, a last and a page past the last. Releases 1 and 3 are two revisions
apart, so a rollback and a migration both pass through a revision nobody serves, and the tables of the
knowledge base come and go; all four releases were checked with `SchemaGuard` alone, and the theorem
covers every set. `Deaths` names after how many statements a command may die: after the first, after
four, which is the whole of revision 2 (a reset then stands between its transactions), and after all
twenty of revision 1; the theorem allows any. A budget of 4 is one less than the five tools: one
question, about an inquiry the tenant lacks, spends it before the knowledge base is asked.

**Deadlock** is not checked: an inquiry whose rows are used up, or that is booked, has nothing left
to do, and the bounds stop the rest.

**Fairness.** `Intake` assumes `WF(Step(d))`: every agent call has a time-out and finitely many retries
(`app/agents/resilience.py`), and a handler that is not awaiting runs on, unless the loop is blocked. On
SQLite `Answered` has no exception; on PostgreSQL it excepts that hang. The desk, the pipelines and
outreach assume none: nothing in the code guarantees that a request is made, a reviewer decides or a
supplier answers. The worker is different: `main` (`worker/scheduler.py:45-74`) polls in a loop that an
exception does not end, every await in it has a time-out, and the deployment restarts it. Hence
`WF(LoadDue("worker") \/ ProcessDue("worker"))` in `Followups`, `WF(RunDueSource \/
RunSource("worker"))` in `Sourcing`; there also `WF(RunSource("api"))`, since a request that was
accepted runs to its end, and `WF(AgesPass)`, since time passes. Faults are finitely many in both; a
task whose processing raises every time would otherwise stand in the way of those behind it.

The two liveness properties of `Sourcing` except what the code does not deliver:
`SourcePolledAgain` a run left `running` by a death (`_is_due` waits for it for ever although
`app/config.py:60` says that such a run "is treated as abandoned rather than active"; only `_is_still_running`
does so), `SourceReadFromTheTop` also a directory with a `{page}` in its URL, whose fetches never
report the end (`providers/prospecting.py:388`, against `app/config.py:56`: "A directory that ran out of pages
is re-read from the top"). That an operator's action is not needed is the settings' and the code's word against
`app/models.py:76`, by which "'exhausted' is terminal until an operator resets it": `_is_due`
(`services/sourcing.py:189`) re-reads an exhausted source after the rescan time, and there is no such reset.

## What disagrees with the repository's own words

* `desk_rewind`: an edit reads `needs_clarification`, another edit completes the inquiry and
  `search_schedules` commits `scheduled`, then the first edit commits the `ready` it derived.
  README.md:131 calls the status forward-only and `inquiry.py:44-46`
  says a field edit must not rewind it. Serially it does not (`ForwardOnly` passes).
* `desk_sent_approved`: two quotes under review, two approvals read before either commits, the first
  is sent, the second commit sets the inquiry back to `approved`. `tests/test_booking.py:59` says this
  state cannot exist. `create_booking` still refuses it, so a sent quote cannot be booked.
* `orchestrator_rerun`: with one quote sent and booked, a run started at `optimize` is refused, but
  its new quote row is committed all the same; once approved (by a reviewer, or by `auto_approve`,
  whose refused verdict is committed too), later runs send it and book it. README.md:341 says
  repeated runs do not book twice. Runs from the first stage are safe: `schedules` refuses them.
* `outreach_opt_out`: `mark_opt_out` sets `consent_status` and suppresses the drafts there are. A draft
  written afterwards copies the lawful basis the prospect still has, is approved and passes all four
  gates, none of which reads consent. `services/prospecting.py:464` says an opt-out is honoured
  "immediately across prospects, leads and outreach records". What does hold is `OptOutSticks`: a
  draft the opt-out stopped, and nobody had in hand, stays stopped.

Met on the way, without a run of their own: that two first contacts of one sender can stop an API
process on PostgreSQL (`Hang`: `services/inquiry.py:16` flushes, `:30` awaits with that transaction
open, and the second flush waits inside the event loop; only a restart helps); that a clarification
whose agent raised is never handed out, since the redelivery finds the inquiry recorded; that a graph
run whose carrier answered with what is no JSON (`providers/booking.py:15` raises a ValueError,
`graph/nodes.py:82` catches it) is recorded as failed at `booking` and orders again when it is resumed
(`faults` in `EffectsBounded`), and that one stopped in the same way while it drafts or mails an RFQ
leaves an open RFQ which the resumed run reuses although nobody, or not everybody, was asked (the
exception of `WaitsForTheAsked`); that a reset or downgrade that dies leaves the revision recorded, so
that `ensure_schema` accepts a database without the tables (`torn` in `ServedSchemaIsWhole`); that a
question about an inquiry the tenant lacks may be answered with "no quote yet"
(`agents/tool_loop.py:206-218`), since only `get_inquiry` asks whether there is one; `models.py:76` on
exhausted sources; the two exceptions of the liveness properties above; the tracking node's exception;
`opt_out` against `opted_out` (`graph/acquisition.py:46`); a corpus that cannot be migrated to another
embedding model by ingesting it again, as `app/knowledge/service.py:122` says it is.

## What is proved

`QuoteDeskProofs`, for any finite set of sessions, any suppliers, row bounds and thresholds with `RowBounds`
and `EffectBounds` (naturals, `Expected` positive, `None` not a supplier):

| Theorem | States |
|---|---|
| `TypeCorrect` | `Spec => []TypeOK` |
| `FactsSurvive` | `Spec => []FactsOnly` |
| `StatusBacked` | `Spec => []StatusHasEvidence` |
| `GateHolds` | `Spec => Gated`: the desk implements `ApprovalGate` |
| `VerdictFirst` | `Spec => VerdictBeforeSent` |
| `BookingsAreOrdered` | `Spec => []BookingsAreOrders` |
| `CountsAreBacked` | `Spec => []AnswersCounted` |
| `SerialLifecycle` | `Spec => ForwardOnly` (the desk implements `InquiryLifecycle`), if `Sessions` has at most one member |
| `SerialQuotesAgree` | `Spec => []QuotesAgree`, under the same hypothesis |
| `SerialOneRowEach` | `Spec => []OneRowEach`, under the same hypothesis |

*The argument.* `StatusHasEvidence` and the gate are not inductive: a session that sends acts on
what it read before. The strengthening `FactsOnly` says, for every quote, what its status and
counters imply of one another (`QuoteHistory`), and for every session, what it still knows of rows
others may have rewritten (`SessionKnows`): only *facts*, an approval recorded, an e-mail sent, a quote
that exists. `StepGrows` shows that no step of any session takes a fact back; `EvidenceStays` and
`KnowledgeStays` lift that to what statuses claim and sessions remember; `StatusStep`,
`HistoryStep` and `KnowledgeStep` then treat the acting session, one step per action. The gate follows
because the read of `send_quote` turns a status into a fact (`quote = "approved"` implies an
approval on record) before anything can change it. `TypeOK` includes which row a handler works on
(`Knows`), which every later lemma needs.

Two theorems count. A booking is backed by an order only together with those in flight: `OrdersPlaced`
adds to the bookings of a quote the sessions that ordered and have not stored the row. The number of
answers on an RFQ is written from a number read before an await; it stays within the rows because
rows only come in and what a session read was within them then (`HasRead`).

The last three are about requests that do not overlap, and say so in the hypothesis: with one session,
what a handler read is what the rows say when it writes (`AllFresh`). The runs `desk_rewind` and
`desk_sent_approved` show two sessions breaking the first two, and two answers of one
supplier that overlap break the third.

`AssistantProofs`, for any set of the four releases (`ReleasesAssumption`), any points at which commands die
(`DeathsAssumption`), any texts, models, ingestions and questions of the type `Question`, any positive budget,
`None` not a model:

| Theorem | States |
|---|---|
| `SchemaIsWhole` | `Spec => []ServedSchemaIsWhole` |
| `AssistantTypes` | `Spec => []TypeOK` |
| `FirstEmbeddingIsKept` | `Spec => FirstEmbeddingStays` |
| `AnswersCiteEvidence` | `Spec => []AnswersAreEvidence` |

*The argument.* `ServedSchemaIsWhole` is not inductive: a release serves while another is on disk
and its migration half-way. `SchemaInv` adds that everything up to the recorded revision is there or
`torn`, and that no process serves a release beyond it. The check at the start establishes the second part,
and a downgrade keeps it because the operator stopped those processes (the assumption on the
environment stated above it; a reset asks that nobody serves). What a removal that died takes is
`torn` by the same step, and a whole downgrade takes nothing of the revisions below, since the revisions
create disjoint sets of tables (`AddsApart`). That the composition's steps are steps of `SchemaGuard`, or
leave the schema alone, is the lemma `AssistantImplementsSchemaGuard`.
`AnswersAreEvidence` needs `EvidenceInv`: rows only where there are tables, no question without an
API, and every step taken so far still `Grounded` in rows of the embedder the API runs with. `RowStays`
says rows stay while the tables do, and the tables stay while the API serves (`TablesStay`: whatever removes
tables asks that it does not). `LoopEnds` says when the loop ends without the knowledge base: its look-up was
among the calls, and refused, or the budget was spent.

`OrchestratorProofs`, for any runs, row bounds and thresholds (`RowBounds`, `RunBounds`: the suppliers are
the two the code seeds):

| Theorem | States |
|---|---|
| `OrchestratorTypes` | `Spec => []TypeOK` |
| `PipelineKeepsGate` | `Spec => Gated` |
| `CompletionIsBooked` | `Spec => []CompletedIsBooked` |
| `RfqIsAlone` | `Spec => []OneRfq`, if `Runs` has at most one member: runs of an inquiry follow one another |
| `EffectsAreCounted` | `Spec => []EffectsOnce`, under the same hypothesis |
| `ProductionMovesForward` | `Spec => NeverRewinds`, under the same hypothesis |
| `RejectionIsFinal` | `Spec => []RejectedIsFinal`, under the same hypothesis |

*The argument.* `Backed` says of every quote that its status, counters and bookings imply an approval,
an e-mail, an order (`RowsBacked`), and of every run that what it believes of the quote it holds is
true as long as that quote is the newest, and that it completes on a booking (`RunBacked`). A held quote
is stale without harm because the newest row is looked up again at each effect: `LatestStays` shows that a
row a run knows and that is newest after a step was newest before it, and facts only grow (`Grows`).
`Once` adds the counts: mails of a quote at most what is recorded as sent plus the losses, orders at most
the bookings plus the losses. It needs `RunFresh`, that what a run holds is what is committed, which
two runs at a time break. The one RFQ has the hypothesis because look-up, drafting agent and insertion are one
step of the model, which is so only while no other run does the same.

A run carries the status it loaded through all its stages, while reviews and edits go on, so its row
is stale even when runs follow one another. `Guarded` says how stale in production, where no shortcut
approves: the status has moved at most among those an edit derives, or from `waiting_approval` to a verdict
(`Sees`), and a quote that is approved, sent, mailed or ordered exists only under an inquiry that is
approved or further (`Decided`, `Committed`). From either, every edge a run may take is a move forward
(`Moves`), and under a rejected inquiry there is nothing to mail. Outside production neither is claimed.

`GraphPipelineProofs`, for any finite set of runs and any bounds (`GraphBounds`):

| Theorem | States |
|---|---|
| `GraphTypes` | `GraphSpec => []GraphTypeOK` |
| `CursorIsBacked` | `GraphSpec => []CursorBacked` |
| `GraphKeepsGate` | `GraphSpec => GraphGated` |
| `GraphEffectsAreBounded` | `GraphSpec => []EffectsBounded` |
| `GraphWaitsForTheAsked` | `GraphSpec => []WaitsForTheAsked` |
| `GraphApprovalIsUsable` | `GraphSpec => []ApprovalIsUsable` |
| `GraphGateIsAhead` | `GraphSpec => []GateIsAhead` |

*The argument.* A run carries identifiers, so what it must know is small: `RowsBacked` as above,
`RunBacked`, that a node past the gate runs on a quote with the approval, e-mail or order its place
presupposes, and `CursorRests`, that the same holds of the cursor it left. Rows grow (`Grows`),
hence a cursor stays true however long it lies.

How often an effect repeats is an account per quote (`Accounts`): until the first commit that it is
sent, its e-mails are those of the runs between e-mail and commit and of the runs that died there; from
then on no run begins to mail it, and those that had begun are at most as many as can be in flight
(`InFlight`: all runs, or one unless some overlapped, `Alone`). Orders with their booking are the same, with
one more for each run an error stopped between the two,
and so are RFQs with the runs that found none. `Asked` keeps hold of the one run between the commit of an RFQ
and its e-mails. What holds only of runs that follow one another needs their memory: `InOrder` says that
the quote a run carries is the newest, that the rows have no gaps, and that the status loaded is stale by an
edit or a verdict at most; hence an approval of the newest quote comes with an approved inquiry. `Ahead`
says that after the newest quote is sent neither a run, nor the cursor, nor the one a run at its end will
leave, is at the gate; it excepts runs that enter behind the gate, die, or trip over a vessel name.

`OutreachProofs`, for any finite set of sessions, and any shippers, vendors, drafts and cap (`OutreachBounds`):

| Theorem | States |
|---|---|
| `OutreachTypes` | `OutreachSpec => []OutreachTypeOK` |
| `MailsAreEarned` | `OutreachSpec => []EveryMailEarned` |
| `OneCandidatePerShipper` | `OutreachSpec => []SameShipperOnce` |
| `OptOutHolds` | `OutreachSpec => OptOutSticks` |
| `CapIsBounded` | `OutreachSpec => []CapHolds` |

*The argument.* `EarnedInv` follows score and basis from the agent or reviewer that granted them through
every place they are copied to: rows, drafts, and the columns sessions have in hand, which may be
written back long after. What was granted never shrinks. `ImportInv` says that without two overlapping
imports the one importer knows the whole pool. For the opt-out it is enough that each operation that
writes a status had its draft in hand.

The cap is about a sum over drafts that no single one bounds. `Accounts` has three parts. Of a draft the
cap does not count (`Counted`), the e-mails are those of requests about to record them, and lost ones. Of one
it counts, the e-mails, those past the gates, and the requests whose stale verdict may still write over its
row are together at most the requests there are, and what was lost: a request is in one place only. And all
e-mails sent or past the gates are within the bound, because the gate passes a request only while fewer than
`MaxPerWindow` drafts count (`CapLeavesRoom`: one injection of the e-mails of counted drafts, one of
the others, into pairs of a request and a place of the cap). A sum is the cardinality of a set of pairs
(`Total`), so that adding one to a draft adds one to the sum without induction.

This attempt changed the property. It used to allow one hidden e-mail per lost record, which TLC confirms
for two requests and which does not follow: a stale verdict hides what every other request mailed. With
three requests, two mail a draft, the third writes its older verdict over the sent row, and the
draft, approved again, is mailed again. `CapHolds` now counts what a lost record can hide.

`SourcingProofs`, for a source of any kind and length, and any requests and faults (`SourcingBounds`):

| Theorem | States |
|---|---|
| `SourcingTypes` | `SourcingSpec => []SourcingTypeOK` |
| `PagesAreNotSkipped` | `SourcingSpec => []NoPageSkipped` |

*The argument.* `NoPageSkipped` speaks of the page the next run starts at, which is read from the newest
success; overlapping runs end in any order, and rows age out of queries. `PagesInv` therefore says it of
every success in the table and of every run in flight, which has below its page what the cursor it read
claimed. The rest is about the table: `Remember` renumbers the rows a query can return by how many of them
are before, and the queries take the last of some kind. That each number below the count names exactly one
kept row is the pigeon-hole lemma `RankTaken`, and that a query finds a row that is there `MaxTaken`.

`MailProofs`, first for any tasks, refreshes and faults, and the two pollers there are:

| Theorem | States |
|---|---|
| `FollowupsTypes` | `FollowupsSpec => []FollowupsTypeOK` |
| `OneAlert` | `FollowupsSpec => []OneAlertPending` |
| `MailsAreBounded` | `FollowupsSpec => []MailsBounded` |

*The argument.* `MailInv` keeps an account per task: each e-mail is owed to a poller that has the task
behind it or to a fault, and a task is in one place of a poll. `AlertInv` says that of refreshes that do
not overlap one looks, and what it found is still so.

then for any deliveries, senders and messages:

| Theorem | States |
|---|---|
| `IntakeTypes` | `IntakeSpec => []IntakeTypeOK` |
| `OneInquiryPerMessage` | `IntakeSpec => []RecordedOnce` |
| `GatewayIsToldTrue` | `IntakeSpec => []AnswersAreTrue` |

*The argument.* The constraint alone gives one inquiry per message; one customer per sender, and an
inquiry with its customer, need `Locks`: a request that awaits the clarification inserts the customer
exactly if nobody committed one, and no two requests insert the same. It is kept because who inserts
found no holder (`Waits`), and a complete inquiry, which commits at once, found none either.

*Only model-checked.* Every safety invariant and action property of the passing runs is a theorem. What
is left to TLC is liveness (`DueTaskHandled`, `Answered`, `SourcePolledAgain`, `SourceReadFromTheTop`) and
with it ENABLED, which the prover does not reach. No RECURSIVE operator is used, and no proof needs
induction over data: sums and newest rows are cardinalities and pigeon-holes. The four violated
properties have no proof of their negation; TLC's behaviours are that.

## Not modelled, and the plan

Prices, scores, texts and dates are abstracted: no control depends on them across services, except the
choice of the cheapest answer inside one request. The desk starts from an inquiry that `Intake` may have
recorded; the two are not composed, because intake never touches an inquiry after its insertion.
Concurrent runs of the orchestrator are left to the graph pipeline, which makes the same look-ups before
the same awaits. Edits of content under a priced quote are listed as a hazard without a property. Of
prospecting, leads, their outreach, evidence records and the qualify listing are left out; of the graph,
the routes that send and book beside it and the reading of timelines; of tracking, events, positions and
milestones. Metrics and growth only read, CRM inserts single rows, and LLM retries repeat a call that
has no effect in the system.

What would come next: a version of the content, for edits under a priced quote; tracking events as one
more look-up before an insert; two orchestrator runs at a time, with the agent of `create_rfq` awaited
in between, whose theorems about the gate and completion hold already; which of the serial theorems of
the desk survive when only some requests overlap.
