--------------------------- MODULE AssistantProofs ---------------------------
(***************************************************************************)
(* Theorems of SchemaGuard, Knowledge and Assistant, for any set of the     *)
(* releases, any texts, models, ingestions, questions and step budget.      *)
(***************************************************************************)
EXTENDS Assistant, TLAPS

-----------------------------------------------------------------------------
(* What the revisions add *)

LEMMA RevisionTables ==
    /\ Adds(1) = {"agent_runs", "approvals", "audit_events", "customers", "leads",
         "outbox_events", "outreach_activities", "prospect_candidates", "tenants",
         "vessel_positions", "crm_activities", "followup_tasks", "inquiries",
         "rate_snapshots", "rfqs", "schedule_options", "supplier_quotes",
         "customer_quotes", "bookings", "tracking_events"}
    /\ Adds(2) = {"agent_runs.usage", "knowledge_documents", "knowledge_chunks",
         "pipeline_graph_runs"}
    /\ Adds(3) = {"source_runs"}
    /\ Adds(4) = {"graph_checkpoints", "graph_checkpoint_writes", "acquisition_runs"}
<1>1. Adds(2) = {"agent_runs.usage", "knowledge_documents", "knowledge_chunks",
         "pipeline_graph_runs"}
  BY DEF Adds, REVISIONS, KnowledgeAndGraph
<1>2. Adds(3) = {"source_runs"}
  BY DEF Adds, REVISIONS, SourceRuns
<1>3. Adds(4) = {"graph_checkpoints", "graph_checkpoint_writes", "acquisition_runs"}
  BY DEF Adds, REVISIONS, GraphState
<1>4. Adds(1) = {"agent_runs", "approvals", "audit_events", "customers", "leads",
         "outbox_events", "outreach_activities", "prospect_candidates", "tenants",
         "vessel_positions", "crm_activities", "followup_tasks", "inquiries",
         "rate_snapshots", "rfqs", "schedule_options", "supplier_quotes",
         "customer_quotes", "bookings", "tracking_events"}
  BY DEF Adds, REVISIONS, Initial
<1> QED BY <1>1, <1>2, <1>3, <1>4

\* No revision creates what another one creates.
LEMMA AddsApart ==
    \A r, t \in 1..4 : r # t => Adds(r) \cap Adds(t) = {}
<1> SUFFICES ASSUME NEW r \in 1..4, NEW t \in 1..4, r < t
             PROVE  Adds(r) \cap Adds(t) = {}
  OBVIOUS
<1>1. CASE r = 1 /\ t = 2  BY <1>1, RevisionTables
<1>2. CASE r = 1 /\ t = 3  BY <1>2, RevisionTables
<1>3. CASE r = 1 /\ t = 4  BY <1>3, RevisionTables
<1>4. CASE r = 2 /\ t = 3  BY <1>4, RevisionTables
<1>5. CASE r = 2 /\ t = 4  BY <1>5, RevisionTables
<1>6. CASE r = 3 /\ t = 4  BY <1>6, RevisionTables
<1> QED BY <1>1, <1>2, <1>3, <1>4, <1>5, <1>6

LEMMA DeclaredElements ==
    \A x, c : x \in Declared(c) <=> \E r \in 1..c : x \in Adds(r)
  BY DEF Declared

\* A later release declares whatever an earlier one does.
LEMMA DeclaredGrows ==
    ASSUME NEW a \in 0..4, NEW b \in 0..4, a <= b
    PROVE  Declared(a) \subseteq Declared(b)
<1> SUFFICES ASSUME NEW x \in Declared(a) PROVE x \in Declared(b)
  OBVIOUS
<1>1. PICK r \in 1..a : x \in Adds(r)
  BY DeclaredElements
<1>2. r \in 1..b
  OBVIOUS
<1> QED BY <1>1, <1>2, DeclaredElements

LEMMA DeclaredNext ==
    ASSUME NEW c \in 1..4
    PROVE  Declared(c) \subseteq Declared(c - 1) \cup Adds(c)
<1> SUFFICES ASSUME NEW x \in Declared(c), x \notin Adds(c) PROVE x \in Declared(c - 1)
  OBVIOUS
<1>1. PICK r \in 1..c : x \in Adds(r)
  BY DeclaredElements
<1>2. r # c /\ r \in 1..(c - 1)
  BY <1>1
<1> QED BY <1>1, <1>2, DeclaredElements

\* Taking a revision back leaves what the ones before it created.
LEMMA DeclaredApart ==
    ASSUME NEW c \in 1..4
    PROVE  Declared(c - 1) \cap Adds(c) = {}
<1> SUFFICES ASSUME NEW x \in Declared(c - 1) PROVE x \notin Adds(c)
  OBVIOUS
<1>1. PICK r \in 1..(c - 1) : x \in Adds(r)
  BY DeclaredElements
<1>2. r \in 1..4 /\ r # c
  OBVIOUS
<1> QED BY <1>1, <1>2, AddsApart

LEMMA AddsDeclared ==
    ASSUME NEW r \in 1..4
    PROVE  Adds(r) \subseteq Declared(4)
  BY DeclaredElements

LEMMA RevisionLengths == \A r \in 1..4 : Len(REVISIONS[r]) \in Nat
  BY DEF REVISIONS, Initial, KnowledgeAndGraph, SourceRuns, GraphState

\* A removal that dies took nothing but what its revision created.
LEMMA LastAdded ==
    ASSUME NEW r \in 1..4, NEW n \in 1..Len(REVISIONS[r])
    PROVE  LastOf(r, n) \subseteq Adds(r)
<1>1. Len(REVISIONS[r]) \in Nat
  BY RevisionLengths
<1>2. \A i \in (Len(REVISIONS[r]) - n + 1)..Len(REVISIONS[r]) : i \in 1..Len(REVISIONS[r])
  BY <1>1
<1> QED BY <1>2 DEF LastOf, Adds

-----------------------------------------------------------------------------
(* The schema *)

\* A recorded revision is there, but for what a removal that died took, and no
\* process runs a release beyond it: the check at the start makes it so, and only
\* the steps of an operator who stopped the processes take anything away.
SchemaInv ==
    /\ SchemaTypeOK
    /\ Declared(revision) \subseteq schema \cup torn
    /\ \A p \in Processes : serving[p] <= revision

LEMMA SchemaInitInv == ASSUME SchemaInit PROVE SchemaInv
<1>1. PICK c \in Releases \cup {0}, w \in 0..4 :
        w <= c /\ schema = CreateAll(w, c) /\ revision = w
  BY DEF SchemaInit
<1>2. c \in 0..4
  BY ReleasesAssumption
<1>3. Declared(c) \subseteq Declared(4) /\ Declared(w) \subseteq Declared(4)
  BY <1>2, DeclaredGrows
<1>4. schema \subseteq Declared(4)
  BY <1>1, <1>3 DEF CreateAll
<1>5. Declared(0) = {}
  BY DeclaredElements
<1>6. Declared(w) \subseteq schema
  BY <1>1, <1>5 DEF CreateAll
<1> QED BY <1>1, <1>4, <1>6 DEF SchemaInit, SchemaInv, SchemaTypeOK

LEMMA SchemaStepInv == ASSUME SchemaInv, [SchemaNext]_schemaVars PROVE SchemaInv'
<1> USE DEF SchemaInv, SchemaTypeOK
<1>r. release \in 1..4 /\ \A p \in Processes : serving[p] \in 0..4
  BY ReleasesAssumption
<1>1. CASE Migrate
  <2>1. revision + 1 \in 1..4 /\ (revision + 1) - 1 = revision
    BY <1>1, <1>r DEF Migrate, HeadRevision
  <2>2. schema' \subseteq Declared(4)
    BY <1>1, <2>1, AddsDeclared DEF Migrate
  <2>3. Declared(revision') \subseteq schema' \cup torn'
    BY <1>1, <2>1, DeclaredNext DEF Migrate
  <2> QED BY <1>1, <1>r, <2>1, <2>2, <2>3 DEF Migrate
<1>2. ASSUME NEW n \in Deaths, MigrationDies(n) PROVE SchemaInv'
  <2>1. revision + 1 \in 1..4
    BY <1>2, <1>r DEF MigrationDies, HeadRevision
  <2>2. {REVISIONS[revision + 1][i] : i \in 1..n} \subseteq Adds(revision + 1)
    <3> SUFFICES ASSUME NEW i \in 1..n PROVE i \in 1..Len(REVISIONS[revision + 1])
      BY DEF Adds
    <3>1. Len(REVISIONS[revision + 1]) \in Nat
      BY <2>1, RevisionLengths
    <3> QED BY <1>2, <3>1 DEF MigrationDies
  <2>3. schema \subseteq schema' /\ schema' \subseteq Declared(4)
    BY <1>2, <2>1, <2>2, AddsDeclared DEF MigrationDies
  <2> QED BY <1>2, <2>3 DEF MigrationDies
<1>3. CASE Downgrade
  <2>1. revision \in 1..4
    BY <1>3, <1>r DEF Downgrade, HeadRevision
  <2>2. Declared(revision - 1) \subseteq Declared(revision)
    BY <2>1, DeclaredGrows
  <2>3. Declared(revision') \subseteq schema' \cup torn'
    BY <1>3, <2>1, <2>2, DeclaredApart DEF Downgrade
  <2> QED BY <1>3, <1>r, <2>1, <2>3 DEF Downgrade
<1>d. ASSUME NEW n \in Deaths, DowngradeDies(n) PROVE SchemaInv'
  <2>1. revision \in 1..4 /\ n \in 1..Len(REVISIONS[revision])
    BY <1>d, <1>r DEF DowngradeDies, HeadRevision
  <2>2. LastOf(revision, n) \subseteq Declared(4)
    BY <2>1, LastAdded, AddsDeclared
  <2> QED BY <1>d, <2>2 DEF DowngradeDies
<1>4. CASE Reset
  <2>1. Declared(0) = {}
    BY DeclaredElements
  <2> QED BY <1>4, <2>1 DEF Reset
<1>t. ASSUME NEW r \in 1..4, NEW n \in Deaths, ResetDies(r, n) PROVE SchemaInv'
  <2>1. PICK gone : /\ schema' = schema \ gone
                    /\ torn' = torn \cup (gone \cap schema \cap Declared(revision))
    BY <1>t DEF ResetDies
  <2>2. torn' \subseteq Declared(4) /\ Declared(revision) \subseteq schema' \cup torn'
    BY <2>1
  <2> QED BY <1>t, <2>1, <2>2 DEF ResetDies
<1>5. CASE Stamp
  <2>1. \A p \in Processes : serving[p] = 0
    BY <1>5, <1>r DEF Stamp
  <2> QED BY <1>5, <1>r, <2>1 DEF Stamp, HeadRevision
<1>6. ASSUME NEW c \in Releases, Deploy(c) PROVE SchemaInv'
  BY <1>6 DEF Deploy
<1>7. ASSUME NEW p \in Processes, Start(p) PROVE SchemaInv'
  BY <1>7, <1>r DEF Start, EnsureSchema, HeadRevision
<1>8. ASSUME NEW p \in Processes, Stop(p) PROVE SchemaInv'
  BY <1>8, <1>r DEF Stop
<1>9. CASE UNCHANGED schemaVars
  BY <1>9 DEF schemaVars
<1> QED BY <1>1, <1>2, <1>3, <1>d, <1>4, <1>t, <1>5, <1>6, <1>7, <1>8, <1>9 DEF SchemaNext, Maintain

LEMMA SchemaInvServes == ASSUME SchemaInv PROVE ServedSchemaIsWhole
<1> SUFFICES ASSUME NEW p \in Processes PROVE Declared(serving[p]) \subseteq schema \cup torn
  BY DEF ServedSchemaIsWhole
<1>1. serving[p] \in 0..4 /\ revision \in 0..4 /\ serving[p] <= revision
  BY DEF SchemaInv, SchemaTypeOK
<1> QED BY <1>1, DeclaredGrows DEF SchemaInv

\* The schema part of every step of Assistant is a step of SchemaGuard.
LEMMA AssistantStepsSchema == ASSUME [Next]_vars PROVE [SchemaNext]_schemaVars
<1>1. CASE Operate
  BY <1>1 DEF Operate, SchemaNext, Processes
<1>2. CASE StartApi \/ StopApi
  BY <1>2 DEF StartApi, StopApi, SchemaNext, Processes
<1>3. ASSUME NEW m \in Models, Configure(m) PROVE UNCHANGED schemaVars
  BY <1>3 DEF Configure
<1>4. ASSUME NEW s \in Sessions, Ingesting(s) PROVE UNCHANGED schemaVars
  BY <1>4 DEF Ingesting, LookUp, Insert, IngestFails
<1>5. CASE Asks
  BY <1>5 DEF Asks, AskQuestion, ReadRows, CallRefused, LookUpSop, Answer, TakeStep
<1>6. CASE UNCHANGED vars
  BY <1>6 DEF vars
<1> QED BY <1>1, <1>2, <1>3, <1>4, <1>5, <1>6 DEF Next

\* The database and its processes, with the knowledge base and the questions on
\* top, are the schema guard's.
LEMMA AssistantImplementsSchemaGuard == Spec => SchemaSpec
<1>1. Init => SchemaInit
  BY DEF Init
<1>2. [Next]_vars => [SchemaNext]_schemaVars
  BY AssistantStepsSchema
<1> QED BY <1>1, <1>2, PTL DEF Spec, SchemaSpec

LEMMA SchemaIsKept == SchemaSpec => []SchemaInv
<1>1. SchemaInit => SchemaInv
  BY SchemaInitInv
<1>2. SchemaInv /\ [SchemaNext]_schemaVars => SchemaInv'
  BY SchemaStepInv
<1> QED BY <1>1, <1>2, PTL DEF SchemaSpec

\* No process ever serves from a schema that lacks a table or column its models
\* declare, but for what a downgrade or a reset that died took, for any set of
\* the releases and wherever a command dies (app/schema_guard.py:77 ensure_schema).
THEOREM SchemaIsWhole == Spec => []ServedSchemaIsWhole
  BY AssistantImplementsSchemaGuard, SchemaIsKept, SchemaInvServes, PTL

-----------------------------------------------------------------------------
(* Types of the knowledge base and of the question *)

\* AskTypeOK, with the shape of the record it speaks of.
AskShape ==
    /\ ask \in [question : Questions \cup {None}, steps : Seq(Step),
                answer : [kind : {"none", "failed", "sop", "uncovered", "facts"},
                          facts : SUBSET Tools, cites : SUBSET Contents]]
    /\ Len(ask.steps) <= MaxToolSteps

Types == SchemaInv /\ KnowledgeTypeOK /\ AskShape

LEMMA TypesImplyTypeOK == ASSUME Types PROVE TypeOK
  BY DEF Types, TypeOK, AskShape, AskTypeOK, SchemaInv

LEMMA NoAnswerType ==
    /\ NoAnswer.kind = "none" /\ NoAnswer.facts = {} /\ NoAnswer.cites = {}
    /\ NoAnswer \in [kind : {"none", "failed", "sop", "uncovered", "facts"},
                     facts : SUBSET Tools, cites : SUBSET Contents]
  BY DEF NoAnswer

LEMMA QuietShape == ASSUME ask = Quiet PROVE AskShape
  BY NoAnswerType, AssistantBounds DEF Quiet, AskShape

LEMMA IdleType ==
    Idle \in [by : {"nobody", "api", "script"}, content : Contents \cup {None},
              model : Models \cup {None}]
  BY DEF Idle

LEMMA KnowledgeStepType == ASSUME KnowledgeTypeOK, [Next]_vars PROVE KnowledgeTypeOK'
<1> USE DEF KnowledgeTypeOK
<1>1. CASE Operate
  BY <1>1 DEF Operate, RowsFollowTables
<1>2. CASE StartApi
  BY <1>2 DEF StartApi
<1>3. CASE StopApi
  BY <1>3, IdleType DEF StopApi
<1>4. ASSUME NEW m \in Models, Configure(m) PROVE KnowledgeTypeOK'
  BY <1>4 DEF Configure
<1>5. ASSUME NEW s \in Sessions, NEW d \in Contents, NEW by \in {"api", "script"}, LookUp(s, d, by)
      PROVE KnowledgeTypeOK'
  BY <1>5 DEF LookUp
<1>6. ASSUME NEW s \in Sessions, Insert(s) PROVE KnowledgeTypeOK'
  <2>1. documents' \in [Contents -> Models \cup {None}]
    BY <1>6 DEF Insert
  <2> QED BY <1>6, <2>1, IdleType DEF Insert
<1>7. ASSUME NEW s \in Sessions, IngestFails(s) PROVE KnowledgeTypeOK'
  BY <1>7, IdleType DEF IngestFails
<1>8. CASE Asks
  BY <1>8 DEF Asks, AskQuestion, ReadRows, CallRefused, LookUpSop, Answer, TakeStep, knowledgeVars
<1>9. CASE UNCHANGED vars
  BY <1>9 DEF vars, knowledgeVars
<1> QED BY <1>1, <1>2, <1>3, <1>4, <1>5, <1>6, <1>7, <1>8, <1>9 DEF Next, Ingesting

\* A tool call is one more step of the question under way.
LEMMA TakeStepShape ==
    ASSUME AskShape, Loop, NEW tool \in Tools, NEW ok \in BOOLEAN, NEW cites \in SUBSET Contents,
           TakeStep(tool, ok, cites)
    PROVE  /\ AskShape'
           /\ ask'.question = ask.question /\ ask'.answer = ask.answer
           /\ ask'.steps = Append(ask.steps, [tool |-> tool, ok |-> ok, cites |-> cites])
<1>1. [tool |-> tool, ok |-> ok, cites |-> cites] \in Step
  BY DEF Step
<1>2. ask'.question = ask.question /\ ask'.answer = ask.answer
      /\ ask'.steps = Append(ask.steps, [tool |-> tool, ok |-> ok, cites |-> cites])
  BY DEF TakeStep, AskShape
<1>3. ask'.steps \in Seq(Step) /\ Len(ask'.steps) = Len(ask.steps) + 1
  BY <1>1, <1>2 DEF AskShape
<1>4. Len(ask'.steps) <= MaxToolSteps
  BY <1>3, AssistantBounds DEF Loop, AskShape
<1> QED BY <1>2, <1>3, <1>4 DEF TakeStep, AskShape

LEMMA ComposeType ==
    ASSUME AskShape
    PROVE  Compose \in [kind : {"none", "failed", "sop", "uncovered", "facts"},
                        facts : SUBSET Tools, cites : SUBSET Contents]
<1>1. ASSUME NEW i \in 1..Len(ask.steps)
      PROVE  ask.steps[i].tool \in Tools /\ ask.steps[i].cites \subseteq Contents
  <2>1. ask.steps[i] \in Step
    BY DEF AskShape
  <2> QED BY <2>1 DEF Step
<1>2. Cited \subseteq Contents /\ {ask.steps[i].tool : i \in Succeeded} \subseteq Tools
  BY <1>1 DEF Cited, SopSteps, Succeeded
<1> QED BY <1>2 DEF Compose, NoAnswer

LEMMA AskStepShape == ASSUME AskShape, [Next]_vars PROVE AskShape'
<1>1. CASE Operate \/ StartApi \/ UNCHANGED vars
  BY <1>1 DEF Operate, StartApi, vars, AskShape
<1>2. CASE StopApi
  <2>1. (ask = Quiet)'
    BY <1>2 DEF StopApi, Quiet, NoAnswer
  <2>2. (ask = Quiet)' => AskShape'
    BY NoAnswerType, AssistantBounds DEF Quiet, AskShape
  <2> QED BY <2>1, <2>2
<1>3. CASE (\E m \in Models : Configure(m) /\ UNCHANGED ask) \/ (\E s \in Sessions : Ingesting(s))
  BY <1>3 DEF Ingesting, AskShape
<1>4. ASSUME NEW q \in Questions, AskQuestion(q) PROVE AskShape'
  <2>1. ask' = [question |-> q, steps |-> <<>>, answer |-> NoAnswer]
    BY <1>4 DEF AskQuestion, Quiet
  <2> QED BY <2>1, NoAnswerType, AssistantBounds DEF AskShape
<1>5. ASSUME NEW tool \in Tools, ReadRows(tool) \/ CallRefused(tool) PROVE AskShape'
  BY <1>5, TakeStepShape DEF ReadRows, CallRefused
<1>6. ASSUME NEW cites \in SUBSET Contents, LookUpSop(cites) PROVE AskShape'
  BY <1>6, TakeStepShape DEF LookUpSop, Tools
<1>7. CASE Answer
  BY <1>7, ComposeType DEF Answer, AskShape
<1> QED BY <1>1, <1>2, <1>3, <1>4, <1>5, <1>6, <1>7 DEF Next, Asks

LEMMA AssistantKeepsTypes == Spec => []Types
<1>1. Init => Types
  BY SchemaInitInv, QuietShape, IdleType DEF Init, Types, KnowledgeInit, KnowledgeTypeOK
<1>2. Types /\ [Next]_vars => Types'
  BY SchemaStepInv, AssistantStepsSchema, KnowledgeStepType, AskStepShape DEF Types
<1> QED BY <1>1, <1>2, PTL DEF Spec

\* The state keeps its types (the rows of app/models.py, the bounded loop of
\* app/agents/tool_loop.py:138).
THEOREM AssistantTypes == Spec => []TypeOK
  BY AssistantKeepsTypes, TypesImplyTypeOK, PTL

-----------------------------------------------------------------------------
(* The rows *)

\* No step but the loss of its table takes or changes the row of a text: the
\* insertion is refused where there is one (app/knowledge/service.py:90-115,
\* uq_knowledge_document_checksum), for any number of ingestions at a time.
LEMMA RowStays ==
    ASSUME KnowledgeTypeOK, [Next]_vars, NEW d \in Contents, documents[d] # None,
           KnowledgeTables \subseteq schema'
    PROVE  documents'[d] = documents[d]
<1>1. CASE Operate
  BY <1>1 DEF Operate, RowsFollowTables
<1>2. CASE StartApi \/ StopApi \/ UNCHANGED vars
  BY <1>2 DEF StartApi, StopApi, vars, knowledgeVars
<1>3. ASSUME NEW m \in Models, Configure(m) PROVE documents'[d] = documents[d]
  BY <1>3 DEF Configure
<1>4. ASSUME NEW s \in Sessions, Insert(s) PROVE documents'[d] = documents[d]
  BY <1>4 DEF Insert, KnowledgeTypeOK
<1>5. ASSUME NEW s \in Sessions, IngestFails(s) \/ \E c \in Contents, by \in {"api", "script"} : LookUp(s, c, by)
      PROVE documents'[d] = documents[d]
  BY <1>5 DEF IngestFails, LookUp
<1>6. CASE Asks
  BY <1>6 DEF Asks, AskQuestion, ReadRows, CallRefused, LookUpSop, Answer, TakeStep, knowledgeVars
<1> QED BY <1>1, <1>2, <1>3, <1>4, <1>5, <1>6 DEF Next, Ingesting

THEOREM FirstEmbeddingIsKept == Spec => FirstEmbeddingStays
<1>1. Types /\ [Next]_vars => [\A d \in Contents :
        documents[d] # None /\ KnowledgeTables \subseteq schema' => documents'[d] = documents[d]]_vars
  BY RowStays DEF Types
<1> QED BY <1>1, AssistantKeepsTypes, PTL DEF Spec, FirstEmbeddingStays

-----------------------------------------------------------------------------
(* The evidence *)

\* What a step of the question under way may say.
Grounded(step) == \A d \in step.cites : documents[d] = embedder

\* While the answer is prepared and until the process stops, its steps cite rows
\* of its own model only: there are rows because there are tables, the tables
\* stay because nobody takes them from a process that serves, and rows stay as they are.
EvidenceInv ==
    /\ TablesThere \/ \A d \in Contents : documents[d] = None
    /\ ApiUp \/ ask = Quiet
    /\ \A i \in 1..Len(ask.steps) : Grounded(ask.steps[i])
    /\ AnswersAreEvidence

\* Tables a serving API has are left to it: a reset asks that nobody serves, and
\* a downgrade takes back a later revision than theirs.
LEMMA TablesStay ==
    ASSUME SchemaInv, [SchemaNext]_schemaVars, ApiUp, TablesThere
    PROVE  TablesThere'
<1>1. serving["api"] \in 2..4 /\ revision \in 0..4 /\ release \in 1..4
  BY ReleasesAssumption DEF SchemaInv, SchemaTypeOK, ApiUp, Processes
<1>2. KnowledgeTables \subseteq Adds(2)
  BY RevisionTables DEF KnowledgeTables
<1>3. CASE Downgrade
  <2>1. revision \in 3..4
    BY <1>1, <1>3 DEF Downgrade, Processes
  <2> QED BY <1>2, <1>3, <2>1, AddsApart DEF Downgrade, TablesThere
<1>4. ASSUME NEW n \in Deaths, DowngradeDies(n) PROVE TablesThere'
  <2>1. revision \in 3..4 /\ n \in 1..Len(REVISIONS[revision])
    BY <1>1, <1>4 DEF DowngradeDies, Processes
  <2>2. LastOf(revision, n) \cap Adds(2) = {}
    BY <2>1, LastAdded, AddsApart
  <2> QED BY <1>2, <1>4, <2>2 DEF DowngradeDies, TablesThere
<1>5. ~Reset /\ ~\E r \in 1..4, n \in Deaths : ResetDies(r, n)
  <2>1. "api" \in Processes /\ serving["api"] # 0
    BY <1>1 DEF Processes
  <2>2. ~Reset
    BY <2>1 DEF Reset
  <2>3. ASSUME NEW r \in 1..4, NEW n \in Deaths PROVE ~ResetDies(r, n)
    BY <2>1 DEF ResetDies
  <2> QED BY <2>2, <2>3
<1>6. CASE ~Downgrade /\ ~\E n \in Deaths : DowngradeDies(n)
  <2>1. schema \subseteq schema'
    BY <1>5, <1>6 DEF SchemaNext, Maintain, Migrate, MigrationDies, Stamp, Deploy, Start, Stop,
                      schemaVars
  <2> QED BY <2>1 DEF TablesThere
<1> QED BY <1>3, <1>4, <1>6

LEMMA QuietGrounded ==
    /\ Quiet.steps = <<>> /\ Quiet.answer = NoAnswer /\ Quiet.question = None
    /\ Len(Quiet.steps) = 0
  BY DEF Quiet

\* Rows and the model of the process stay, the question too: so do its grounds.
LEMMA GroundsStay ==
    ASSUME Types, EvidenceInv, ask' = ask,
           ask = Quiet \/ (embedder' = embedder /\ \A d \in Contents :
                              documents[d] # None => documents'[d] = documents[d])
    PROVE  (\A i \in 1..Len(ask.steps) : Grounded(ask.steps[i]))' /\ AnswersAreEvidence'
<1>1. CASE ask = Quiet
  <2>1. (ask = Quiet)' /\ Len(ask'.steps) = 0
    BY <1>1, QuietGrounded DEF Quiet, NoAnswer
  <2>2. ask'.answer.kind = "none" /\ ask'.answer.facts = {}
    BY <1>1, QuietGrounded, NoAnswerType
  <2> QED BY <2>1, <2>2 DEF AnswersAreEvidence
<1>2. CASE embedder' = embedder /\ \A d \in Contents : documents[d] # None => documents'[d] = documents[d]
  <2>1. embedder # None
    BY NoneIsNoModel DEF Types, KnowledgeTypeOK
  <2>2. ASSUME NEW d \in Contents, documents[d] = embedder PROVE documents'[d] = embedder'
    BY <1>2, <2>1, <2>2
  <2>3. ASSUME NEW i \in 1..Len(ask.steps) PROVE Grounded(ask.steps[i])'
    <3>1. ask.steps[i] \in Step /\ Grounded(ask.steps[i])
      BY DEF Types, AskShape, EvidenceInv
    <3>2. ask.steps[i].cites \subseteq Contents
      BY <3>1 DEF Step
    <3> QED BY <2>2, <3>1, <3>2 DEF Grounded
  <2>4. ask.answer.cites \subseteq Contents
    BY DEF Types, AskShape
  <2>5. AnswersAreEvidence'
    BY <2>2, <2>4 DEF EvidenceInv, AnswersAreEvidence, SopSteps, Succeeded, Called
  <2> QED BY <2>3, <2>5
<1> QED BY <1>1, <1>2

LEMMA TakeStepGrounded ==
    ASSUME Types, EvidenceInv, Loop, NEW tool \in Tools, NEW ok \in BOOLEAN,
           NEW cites \in SUBSET Contents, TakeStep(tool, ok, cites),
           \A d \in cites : documents[d] = embedder
    PROVE  EvidenceInv'
<1>1. /\ ask'.question = ask.question /\ ask'.answer = ask.answer
      /\ ask'.steps = Append(ask.steps, [tool |-> tool, ok |-> ok, cites |-> cites])
  BY TakeStepShape DEF Types
<1>2. UNCHANGED <<schemaVars, knowledgeVars>>
  BY DEF TakeStep
<1>3. ApiUp'
  <2>1. ask # Quiet
    BY QuietGrounded DEF Loop, Asking
  <2> QED BY <1>2, <2>1 DEF EvidenceInv, ApiUp, schemaVars
<1>4. ASSUME NEW i \in 1..Len(ask'.steps) PROVE Grounded(ask.steps[i])'
  <2>1. ask.steps \in Seq(Step) /\ [tool |-> tool, ok |-> ok, cites |-> cites] \in Step
    BY DEF Types, AskShape, Step
  <2>2. CASE i \in 1..Len(ask.steps)
    <3>1. ask'.steps[i] = ask.steps[i] /\ Grounded(ask.steps[i])
      BY <1>1, <2>1, <2>2 DEF EvidenceInv
    <3> QED BY <1>1, <1>2, <3>1 DEF Grounded, knowledgeVars
  <2>3. CASE i = Len(ask.steps) + 1
    <3>1. ask'.steps[i] = [tool |-> tool, ok |-> ok, cites |-> cites]
      BY <1>1, <2>1, <2>3
    <3> QED BY <1>1, <1>2, <3>1 DEF Grounded, knowledgeVars
  <2> QED BY <1>1, <1>4, <2>1, <2>2, <2>3
<1>5. AnswersAreEvidence'
  BY <1>1, NoAnswerType DEF Loop, Asking, AnswersAreEvidence
<1>6. (TablesThere \/ \A d \in Contents : documents[d] = None)'
  BY <1>2 DEF EvidenceInv, TablesThere, schemaVars, knowledgeVars
<1> QED BY <1>3, <1>4, <1>5, <1>6 DEF EvidenceInv

\* The answer says what grounded steps said, and what the knowledge base said of
\* it first.
LEMMA ComposeGrounded ==
    ASSUME Types, EvidenceInv
    PROVE  /\ Compose.kind = "sop" => Compose.cites # {} /\ \A d \in Compose.cites : documents[d] = embedder
           /\ Compose.kind = "facts" => SopSteps = {}
<1>1. \A d \in Cited : documents[d] = embedder
  BY DEF Cited, SopSteps, Succeeded, EvidenceInv, Grounded
<1>3. CASE Succeeded = {}
  BY <1>3 DEF Compose, NoAnswer
<1>4. CASE Succeeded # {} /\ SopSteps # {}
  <2>1. Compose = [kind |-> IF Cited # {} THEN "sop" ELSE "uncovered", facts |-> {}, cites |-> Cited]
    BY <1>4 DEF Compose, NoAnswer
  <2> QED BY <1>1, <2>1
<1>5. CASE Succeeded # {} /\ SopSteps = {}
  <2>1. Compose = [kind |-> "facts", facts |-> {ask.steps[i].tool : i \in Succeeded}, cites |-> {}]
    BY <1>5 DEF Compose, NoAnswer
  <2> QED BY <1>5, <2>1
<1> QED BY <1>3, <1>4, <1>5

\* The look-up of the knowledge base is always wanted: the loop ends after it or
\* with the budget.
LEMMA LoopEnds ==
    ASSUME Types, ~Loop, Asking
    PROVE  "lookup_sop" \in Called \/ Len(ask.steps) = MaxToolSteps
<1>1. "lookup_sop" \in Wanted(ask.question)
  BY DEF Wanted
<1>2. Len(ask.steps) \in Nat /\ Len(ask.steps) <= MaxToolSteps /\ MaxToolSteps \in Nat
  BY AssistantBounds DEF Types, AskShape
<1> QED BY <1>1, <1>2 DEF Loop

\* What happens to the database or beside the question leaves its grounds.
LEMMA OperateKeepsEvidence == ASSUME Types, Types', EvidenceInv, Operate PROVE EvidenceInv'
<1>1. ask' = ask /\ embedder' = embedder /\ ingest' = ingest
  BY DEF Operate
<1>2. ApiUp' = ApiUp
  <2>1. serving'["api"] = serving["api"]
    BY DEF Operate, Maintain, Migrate, MigrationDies, Downgrade, DowngradeDies, Reset, ResetDies,
           Stamp, Deploy, Start, Stop, Types, SchemaInv, SchemaTypeOK, Processes
  <2> QED BY <2>1 DEF ApiUp
<1>3. (TablesThere \/ \A d \in Contents : documents[d] = None)'
  BY DEF Operate, RowsFollowTables, TablesThere
<1>4. ApiUp \/ ask = Quiet
  BY DEF EvidenceInv
<1>5. ApiUp => \A d \in Contents : documents[d] # None => documents'[d] = documents[d]
  <2>1. ApiUp /\ TablesThere => TablesThere'
    BY TablesStay, AssistantStepsSchema DEF Types, Next
  <2>2. TablesThere' => documents' = documents
    BY DEF Operate, RowsFollowTables, TablesThere
  <2> QED BY <2>1, <2>2 DEF EvidenceInv
<1>6. (\A i \in 1..Len(ask.steps) : Grounded(ask.steps[i]))' /\ AnswersAreEvidence'
  BY <1>1, <1>4, <1>5, GroundsStay
<1>7. (ApiUp \/ ask = Quiet)'
  BY <1>1, <1>2, <1>4 DEF Quiet, NoAnswer
<1> QED BY <1>3, <1>6, <1>7 DEF EvidenceInv

LEMMA EvidenceStep == ASSUME Types, Types', EvidenceInv, [Next]_vars PROVE EvidenceInv'
<1>q. ASSUME ask' = Quiet PROVE (ask = Quiet)' /\ (\A i \in 1..Len(ask.steps) : Grounded(ask.steps[i]))' /\ AnswersAreEvidence'
  <2>1. (ask = Quiet)' /\ Len(ask'.steps) = 0
    BY <1>q, QuietGrounded DEF Quiet, NoAnswer
  <2>2. ask'.answer.kind = "none" /\ ask'.answer.facts = {}
    BY <1>q, QuietGrounded, NoAnswerType
  <2> QED BY <2>1, <2>2 DEF AnswersAreEvidence
<1>1. CASE Operate
  BY <1>1, OperateKeepsEvidence
<1>2. CASE StartApi
  <2>1. ask = Quiet /\ ask' = Quiet
    BY <1>2 DEF StartApi, Start, EvidenceInv, ApiUp
  <2>2. (TablesThere \/ \A d \in Contents : documents[d] = None)'
    BY <1>2 DEF StartApi, Start, EvidenceInv, TablesThere
  <2> QED BY <1>q, <2>1, <2>2 DEF EvidenceInv
<1>3. CASE StopApi
  <2>1. ask' = Quiet
    BY <1>3 DEF StopApi
  <2>2. (TablesThere \/ \A d \in Contents : documents[d] = None)'
    BY <1>3 DEF StopApi, Stop, EvidenceInv, TablesThere
  <2> QED BY <1>q, <2>1, <2>2 DEF EvidenceInv
<1>4. ASSUME UNCHANGED <<schemaVars, documents, embedder, ask>> PROVE EvidenceInv'
  <2>1. (\A i \in 1..Len(ask.steps) : Grounded(ask.steps[i]))' /\ AnswersAreEvidence'
    BY <1>4, GroundsStay
  <2>2. (ApiUp \/ ask = Quiet)'
    BY <1>4 DEF EvidenceInv, ApiUp, schemaVars, Quiet, NoAnswer
  <2>3. (TablesThere \/ \A d \in Contents : documents[d] = None)'
    BY <1>4 DEF EvidenceInv, TablesThere, schemaVars
  <2> QED BY <2>1, <2>2, <2>3 DEF EvidenceInv
<1>5. ASSUME NEW m \in Models, Configure(m) /\ UNCHANGED ask PROVE EvidenceInv'
  BY <1>4, <1>5 DEF Configure
<1>6. ASSUME NEW s \in Sessions, Ingesting(s) PROVE EvidenceInv'
  <2>1. CASE Insert(s)
    <3>1. UNCHANGED <<schemaVars, embedder, ask>> /\ TablesThere
      BY <1>6, <2>1 DEF Ingesting, Insert
    <3>2. ASSUME NEW d \in Contents, documents[d] # None PROVE documents'[d] = documents[d]
      BY <2>1, <3>2 DEF Insert, Types, KnowledgeTypeOK
    <3>3. (\A i \in 1..Len(ask.steps) : Grounded(ask.steps[i]))' /\ AnswersAreEvidence'
      BY <3>1, <3>2, GroundsStay
    <3>4. (ApiUp \/ ask = Quiet)' /\ TablesThere'
      BY <3>1 DEF EvidenceInv, ApiUp, TablesThere, schemaVars, Quiet, NoAnswer
    <3> QED BY <3>3, <3>4 DEF EvidenceInv
  <2>2. CASE ~Insert(s)
    BY <1>4, <1>6, <2>2 DEF Ingesting, LookUp, IngestFails
  <2> QED BY <2>1, <2>2
<1>7. ASSUME NEW q \in Questions, AskQuestion(q) PROVE EvidenceInv'
  <2>1. ask' = [question |-> q, steps |-> <<>>, answer |-> NoAnswer]
    BY <1>7 DEF AskQuestion, Quiet
  <2>2. Len(ask'.steps) = 0 /\ ask'.answer.kind = "none" /\ ask'.answer.facts = {}
    BY <2>1, NoAnswerType
  <2>3. ApiUp' /\ (TablesThere \/ \A d \in Contents : documents[d] = None)'
    BY <1>7 DEF AskQuestion, ApiUp, EvidenceInv, TablesThere, schemaVars, knowledgeVars
  <2> QED BY <2>2, <2>3 DEF EvidenceInv, AnswersAreEvidence
<1>8. ASSUME NEW tool \in Tools, ReadRows(tool) \/ CallRefused(tool) PROVE EvidenceInv'
  <2>1. Loop
    BY <1>8 DEF ReadRows, CallRefused
  <2>2. PICK ok \in BOOLEAN : TakeStep(tool, ok, {})
    BY <1>8 DEF ReadRows, CallRefused
  <2>3. {} \in SUBSET Contents /\ \A d \in {} : documents[d] = embedder
    OBVIOUS
  <2> QED BY <2>1, <2>2, <2>3, TakeStepGrounded, Zenon
<1>9. ASSUME NEW cites \in SUBSET Contents, LookUpSop(cites) PROVE EvidenceInv'
  BY <1>9, TakeStepGrounded DEF LookUpSop, Evidence, Index, Tools
<1>10. CASE Answer
  <2>1. ask'.question = ask.question /\ ask'.steps = ask.steps /\ ask'.answer = Compose
    BY <1>10 DEF Answer, Types, AskShape
  <2>2. UNCHANGED <<schemaVars, knowledgeVars>>
    BY <1>10 DEF Answer
  <2>3. AnswersAreEvidence'
    <3>1. "lookup_sop" \in Called \/ Len(ask.steps) = MaxToolSteps
      BY <1>10, LoopEnds DEF Answer
    <3>2. Called' = Called /\ SopSteps' = SopSteps
      BY <2>1 DEF Called, SopSteps, Succeeded
    <3> QED BY <2>1, <2>2, <3>1, <3>2, ComposeGrounded DEF AnswersAreEvidence, knowledgeVars
  <2>4. (\A i \in 1..Len(ask.steps) : Grounded(ask.steps[i]))'
    BY <2>1, <2>2 DEF EvidenceInv, Grounded, knowledgeVars
  <2>5. ask # Quiet
    BY <1>10, QuietGrounded DEF Answer, Asking
  <2>6. ApiUp' /\ (TablesThere \/ \A d \in Contents : documents[d] = None)'
    BY <2>2, <2>5 DEF EvidenceInv, ApiUp, TablesThere, schemaVars, knowledgeVars
  <2> QED BY <2>3, <2>4, <2>6 DEF EvidenceInv
<1>11. CASE UNCHANGED vars
  BY <1>4, <1>11 DEF vars, knowledgeVars
<1> QED BY <1>1, <1>2, <1>3, <1>5, <1>6, <1>7, <1>8, <1>9, <1>10, <1>11 DEF Next, Asks

\* Whatever is ingested, reconfigured, migrated, torn or asked meanwhile, an answer
\* cites only what the answering process can read, and passes over the knowledge
\* base only where its look-up was refused or not reached
\* (app/knowledge/service.py:118-135 _load_index, app/agents/tool_loop.py:171
\* compose_answer).
THEOREM AnswersCiteEvidence == Spec => []AnswersAreEvidence
<1>1. Init => EvidenceInv
  <2> SUFFICES ASSUME Init PROVE EvidenceInv
    OBVIOUS
  <2>1. ask = Quiet /\ \A d \in Contents : documents[d] = None
    BY DEF Init, KnowledgeInit
  <2>2. Len(ask.steps) = 0 /\ ask.answer.kind = "none" /\ ask.answer.facts = {}
    BY <2>1, QuietGrounded, NoAnswerType
  <2> QED BY <2>1, <2>2 DEF EvidenceInv, AnswersAreEvidence
<1>2. Types /\ Types' /\ EvidenceInv /\ [Next]_vars => EvidenceInv'
  BY EvidenceStep
<1>3. EvidenceInv => AnswersAreEvidence
  BY DEF EvidenceInv
<1> QED BY <1>1, <1>2, <1>3, AssistantKeepsTypes, PTL DEF Spec

=============================================================================
