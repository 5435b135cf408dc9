------------------------------ MODULE Assistant ------------------------------
(***************************************************************************)
(* POST /api/v1/agent/ask: a bounded loop of read-only tools                *)
(* (app/agents/tool_loop.py, app/agents/tools.py) over the knowledge base   *)
(* and the rows of an inquiry, in an API process that is started, stopped,  *)
(* reconfigured and migrated under.  This is where SchemaGuard, Knowledge   *)
(* and the loop meet.                                                       *)
(***************************************************************************)
EXTENDS Knowledge

CONSTANTS
    Questions,      \* what may be asked, see Question
    MaxToolSteps    \* settings.agent_max_tool_steps

VARIABLE ask    \* the question being answered, its steps, and the answer

vars == <<schemaVars, knowledgeVars, ask>>

Hints == {"quote", "rate", "schedule"}

\* inquiry: an inquiry id is recognised in the text, known: the tenant has that
\* inquiry, hints: business words in it, words: anything beside ids, topic: the
\* texts that share a term with it.
Question == [inquiry : BOOLEAN, known : BOOLEAN, hints : SUBSET Hints, words : BOOLEAN,
             topic : SUBSET Contents]

ASSUME AssistantBounds ==
    /\ Questions \subseteq Question
    /\ MaxToolSteps \in Nat \ {0}

Tools == {"get_inquiry", "get_quote_status", "list_rate_quotes", "list_schedule_options",
          "lookup_sop"}

Step == [tool : Tools, ok : BOOLEAN, cites : SUBSET Contents]
NoAnswer == [kind |-> "none", facts |-> {}, cites |-> {}]
Quiet == [question |-> None, steps |-> <<>>, answer |-> NoAnswer]

AskTypeOK ==
    /\ ask.question \in Questions \cup {None}
    /\ Len(ask.steps) <= MaxToolSteps
    /\ \A i \in 1..Len(ask.steps) : ask.steps[i] \in Step
    /\ ask.answer \in [kind : {"none", "failed", "sop", "uncovered", "facts"},
                       facts : SUBSET Tools, cites : SUBSET Contents]

TypeOK == SchemaTypeOK /\ KnowledgeTypeOK /\ AskTypeOK

Init == SchemaInit /\ KnowledgeInit /\ ask = Quiet

-----------------------------------------------------------------------------
(* DeterministicToolPolicy *)

Called == {ask.steps[i].tool : i \in 1..Len(ask.steps)}

\* The tools a question asks for, in the order they are considered: lookup_sop
\* always, and last.
Wanted(q) ==
    (IF q.inquiry THEN {"get_inquiry"} ELSE {}) \cup
    (IF q.inquiry /\ "quote" \in q.hints THEN {"get_quote_status"} ELSE {}) \cup
    (IF q.inquiry /\ "rate" \in q.hints THEN {"list_rate_quotes"} ELSE {}) \cup
    (IF q.inquiry /\ "schedule" \in q.hints THEN {"list_schedule_options"} ELSE {}) \cup
    {"lookup_sop"}

ORDER == <<"get_inquiry", "get_quote_status", "list_rate_quotes", "list_schedule_options",
           "lookup_sop">>

NextCall(tool) == \E i \in DOMAIN ORDER :
    /\ ORDER[i] = tool
    /\ tool \in Wanted(ask.question) \ Called
    /\ \A j \in 1..(i - 1) : ORDER[j] \notin Wanted(ask.question) \ Called

-----------------------------------------------------------------------------
(* ToolRegistry.invoke: the loop goes on whether the tool answers or refuses *)

Asking == ask.question # None /\ ask.answer = NoAnswer

Loop == Asking /\ Len(ask.steps) < MaxToolSteps /\ Wanted(ask.question) \ Called # {}

TakeStep(tool, ok, cites) ==
    /\ ask' = [ask EXCEPT !.steps = Append(@, [tool |-> tool, ok |-> ok, cites |-> cites])]
    /\ UNCHANGED <<schemaVars, knowledgeVars>>

\* What a tool reads.
Reads == [get_inquiry |-> {"inquiries"}, get_quote_status |-> {"customer_quotes"},
          list_rate_quotes |-> {"rate_snapshots"}, list_schedule_options |-> {"schedule_options"},
          lookup_sop |-> KnowledgeTables]

\* A look-up of rows: only get_inquiry refuses an inquiry the tenant lacks, the
\* others report that there is nothing.
ReadRows(tool) ==
    /\ Loop /\ NextCall(tool) /\ tool # "lookup_sop"
    /\ Reads[tool] \subseteq schema
    /\ tool = "get_inquiry" => ask.question.known
    /\ TakeStep(tool, TRUE, {})

\* cites = {}: answered = false, a refusal the tool reports as a success.
LookUpSop(cites) ==
    /\ Loop /\ NextCall("lookup_sop") /\ ask.question.words
    /\ Reads["lookup_sop"] \subseteq schema
    /\ cites \in Evidence(embedder, ask.question.topic)
    /\ TakeStep("lookup_sop", TRUE, cites)

\* Not found, invalid arguments, or the tool failed: recorded, never retried.
CallRefused(tool) ==
    /\ Loop /\ NextCall(tool)
    /\ TakeStep(tool, FALSE, {})

-----------------------------------------------------------------------------
(* run_tool_loop *)

AskQuestion(q) ==
    /\ ApiUp /\ ~Asking
    /\ ask' = [Quiet EXCEPT !.question = q]
    /\ UNCHANGED <<schemaVars, knowledgeVars>>

Succeeded == {i \in 1..Len(ask.steps) : ask.steps[i].ok}
SopSteps == {i \in Succeeded : ask.steps[i].tool = "lookup_sop"}
Cited == UNION {ask.steps[i].cites : i \in SopSteps}

\* compose_answer: what the knowledge base said, or that it does not cover the
\* question, takes the place of every other finding.
Compose ==
    IF Succeeded = {} THEN [NoAnswer EXCEPT !.kind = "failed"]
    ELSE IF SopSteps # {}
    THEN [NoAnswer EXCEPT !.kind = IF Cited # {} THEN "sop" ELSE "uncovered", !.cites = Cited]
    ELSE [NoAnswer EXCEPT !.kind = "facts", !.facts = {ask.steps[i].tool : i \in Succeeded}]

\* The policy is done or the budget spent.
Answer ==
    /\ Asking /\ ~Loop
    /\ ask' = [ask EXCEPT !.answer = Compose]
    /\ UNCHANGED <<schemaVars, knowledgeVars>>

-----------------------------------------------------------------------------
(* The processes of SchemaGuard, with what they take along *)

StartApi ==
    /\ Start("api")
    /\ embedder' = configured
    /\ UNCHANGED <<documents, ingest, configured, ask>>

StopApi ==
    /\ Stop("api")
    /\ ingest' = [s \in Sessions |-> IF ingest[s].by = "api" THEN Idle ELSE ingest[s]]
    /\ ask' = Quiet
    /\ UNCHANGED <<documents, configured, embedder>>

Operate ==
    /\ Maintain \/ Start("worker") \/ Stop("worker")
    /\ RowsFollowTables
    /\ UNCHANGED <<ingest, configured, embedder, ask>>

Ingesting(s) ==
    /\ \/ \E d \in Contents, by \in {"api", "script"} : LookUp(s, d, by)
       \/ Insert(s)
       \/ IngestFails(s)
    /\ UNCHANGED ask

Asks ==
    \/ \E q \in Questions : AskQuestion(q)
    \/ \E tool \in Tools : ReadRows(tool) \/ CallRefused(tool)
    \/ \E cites \in SUBSET Contents : LookUpSop(cites)
    \/ Answer

Next ==
    \/ Operate \/ StartApi \/ StopApi
    \/ \E m \in Models : Configure(m) /\ UNCHANGED ask
    \/ \E s \in Sessions : Ingesting(s)
    \/ Asks

Spec == Init /\ [][Next]_vars

-----------------------------------------------------------------------------

\* An answer from the SOPs cites, and everything it cites is stored under the
\* embedding model the answering process works with, although scripts ingest
\* under another model meanwhile (app/knowledge/service.py, "mixing embedding
\* spaces produces confident nonsense"; tests/test_knowledge.py).  An answer that
\* tells what the other tools found, and so passes over the knowledge base, is
\* given only where its look-up was refused or the budget ended before it.  Of an
\* inquiry the tenant lacks such an answer may still tell that there is no quote
\* yet: only get_inquiry asks whether there is one.
AnswersAreEvidence ==
    /\ ask.answer.kind = "sop" =>
        ask.answer.cites # {} /\ \A d \in ask.answer.cites : documents[d] = embedder
    /\ ask.answer.kind = "facts" =>
        /\ SopSteps = {}
        /\ "lookup_sop" \in Called \/ Len(ask.steps) = MaxToolSteps

\* The first ingestion of a text decides the model it is found by, for as long
\* as the tables last: no race and no repetition changes it.  It is also why a
\* corpus cannot be migrated to another model by ingesting it again, as
\* app/knowledge/service.py:122 says it is.
FirstEmbeddingStays == [][\A d \in Contents :
    documents[d] # None /\ KnowledgeTables \subseteq schema' => documents'[d] = documents[d]]_vars

=============================================================================
