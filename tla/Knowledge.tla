------------------------------ MODULE Knowledge ------------------------------
(***************************************************************************)
(* The SOP knowledge base (app/knowledge): documents are ingested once per  *)
(* text, embedded by the model their process is configured with, and found  *)
(* only by a process that is configured with the same one.                  *)
(*                                                                         *)
(* Requests reach it through the API, which read its settings when it       *)
(* started; scripts/seed_knowledge.py and the bootstrap reach it beside the *)
(* API, with the settings of today and without asking for the schema.  A    *)
(* text is a model value, its chunks and scores are not modelled: a search  *)
(* scores any set of the texts that share a term with the question.         *)
(***************************************************************************)
EXTENDS SchemaGuard, FiniteSets

CONSTANTS
    None,
    Contents,   \* texts of documents
    Models,     \* embedding models
    Sessions    \* ingestions under way

ASSUME NoneIsNoModel == None \notin Models

VARIABLES
    documents,  \* per text the model its chunks were embedded by, None without a row
    ingest,     \* per session the text it found missing
    configured, \* the embedding model of the settings file
    embedder    \* the one the running API works with

knowledgeVars == <<documents, ingest, configured, embedder>>

Idle == [by |-> "nobody", content |-> None, model |-> None]

KnowledgeTypeOK ==
    /\ documents \in [Contents -> Models \cup {None}]
    /\ ingest \in [Sessions -> [by : {"nobody", "api", "script"},
                                content : Contents \cup {None}, model : Models \cup {None}]]
    /\ configured \in Models
    /\ embedder \in Models

KnowledgeInit ==
    /\ documents = [d \in Contents |-> None]
    /\ ingest = [s \in Sessions |-> Idle]
    /\ configured \in Models
    /\ embedder = configured

-----------------------------------------------------------------------------
(* Who uses it *)

\* Release 2 brought the tables and the routes.
ApiUp == serving["api"] >= 2

KnowledgeTables == {"knowledge_documents", "knowledge_chunks"}
TablesThere == KnowledgeTables \subseteq schema

\* Tables that are dropped take their rows along.
RowsFollowTables ==
    documents' = IF KnowledgeTables \subseteq schema' THEN documents
                 ELSE [d \in Contents |-> None]

Configure(m) ==
    /\ configured' = m
    /\ UNCHANGED <<schemaVars, documents, ingest, embedder>>

-----------------------------------------------------------------------------
(* ingest_document: a look-up by checksum, the embedding, one transaction    *)

\* Also each document of seed_corpus.  A text that has its row is returned as it
\* is, whatever model it was embedded by: nothing changes.
LookUp(s, d, by) ==
    /\ ingest[s] = Idle
    /\ TablesThere /\ documents[d] = None
    /\ by = "api" => ApiUp
    /\ ingest' = [ingest EXCEPT ![s] =
            [by |-> by, content |-> d, model |-> IF by = "api" THEN embedder ELSE configured]]
    /\ UNCHANGED <<schemaVars, documents, configured, embedder>>

\* Mutant: without uq_knowledge_document_checksum the later row wins.
InsertAnyway(s) ==
    /\ ingest[s] # Idle
    /\ TablesThere
    /\ documents' = [documents EXCEPT ![ingest[s].content] = ingest[s].model]
    /\ ingest' = [ingest EXCEPT ![s] = Idle]
    /\ UNCHANGED <<schemaVars, configured, embedder>>

Insert(s) ==
    /\ ingest[s] # Idle
    /\ TablesThere /\ documents[ingest[s].content] = None
    /\ documents' = [documents EXCEPT ![ingest[s].content] = ingest[s].model]
    /\ ingest' = [ingest EXCEPT ![s] = Idle]
    /\ UNCHANGED <<schemaVars, configured, embedder>>

\* The embedding provider raises, the process dies, the tables are gone or the
\* unique constraint refuses the row of a text somebody else committed.
IngestFails(s) ==
    /\ ingest[s] # Idle
    /\ ingest' = [ingest EXCEPT ![s] = Idle]
    /\ UNCHANGED <<schemaVars, documents, configured, embedder>>

-----------------------------------------------------------------------------
(* search_knowledge and answer_question *)

\* Mutant: chunks of every model are compared.
IndexOfAll(m) == {d \in Contents : documents[d] # None}

\* _load_index: chunks of other models are skipped.
Index(m) == {d \in Contents : documents[d] = m}

\* rank and the floor: what may be cited for a question on these texts.  A text
\* without a term of the question scores zero, whichever others score enough
\* depends on the whole index.
Evidence(m, topic) == SUBSET (Index(m) \cap topic)

=============================================================================
