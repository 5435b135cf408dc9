---------------------------- MODULE GraphPipeline ----------------------------
(***************************************************************************)
(* The pipeline as a graph (app/graph): a run walks the nodes, ends at the  *)
(* first one that halts or is refused, and leaves a cursor from which a     *)
(* later run resumes.  Unlike the orchestrator, a node holds no row of an   *)
(* earlier one: it reads the database again, and the state it is handed     *)
(* carries identifiers only.  A node that waits for a provider is two or    *)
(* more steps, so runs of one inquiry overlap inside it.                    *)
(*                                                                         *)
(* After each node the checkpoint is written and the session committed:     *)
(* what a refused node had changed stays.  A ValueError or KeyError of what *)
(* a node awaits is caught like a refusal: the run is recorded as failed    *)
(* there, however much the node had done, and a resumed run does it again.  *)
(* The cursor is a row of its own, written when the graph has ended; a run  *)
(* that dies, or raises what no node catches, leaves none.                  *)
(***************************************************************************)
EXTENDS FreightDB, FiniteSetsExt, Sequences, Harness

CONSTANTS
    Runs,               \* graph requests in flight at a time
    StartNodes,         \* start nodes requests name; resumed runs start anywhere
    TogetherNodes,      \* bound: those of requests that begin beside another
    LaterNodes,         \* bound: those of requests once two runs have overlapped
    MaxQuotesTogether,  \* bound on the quotes priced once they have
    SeedA, SeedB,       \* the two suppliers of _DEMO_QUOTES, in their order
    Production,         \* settings.environment = "production"
    DemoShortcuts,      \* settings.allow_demo_shortcuts
    MaxFailures         \* bound on the runs that die or end in an error

ASSUME GraphBounds ==
    /\ Suppliers = {SeedA, SeedB} /\ Expected >= 2
    /\ IsFiniteSet(Runs) /\ MaxQuotesTogether \in 0..MaxQuotes
    /\ TogetherNodes \subseteq StartNodes /\ LaterNodes \subseteq StartNodes
    /\ Production \in BOOLEAN /\ DemoShortcuts \in BOOLEAN
    /\ MaxFailures \in Nat

VARIABLES
    run,        \* per request: the node it is at and the state it carries
    cursor,     \* the latest pipeline_graph_runs row
    crashes,    \* runs that ended without a cursor so far
    faults,     \* runs so far that an error of what they awaited ended, with a cursor
    overlapped  \* whether two runs of the inquiry were ever in flight at once

vars == <<inquiry, rfq, supplierQuote, quote, approvals, bookings,
          rfqMailed, mailed, ordered, run, cursor, crashes, faults, overlapped>>

NODES == {"understand", "clarify", "schedules", "rates", "rfq", "supplier_quotes",
          "optimize", "hitl_review", "quote_send", "booking", "vessel_tracking"}

ENTRY_NODES == NODES \ {"clarify"}

HALT_STATUSES == {"waiting_clarification", "waiting_supplier_quotes", "waiting_approval", "failed"}

\* Inside a node, while a provider or an agent is awaited.
Awaiting == {"searching", "drafting", "mailing_rfq", "rfq_mailed", "quote_mailed", "ordered"}

\* seen: the inquiry status the node has loaded; rfq, quote: the identifiers in
\* the state, 0 if absent; result: the status the graph ended with.  The state
\* keeps an entry only while a node ahead reads it.
NoRun == [at |-> "idle", seen |-> "none", rfq |-> 0, quote |-> 0, synth |-> FALSE,
          tracksOnly |-> FALSE, node |-> "none", result |-> "none"]

NoCursor == [status |-> "none", node |-> "none", booked |-> FALSE]

\* Rows, runs and cursor keep their shapes.
GraphTypeOK ==
    /\ DBTypeOK
    /\ run \in [Runs ->
        [at : NODES \cup Awaiting \cup {"idle", "end"}, seen : InquiryStatus \cup {"none"},
         rfq : Rfqs \cup {0}, quote : Quotes \cup {0}, synth : BOOLEAN,
         tracksOnly : BOOLEAN, node : NODES \cup {"none"},
         result : HALT_STATUSES \cup {"completed", "none"}]]
    /\ cursor \in [status : HALT_STATUSES \cup {"completed", "none"},
                   node : ENTRY_NODES \cup {"none"}, booked : BOOLEAN]
    /\ crashes \in 0..MaxFailures
    /\ faults \in 0..MaxFailures
    /\ overlapped \in BOOLEAN

ASSUME StartNodes \subseteq ENTRY_NODES

GraphInit ==
    /\ DBInit
    /\ run = [r \in Runs |-> NoRun]
    /\ cursor = NoCursor
    /\ crashes = 0
    /\ faults = 0
    /\ overlapped = FALSE

-----------------------------------------------------------------------------
(* What a node finds in the database *)

Known    == {x \in Rfqs : rfq[x].status # "absent"}
NewestRfq == IF Known = {} THEN 0 ELSE Max(Known)
Priced   == {q \in Quotes : quote[q] # "absent"}
NewestQuote == IF Priced = {} THEN 0 ELSE Max(Priced)

\* The state is a cursor, the database the truth: an identifier the state lacks
\* is the one of the newest row.
RfqId(r)   == IF run[r].rfq # 0 THEN run[r].rfq ELSE NewestRfq
QuoteId(r) == IF run[r].quote # 0 THEN run[r].quote ELSE NewestQuote

Answers(x) == Cardinality(RowsOf(x))

-----------------------------------------------------------------------------
(* How a run moves *)

At(r, place) == run[r].at = place

Goto(r, place) ==
    run' = [run EXCEPT ![r].at = place, ![r].seen = "none",
                       ![r].quote = IF place = "vessel_tracking" THEN 0 ELSE @]

\* The node the run is in reports a status; the graph ends.
Halt(r, node, result) ==
    run' = [run EXCEPT ![r] = [NoRun EXCEPT
        !.at = "end", !.tracksOnly = run[r].tracksOnly, !.node = node, !.result = result]]

\* advance_status with the status the node has loaded.  When it refuses, the
\* node fails and what it had written is committed all the same.
AdvanceOrFail(r, seen, target, node, next) ==
    IF CanTransition(seen, target)
    THEN inquiry' = Advanced(seen, target) /\ Goto(r, next)
    ELSE UNCHANGED inquiry /\ Halt(r, node, "failed")

-----------------------------------------------------------------------------
(* run_graph and resume_graph *)

EffectiveShortcuts(requested) ==
    ~Production /\ IF requested = "unset" THEN DemoShortcuts ELSE requested = "yes"

Seeding == {"understand", "schedules", "rates", "rfq", "supplier_quotes"}

\* Another run is in flight, or was beside one of this inquiry.
Together(r) == overlapped \/ \E o \in Runs \ {r} : ~At(o, "idle")

Launch(r, node, requested) ==
    /\ At(r, "idle")
    /\ Together(r) => Cardinality(Priced) <= MaxQuotesTogether
    /\ run' = [run EXCEPT ![r] = [NoRun EXCEPT
            !.at = node, !.synth = (node \in Seeding /\ EffectiveShortcuts(requested)),
            !.tracksOnly = (node = "vessel_tracking")]]
    /\ overlapped' = Together(r)
    /\ UNCHANGED <<dbVars, worldVars, cursor, crashes, faults>>

RunGraph(r, node, requested) ==
    /\ node \in IF overlapped THEN LaterNodes
               ELSE IF Together(r) THEN TogetherNodes ELSE StartNodes
    /\ Launch(r, node, requested)

RESUME_POINTS ==
    [waiting_clarification |-> "understand", waiting_supplier_quotes |-> "supplier_quotes",
     waiting_approval |-> "quote_send"]

\* Where a run with this result is resumed: a failed one at the node that failed.
ResumeNode(result, node) ==
    CASE result \in DOMAIN RESUME_POINTS -> RESUME_POINTS[result]
      [] result = "failed"               -> node
      [] OTHER                           -> "none"

\* What the caller of the first run had asked for is not carried over.
ResumeGraph(r) ==
    /\ cursor.node # "none"
    /\ Launch(r, cursor.node, "unset")

\* Mutant: only a run that halts is recorded.
RecordHalt(r) ==
    /\ At(r, "end")
    /\ cursor' = IF run[r].result = "completed" THEN cursor
                 ELSE [status |-> run[r].result, node |-> ResumeNode(run[r].result, run[r].node),
                       booked |-> ~run[r].tracksOnly]
    /\ run' = [run EXCEPT ![r] = NoRun]
    /\ UNCHANGED <<dbVars, worldVars, crashes, faults, overlapped>>

\* booked: the run came through the booking node or should have.
Record(r) ==
    /\ At(r, "end")
    /\ cursor' = [status |-> run[r].result, node |-> ResumeNode(run[r].result, run[r].node),
                  booked |-> ~run[r].tracksOnly]
    /\ run' = [run EXCEPT ![r] = NoRun]
    /\ UNCHANGED <<dbVars, worldVars, crashes, faults, overlapped>>

\* The process dies, or what no node catches is raised: a connection lost, a
\* status that httpx or smtplib refuses.
Die(r) ==
    /\ ~At(r, "idle") /\ crashes + faults < MaxFailures
    /\ crashes' = crashes + 1
    /\ run' = [run EXCEPT ![r] = NoRun]
    /\ UNCHANGED <<dbVars, worldVars, cursor, faults, overlapped>>

-----------------------------------------------------------------------------
(* The nodes *)

\* The node a run is in while it awaits a provider or an agent whose ValueError
\* or KeyError the node catches: an answer that is no JSON, a value missing in it.
Awaited == [searching |-> "schedules", rates |-> "rates", mailing_rfq |-> "rfq",
            optimize |-> "optimize", quote_send |-> "quote_send", ordered |-> "booking",
            vessel_tracking |-> "vessel_tracking"]

\* The node fails with what it has done: mailing_rfq, suppliers may have been
\* reached, but not all; ordered, the carrier has the order, but its answer could
\* not be read.
ProviderRaises(r) ==
    /\ run[r].at \in DOMAIN Awaited
    /\ crashes + faults < MaxFailures
    /\ faults' = faults + 1
    /\ Halt(r, Awaited[run[r].at], "failed")
    /\ UNCHANGED <<dbVars, worldVars, cursor, crashes, overlapped>>

rowsButInquiry == <<rfq, supplierQuote, quote, approvals, bookings>>
graphRest      == <<cursor, crashes, faults, overlapped>>

Understand(r) ==
    /\ At(r, "understand")
    /\ Goto(r, IF inquiry.complete THEN "schedules" ELSE "clarify")
    /\ UNCHANGED <<dbVars, worldVars, graphRest>>

Clarify(r) ==
    /\ At(r, "clarify")
    /\ Halt(r, "clarify", "waiting_clarification")
    /\ UNCHANGED <<dbVars, worldVars, graphRest>>

\* The inquiry is loaded before the carrier's schedules are awaited.
Schedules(r) ==
    /\ At(r, "schedules")
    /\ IF inquiry.complete
       THEN run' = [run EXCEPT ![r].at = "searching", ![r].seen = inquiry.status]
       ELSE Halt(r, "schedules", "failed")
    /\ UNCHANGED <<dbVars, worldVars, graphRest>>

SaveSchedules(r) ==
    /\ At(r, "searching")
    /\ AdvanceOrFail(r, run[r].seen, "scheduled", "schedules", "rates")
    /\ UNCHANGED <<rowsButInquiry, worldVars, graphRest>>

Rates(r) ==
    /\ At(r, "rates")
    /\ IF inquiry.complete THEN Goto(r, "rfq") ELSE Halt(r, "rates", "failed")
    /\ UNCHANGED <<dbVars, worldVars, graphRest>>

ReuseRfq(r) ==
    /\ At(r, "rfq") /\ NewestRfq # 0
    /\ run' = [run EXCEPT ![r].at = "supplier_quotes", ![r].rfq = NewestRfq]
    /\ UNCHANGED <<dbVars, worldVars, graphRest>>

\* No RFQ yet: the service is called and awaits the drafting agent.
DraftRfq(r) ==
    /\ At(r, "rfq") /\ NewestRfq = 0
    /\ IF inquiry.complete /\ Allowed("supplier.rfq.send", "rfq", FALSE)
       THEN run' = [run EXCEPT ![r].at = "drafting", ![r].seen = inquiry.status]
       ELSE Halt(r, "rfq", "failed")
    /\ UNCHANGED <<dbVars, worldVars, graphRest>>

\* The agent commits the session, and the row of the RFQ with it.
OpenRfq(r, x) ==
    /\ At(r, "drafting")
    /\ NextRfq(x)
    /\ InsertRfq(x)
    /\ run' = [run EXCEPT ![r].at = "mailing_rfq", ![r].rfq = x]
    /\ UNCHANGED <<inquiry, supplierQuote, quote, approvals, bookings, worldVars, graphRest>>

\* The agent fails; it commits the session all the same, and the row with it.
DraftFails(r, x) ==
    /\ At(r, "drafting") /\ crashes + faults < MaxFailures
    /\ NextRfq(x)
    /\ InsertRfq(x)
    /\ faults' = faults + 1
    /\ Halt(r, "rfq", "failed")
    /\ UNCHANGED <<inquiry, supplierQuote, quote, approvals, bookings, worldVars,
                   cursor, crashes, overlapped>>

\* Mutant: the suppliers are not mailed.
MailNobody(r) ==
    /\ At(r, "mailing_rfq")
    /\ run' = [run EXCEPT ![r].at = "rfq_mailed"]
    /\ UNCHANGED <<dbVars, worldVars, graphRest>>

MailRfq(r) ==
    /\ At(r, "mailing_rfq")
    /\ rfqMailed' = rfqMailed \cup {run[r].rfq}
    /\ run' = [run EXCEPT ![r].at = "rfq_mailed"]
    /\ UNCHANGED <<dbVars, mailed, ordered, graphRest>>

CommitRfq(r) ==
    /\ At(r, "rfq_mailed")
    /\ AdvanceOrFail(r, run[r].seen, "waiting_supplier_quotes", "rfq", "supplier_quotes")
    /\ UNCHANGED <<rowsButInquiry, worldVars, graphRest>>

\* _DEMO_QUOTES[have:], each recorded unless that sender has answered.
ToSeed(r) ==
    LET x == RfqId(r)
        listed == CASE Answers(x) = 0 -> {SeedA, SeedB}
                    [] Answers(x) = 1 -> {SeedB}
                    [] OTHER          -> {}
    IN IF run[r].synth /\ Answers(x) < MinSupplierQuotes
          /\ Allowed("supplier.quote.record", "supplier_quotes", FALSE)
       THEN {p \in listed : RowsFrom(x, p) = {}} ELSE {}

Seeds == <<SeedA, SeedB>>

\* add_supplier_quote for each, in order, on one RFQ.
SeedAnswers(x, seeded) ==
    LET new  == CASE seeded = {}      -> <<>>
                  [] seeded = {SeedA} -> <<SeedA>>
                  [] seeded = {SeedB} -> <<SeedB>>
                  [] OTHER            -> Seeds
        have == Cardinality({o \in SupplierQuotes : supplierQuote[o].rfq # 0})
    IN /\ have + Len(new) <= MaxSupplierQuotes
       /\ supplierQuote' = [o \in SupplierQuotes |->
              IF o - have \in DOMAIN new THEN [rfq |-> x, from |-> new[o - have]] ELSE supplierQuote[o]]
       /\ rfq' = [rfq EXCEPT ![x] =
              [status   |-> IF new # <<>> /\ @.received + Len(new) >= Expected THEN "complete" ELSE @.status,
               received |-> @.received + Len(new)]]

\* The node is synchronous: the quotes it seeds and the count it then takes are
\* one step.
SupplierQuotesNode(r) ==
    /\ At(r, "supplier_quotes")
    /\ LET x == RfqId(r)
           seeded == ToSeed(r)
           total == Answers(x) + Cardinality(seeded)
       IN IF x = 0 THEN Halt(r, "supplier_quotes", "failed") /\ UNCHANGED <<rfq, supplierQuote>>
          ELSE /\ IF total < MinSupplierQuotes
                  THEN Halt(r, "supplier_quotes", "waiting_supplier_quotes")
                  ELSE run' = [run EXCEPT ![r].at = "optimize", ![r].synth = FALSE]
               /\ SeedAnswers(x, seeded)
    /\ UNCHANGED <<inquiry, quote, approvals, bookings, worldVars, graphRest>>

\* The count is taken before the quotation agent is awaited; it only grows, so
\* one step stands for the node.
Optimize(r, q) ==
    /\ At(r, "optimize") /\ RfqId(r) # 0
    /\ Answers(RfqId(r)) >= MinSupplierQuotes
    /\ Allowed("quote.price", "optimize", FALSE)
    /\ NextQuote(q) /\ (overlapped => q <= MaxQuotesTogether)
    /\ SetQuote(q, "waiting_approval")
    /\ IF CanTransition(inquiry.status, "waiting_approval")
       THEN /\ inquiry' = Advanced(inquiry.status, "waiting_approval")
            /\ run' = [run EXCEPT ![r].at = "hitl_review", ![r].rfq = 0]
       ELSE UNCHANGED inquiry /\ Halt(r, "optimize", "failed")
    /\ UNCHANGED <<rfq, supplierQuote, approvals, bookings, worldVars, graphRest>>

RefuseOptimize(r) ==
    /\ At(r, "optimize")
    /\ RfqId(r) # 0 => Answers(RfqId(r)) < MinSupplierQuotes
    /\ Halt(r, "optimize", "failed")
    /\ UNCHANGED <<dbVars, worldVars, graphRest>>

\* The newest quote, whatever the state carries.
HitlReview(r) ==
    /\ At(r, "hitl_review")
    /\ LET status == IF NewestQuote = 0 THEN "absent" ELSE quote[NewestQuote]
       IN CASE status = "approved" ->
                 run' = [run EXCEPT ![r].at = "quote_send", ![r].quote = NewestQuote]
            [] status \in {"absent", "rejected"} -> Halt(r, "hitl_review", "failed")
            [] OTHER -> Halt(r, "hitl_review", "waiting_approval")
    /\ UNCHANGED <<dbVars, worldVars, graphRest>>

\* The harness asks about the row the service acts on, and the service asks again.
MayMail(r) ==
    /\ At(r, "quote_send") /\ QuoteId(r) # 0
    /\ Allowed("quote.send", "quote_send", quote[QuoteId(r)] = "approved")
    /\ quote[QuoteId(r)] = "approved"

\* Mutant: any quote of the inquiry that was not rejected.
MailUnapproved(r) ==
    /\ At(r, "quote_send") /\ QuoteId(r) # 0 /\ quote[QuoteId(r)] # "rejected"
    /\ mailed' = [mailed EXCEPT ![QuoteId(r)] = @ + 1]
    /\ run' = [run EXCEPT ![r].at = "quote_mailed", ![r].seen = inquiry.status,
                          ![r].quote = QuoteId(r)]
    /\ UNCHANGED <<dbVars, rfqMailed, ordered, graphRest>>

MailQuote(r) ==
    /\ MayMail(r)
    /\ mailed' = [mailed EXCEPT ![QuoteId(r)] = @ + 1]
    /\ run' = [run EXCEPT ![r].at = "quote_mailed", ![r].seen = inquiry.status,
                          ![r].quote = QuoteId(r)]
    /\ UNCHANGED <<dbVars, rfqMailed, ordered, graphRest>>

RefuseSend(r) ==
    /\ At(r, "quote_send") /\ ~MayMail(r)
    /\ Halt(r, "quote_send", "failed")
    /\ UNCHANGED <<dbVars, worldVars, graphRest>>

\* Mutant: a refused send leaves the quote as it was.
CommitSendIfLegal(r) ==
    /\ At(r, "quote_mailed")
    /\ IF CanTransition(run[r].seen, "sent") THEN SetQuote(run[r].quote, "sent") ELSE UNCHANGED quote
    /\ AdvanceOrFail(r, run[r].seen, "sent", "quote_send", "booking")
    /\ UNCHANGED <<rfq, supplierQuote, approvals, bookings, worldVars, graphRest>>

CommitSend(r) ==
    /\ At(r, "quote_mailed")
    /\ SetQuote(run[r].quote, "sent")
    /\ AdvanceOrFail(r, run[r].seen, "sent", "quote_send", "booking")
    /\ UNCHANGED <<rfq, supplierQuote, approvals, bookings, worldVars, graphRest>>

\* sent_at is set when the status becomes "sent", which no later write undoes.
MayOrder(r) ==
    /\ At(r, "booking") /\ QuoteId(r) # 0
    /\ Allowed("booking.create", "booking", quote[QuoteId(r)] = "sent")
    /\ quote[QuoteId(r)] = "sent"

RefuseBooking(r) ==
    /\ At(r, "booking") /\ ~MayOrder(r)
    /\ Halt(r, "booking", "failed")
    /\ UNCHANGED <<dbVars, worldVars, graphRest>>

ReuseBooking(r) ==
    /\ MayOrder(r) /\ bookings[QuoteId(r)] > 0
    /\ Goto(r, "vessel_tracking")
    /\ UNCHANGED <<dbVars, worldVars, graphRest>>

OrderSpace(r) ==
    /\ MayOrder(r) /\ bookings[QuoteId(r)] = 0
    /\ ordered' = [ordered EXCEPT ![QuoteId(r)] = @ + 1]
    /\ run' = [run EXCEPT ![r].at = "ordered", ![r].quote = QuoteId(r)]
    /\ UNCHANGED <<dbVars, rfqMailed, mailed, graphRest>>

\* Mutant: the booking is not stored.
CommitBookingUnsaved(r) ==
    /\ At(r, "ordered")
    /\ AdvanceOrFail(r, inquiry.status, "booked", "booking", "vessel_tracking")
    /\ UNCHANGED <<rowsButInquiry, worldVars, graphRest>>

\* The inquiry is loaded after the carrier has answered.
CommitBooking(r) ==
    /\ At(r, "ordered")
    /\ InsertBooking(run[r].quote)
    /\ AdvanceOrFail(r, inquiry.status, "booked", "booking", "vessel_tracking")
    /\ UNCHANGED <<rfq, supplierQuote, quote, approvals, worldVars, graphRest>>

\* The caller gave no vessel name.
Track(r) ==
    /\ At(r, "vessel_tracking")
    /\ Halt(r, "vessel_tracking", "completed")
    /\ UNCHANGED <<dbVars, worldVars, graphRest>>

\* With a vessel name, which no node before reads, the position is stored, and the node then reads an
\* attribute of what is a dict: no node catches that, and no cursor is written.
TrackVessel(r) ==
    /\ At(r, "vessel_tracking") /\ crashes + faults < MaxFailures
    /\ crashes' = crashes + 1
    /\ run' = [run EXCEPT ![r] = NoRun]
    /\ UNCHANGED <<dbVars, worldVars, cursor, faults, overlapped>>

-----------------------------------------------------------------------------
(* Requests of others, each a transaction of its own, rolled back if refused *)

Patch(complete) ==
    /\ inquiry.status \notin LOCKED
    /\ inquiry' = [status   |-> IF inquiry.status \in CONTENT_EDITABLE
                                THEN DerivedInquiryStatus(complete) ELSE inquiry.status,
                   complete |-> complete]
    /\ UNCHANGED <<rowsButInquiry, worldVars, run, graphRest>>

\* Mutant: the inquiry is not moved with the quote.
ReviewQuoteOnly(q, action) ==
    /\ quote[q] = "waiting_approval"
    /\ SetQuote(q, IF action = "approve" THEN "approved" ELSE "rejected")
    /\ RecordVerdict(q, action)
    /\ UNCHANGED <<inquiry, rfq, supplierQuote, bookings, worldVars, run, graphRest>>

Review(q, action) ==
    /\ quote[q] = "waiting_approval"
    /\ LET status == IF action = "approve" THEN "approved" ELSE "rejected"
       IN /\ CanTransition(inquiry.status, status)
          /\ SetQuote(q, status)
          /\ inquiry' = Advanced(inquiry.status, status)
    /\ RecordVerdict(q, action)
    /\ UNCHANGED <<rfq, supplierQuote, bookings, worldVars, run, graphRest>>

Answer(x, p, o) ==
    /\ rfq[x].status # "absent"
    /\ RowsFrom(x, p) = {}
    /\ NextSupplierQuote(o)
    /\ InsertSupplierQuote(o, x, p)
    /\ CountAnswer(x, rfq[x].received)
    /\ UNCHANGED <<inquiry, quote, approvals, bookings, worldVars, run, graphRest>>

-----------------------------------------------------------------------------

Requesting(r) ==
    \/ ResumeGraph(r)
    \/ \E node \in ENTRY_NODES, requested \in {"unset", "yes", "no"} : RunGraph(r, node, requested)
Sourcing(r) ==
    \/ Understand(r) \/ Clarify(r) \/ Schedules(r) \/ SaveSchedules(r) \/ Rates(r)
    \/ ReuseRfq(r) \/ DraftRfq(r) \/ (\E x \in Rfqs : OpenRfq(r, x) \/ DraftFails(r, x)) \/ MailRfq(r) \/ CommitRfq(r)
    \/ SupplierQuotesNode(r)
Quoting(r) ==
    \/ (\E q \in Quotes : Optimize(r, q)) \/ RefuseOptimize(r) \/ HitlReview(r)
    \/ MailQuote(r) \/ RefuseSend(r) \/ CommitSend(r)
    \/ RefuseBooking(r) \/ ReuseBooking(r) \/ OrderSpace(r) \/ CommitBooking(r)
Ending(r) == Track(r) \/ TrackVessel(r) \/ ProviderRaises(r) \/ Record(r) \/ Die(r)

GraphNext ==
    \/ \E r \in Runs : Requesting(r) \/ Sourcing(r) \/ Quoting(r) \/ Ending(r)
    \/ \E complete \in BOOLEAN : Patch(complete)
    \/ \E q \in Quotes, action \in {"approve", "reject"} : Review(q, action)
    \/ \E x \in Rfqs, p \in Suppliers, o \in SupplierQuotes : Answer(x, p, o)

GraphSpec == GraphInit /\ [][GraphNext]_vars

-----------------------------------------------------------------------------
(* Properties *)

\* From whatever node a run starts or resumes, and whatever other runs do
\* inside the same nodes, no quotation leaves without its recorded approval and
\* nothing is ordered for a quotation the customer did not get.
Gate == INSTANCE ApprovalGate WITH
    approved <- {q \in Quotes : Approved(q)},
    mailed   <- {q \in Quotes : mailed[q] > 0},
    ordered  <- {q \in Quotes : ordered[q] > 0}
GraphGated == Gate!Spec

\* The cursor, written long after the rows it speaks of, is still true of them:
\* waiting for approval there is a quote, waiting for suppliers an RFQ, and a
\* run that completed past the booking node left a booking that was ordered for
\* a quotation that was approved and sent.
CursorBacked ==
    /\ cursor.status = "waiting_approval" => Priced # {}
    /\ cursor.status = "waiting_supplier_quotes" => Known # {}
    /\ cursor.status = "completed" /\ cursor.booked =>
           \E q \in Quotes : bookings[q] > 0 /\ ordered[q] > 0 /\ mailed[q] > 0 /\ Approved(q)

\* Runs one after the other seldom do anything twice, however often a halted run
\* is resumed: there is one RFQ and one booking, each repeated e-mail is the trace
\* of a run that died, and each repeated order that of one that died or could not
\* read the carrier's answer and is recorded as failed at the booking node.  Runs
\* that overlap repeat an effect at most once each.
EffectsBounded ==
    LET together == IF overlapped THEN Cardinality(Runs) ELSE 1
    IN /\ \A q \in Quotes :
              /\ mailed[q] <= together + crashes
              /\ ordered[q] <= together + crashes + faults
              /\ bookings[q] <= together
       /\ Cardinality(Known) <= together

\* A run that waits for suppliers waits for somebody: unless a run died between
\* the commit of the RFQ and its e-mails, was stopped there by an error it could
\* record, or is there now, the suppliers were asked.
WaitsForTheAsked ==
    /\ cursor.status = "waiting_supplier_quotes" /\ crashes + faults = 0
    /\ \A r \in Runs : run[r].at \notin {"mailing_rfq"}
    => rfqMailed # {}

\* Runs one after the other: an approval given while a run waits is one the
\* resumed run can use.  Re-entering at quote_send, it will neither be refused
\* by the gate nor mail a quotation the inquiry has no room for.
ApprovalIsUsable ==
    /\ ~overlapped /\ \A r \in Runs : At(r, "idle")
    /\ cursor.status = "waiting_approval" /\ NewestQuote # 0 /\ quote[NewestQuote] = "approved"
    => CanTransition(inquiry.status, "sent")

\* Runs one after the other that enter before the gate, none of which died or
\* tripped over a vessel name: a cursor that points at the gate points at a
\* quotation still to be sent.  (In the other cases it may not; the resumed run
\* is then refused at the gate, is recorded as failed there, and so for ever.)
GateIsAhead ==
    /\ StartNodes \cap {"hitl_review", "quote_send"} = {}
    /\ ~overlapped /\ crashes = 0 /\ \A r \in Runs : At(r, "idle")
    /\ cursor.node = "quote_send" /\ NewestQuote # 0
    => quote[NewestQuote] # "sent"

=============================================================================
