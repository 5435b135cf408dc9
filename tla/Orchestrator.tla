----------------------------- MODULE Orchestrator -----------------------------
(***************************************************************************)
(* The one-button pipeline (app/services/orchestrator.py): a run goes       *)
(* through the stages in order, in one database session, and stops at the   *)
(* first stage that aborts or refuses.  Runs may start at any stage and be  *)
(* repeated; between two stages of a run reviewers, suppliers and other     *)
(* runs act.  A stage is one step here; what interleaves inside a service   *)
(* call is the subject of QuoteDesk.                                        *)
(*                                                                         *)
(* Two facts about the session shape everything:                            *)
(*   - the run holds its inquiry row, so every stage sees the status read   *)
(*     at the start and changed by the run itself, never what others wrote; *)
(*   - a refused stage (ValueError) ends the run, and the run then commits: *)
(*     what the stage had written before it was refused stays.              *)
(***************************************************************************)
EXTENDS FreightDB, FiniteSetsExt

CONSTANTS
    Runs,           \* pipeline requests in flight at a time
    SeedA, SeedB,   \* the two suppliers whose demo quotes are seeded
    MaxLosses       \* bound on the crashes between an effect and its commit

ASSUME RunBounds ==
    /\ Suppliers = {SeedA, SeedB}
    /\ MaxLosses \in Nat

VARIABLES
    production, \* settings.environment is 'production'
    run,    \* per pipeline request: stage, and what its session holds
    losses  \* crashes between an effect and its commit so far

vars == <<inquiry, rfq, supplierQuote, quote, approvals, bookings,
          rfqMailed, mailed, ordered, production, run, losses>>

STAGES == <<"parse", "schedules", "rates", "rfq", "supplier_quotes", "optimize",
            "hitl_review", "quote_send", "booking", "vessel_tracking">>

Stages == {STAGES[i] : i \in DOMAIN STAGES}

NoRun == [at |-> "idle", seen |-> "none", complete |-> FALSE, auto |-> FALSE, seed |-> FALSE,
          held |-> 0, heldStatus |-> "absent", result |-> "none"]

\* result is what the last run of the slot reported to its caller.
TypeOK ==
    /\ DBTypeOK
    /\ run \in [Runs ->
        [at : Stages \cup {"idle"}, seen : InquiryStatus \cup {"none"}, complete : BOOLEAN,
         auto : BOOLEAN, seed : BOOLEAN, held : Quotes \cup {0}, heldStatus : QuoteStatus,
         result : {"none", "waiting_approval", "failed", "completed"}]]
    /\ production \in BOOLEAN
    /\ losses \in 0..MaxLosses

Init == DBInit /\ production \in BOOLEAN /\ run = [r \in Runs |-> NoRun] /\ losses = 0

-----------------------------------------------------------------------------
(* Queries.  The newest row is the one with the highest number. *)

SentRfqs == {x \in Rfqs : rfq[x].status # "absent"}
HasRfq   == SentRfqs # {}
LastRfq  == Max(SentRfqs)

KnownQuotes == {q \in Quotes : quote[q] # "absent"}
LatestQuote == IF KnownQuotes = {} THEN 0 ELSE Max(KnownQuotes)

\* The status of the newest quote in the eyes of run r: a run that continues
\* from a quote keeps that row as it was when the run started.
LatestStatus(r) ==
    IF LatestQuote = 0 THEN "absent"
    ELSE IF LatestQuote = run[r].held THEN run[r].heldStatus ELSE quote[LatestQuote]

-----------------------------------------------------------------------------
(* How a run goes on and ends *)

At(r, stage) == run[r].at = stage

After(stage) == STAGES[(CHOOSE i \in DOMAIN STAGES : STAGES[i] = stage) + 1]

Proceed(r) == run' = [run EXCEPT ![r].at = After(@)]
End(r, result) == run' = [run EXCEPT ![r] = [NoRun EXCEPT !.result = result]]

\* Mutant: the legality of the move is not asked for.
AdvanceAnyway(r, target) ==
    /\ inquiry' = Advanced(run[r].seen, target)
    /\ run' = [run EXCEPT ![r].at = After(@), ![r].seen = target]

\* advance_status on the row the run holds.  Refused or not, the rest of the
\* stage's writes are committed.
AdvanceOrFail(r, target) ==
    IF CanTransition(run[r].seen, target)
    THEN /\ inquiry' = Advanced(run[r].seen, target)
         /\ run' = [run EXCEPT ![r].at = After(@), ![r].seen = target,
                               ![r].heldStatus = IF target = "sent" THEN "sent" ELSE @]
    ELSE /\ UNCHANGED inquiry
         /\ End(r, "failed")

-----------------------------------------------------------------------------
(* run_pipeline and resume_after_approval *)

\* The demo shortcuts are refused in production.
StartRun(r, stage, auto, seed) ==
    /\ At(r, "idle")
    /\ production => ~auto /\ ~seed
    /\ run' = [run EXCEPT ![r] = [NoRun EXCEPT
            !.at = stage, !.seen = inquiry.status, !.complete = inquiry.complete,
            !.auto = auto, !.seed = seed]]
    /\ UNCHANGED <<dbVars, worldVars, losses>>

Continue(r, q) ==
    /\ At(r, "idle")
    /\ quote[q] \notin {"absent", "rejected"}
    /\ run' = [run EXCEPT ![r] = [NoRun EXCEPT
            !.at = "hitl_review", !.seen = inquiry.status, !.complete = inquiry.complete,
            !.held = q, !.heldStatus = quote[q]]]
    /\ UNCHANGED <<dbVars, worldVars, losses>>

-----------------------------------------------------------------------------
(* The stages *)

Parse(r) ==
    /\ At(r, "parse")
    /\ IF run[r].complete THEN Proceed(r) ELSE End(r, "waiting_approval")
    /\ UNCHANGED <<dbVars, worldVars, losses>>

\* search_schedules replaces the stored options, search_rates the stored rates;
\* nothing reads either back.
Schedules(r) ==
    /\ At(r, "schedules")
    /\ IF run[r].complete
       THEN AdvanceOrFail(r, "scheduled")
       ELSE End(r, "failed") /\ UNCHANGED inquiry
    /\ UNCHANGED <<rfq, supplierQuote, quote, approvals, bookings, worldVars, losses>>

Rates(r) ==
    /\ At(r, "rates")
    /\ IF run[r].complete THEN Proceed(r) ELSE End(r, "failed")
    /\ UNCHANGED <<dbVars, worldVars, losses>>

ReuseRfq(r) ==
    /\ At(r, "rfq") /\ HasRfq
    /\ Proceed(r)
    /\ UNCHANGED <<dbVars, worldVars, losses>>

\* Mutant: the look-up of an earlier RFQ is gone.
CreateAnotherRfq(r, x) ==
    /\ At(r, "rfq") /\ run[r].complete
    /\ NextRfq(x)
    /\ InsertRfq(x)
    /\ rfqMailed' = rfqMailed \cup {x}
    /\ AdvanceOrFail(r, "waiting_supplier_quotes")
    /\ UNCHANGED <<supplierQuote, quote, approvals, bookings, mailed, ordered, losses>>

\* The look-up, the agent that drafts the RFQ and the insertion: one step only for
\* runs that follow one another, since the agent is awaited in between.
CreateRfq(r, x) ==
    /\ At(r, "rfq") /\ ~HasRfq /\ run[r].complete
    /\ NextRfq(x)
    /\ InsertRfq(x)
    /\ rfqMailed' = rfqMailed \cup {x}
    /\ AdvanceOrFail(r, "waiting_supplier_quotes")
    /\ UNCHANGED <<supplierQuote, quote, approvals, bookings, mailed, ordered, losses>>

RefuseRfq(r) ==
    /\ At(r, "rfq") /\ ~HasRfq /\ ~run[r].complete
    /\ End(r, "failed")
    /\ UNCHANGED <<dbVars, worldVars, losses>>

\* The demo quotes are added one commit at a time, none twice.
ToSeed(r) ==
    LET have == Cardinality(RowsOf(LastRfq))
        next == IF have = 0 THEN SeedA ELSE SeedB
    IN IF run[r].seed /\ have < 2 /\ RowsFrom(LastRfq, next) = {} THEN {next} ELSE {}

Seed(r, o) ==
    /\ At(r, "supplier_quotes") /\ HasRfq
    /\ NextSupplierQuote(o)
    /\ \E p \in ToSeed(r) : InsertSupplierQuote(o, LastRfq, p)
    /\ CountAnswer(LastRfq, rfq[LastRfq].received)
    /\ UNCHANGED <<inquiry, quote, approvals, bookings, worldVars, run, losses>>

SupplierQuotesStage(r) ==
    /\ At(r, "supplier_quotes")
    /\ IF HasRfq THEN ToSeed(r) = {} /\ Proceed(r) ELSE End(r, "failed")
    /\ UNCHANGED <<dbVars, worldVars, losses>>

Optimize(r, q) ==
    /\ At(r, "optimize") /\ HasRfq
    /\ Cardinality(RowsOf(LastRfq)) >= MinSupplierQuotes
    /\ NextQuote(q)
    /\ SetQuote(q, "waiting_approval")
    /\ AdvanceOrFail(r, "waiting_approval")
    /\ UNCHANGED <<rfq, supplierQuote, approvals, bookings, worldVars, losses>>

RefuseOptimize(r) ==
    /\ At(r, "optimize")
    /\ HasRfq => Cardinality(RowsOf(LastRfq)) < MinSupplierQuotes
    /\ End(r, "failed")
    /\ UNCHANGED <<dbVars, worldVars, losses>>

PassApproved(r) ==
    /\ At(r, "hitl_review") /\ LatestStatus(r) = "approved"
    /\ Proceed(r)
    /\ UNCHANGED <<dbVars, worldVars, losses>>

WaitForReviewer(r) ==
    /\ At(r, "hitl_review")
    /\ \/ LatestStatus(r) \in {"absent", "rejected"} /\ End(r, "failed")
       \/ LatestStatus(r) \in {"waiting_approval", "sent"} /\ ~run[r].auto
          /\ End(r, "waiting_approval")
    /\ UNCHANGED <<dbVars, worldVars, losses>>

\* auto_approve calls review_quote, which refuses a quote that was sent.
AutoApprove(r) ==
    /\ At(r, "hitl_review") /\ LatestStatus(r) = "waiting_approval" /\ run[r].auto
    /\ SetQuote(LatestQuote, "approved")
    /\ RecordVerdict(LatestQuote, "approve")
    /\ AdvanceOrFail(r, "approved")
    /\ UNCHANGED <<rfq, supplierQuote, bookings, worldVars, losses>>

RefuseAutoApprove(r) ==
    /\ At(r, "hitl_review") /\ LatestStatus(r) = "sent" /\ run[r].auto
    /\ End(r, "failed")
    /\ UNCHANGED <<dbVars, worldVars, losses>>

SkipSend(r) ==
    /\ At(r, "quote_send") /\ LatestStatus(r) = "sent"
    /\ Proceed(r)
    /\ UNCHANGED <<dbVars, worldVars, losses>>

StopSend(r) ==
    /\ At(r, "quote_send") /\ LatestStatus(r) \notin {"approved", "sent"}
    /\ End(r, IF LatestStatus(r) = "absent" THEN "failed" ELSE "waiting_approval")
    /\ UNCHANGED <<dbVars, worldVars, losses>>

MayMail(r) == At(r, "quote_send") /\ LatestStatus(r) = "approved"

\* Mutants: without the approval check; a refused send is rolled back.
SendUnchecked(r) ==
    /\ At(r, "quote_send") /\ LatestStatus(r) \notin {"absent", "sent"}
    /\ mailed' = [mailed EXCEPT ![LatestQuote] = @ + 1]
    /\ SetQuote(LatestQuote, "sent")
    /\ AdvanceOrFail(r, "sent")
    /\ UNCHANGED <<rfq, supplierQuote, approvals, bookings, rfqMailed, ordered, losses>>
SendRolledBack(r) ==
    /\ MayMail(r)
    /\ mailed' = [mailed EXCEPT ![LatestQuote] = @ + 1]
    /\ IF CanTransition(run[r].seen, "sent") THEN SetQuote(LatestQuote, "sent") ELSE UNCHANGED quote
    /\ AdvanceOrFail(r, "sent")
    /\ UNCHANGED <<rfq, supplierQuote, approvals, bookings, rfqMailed, ordered, losses>>

Send(r) ==
    /\ MayMail(r)
    /\ mailed' = [mailed EXCEPT ![LatestQuote] = @ + 1]
    /\ SetQuote(LatestQuote, "sent")
    /\ AdvanceOrFail(r, "sent")
    /\ UNCHANGED <<rfq, supplierQuote, approvals, bookings, rfqMailed, ordered, losses>>

MayOrder(r) == At(r, "booking") /\ LatestStatus(r) = "sent" /\ bookings[LatestQuote] = 0

StopBooking(r) ==
    /\ At(r, "booking") /\ LatestStatus(r) # "sent"
    /\ End(r, "waiting_approval")
    /\ UNCHANGED <<dbVars, worldVars, losses>>

ReuseBooking(r) ==
    /\ At(r, "booking") /\ LatestStatus(r) = "sent" /\ bookings[LatestQuote] > 0
    /\ Proceed(r)
    /\ UNCHANGED <<dbVars, worldVars, losses>>

Book(r) ==
    /\ MayOrder(r)
    /\ ordered' = [ordered EXCEPT ![LatestQuote] = @ + 1]
    /\ InsertBooking(LatestQuote)
    /\ AdvanceOrFail(r, "booked")
    /\ UNCHANGED <<rfq, supplierQuote, quote, approvals, rfqMailed, mailed, losses>>

\* Mutant: the last stage does not ask for a booking.
TrackAnything(r) ==
    /\ At(r, "vessel_tracking")
    /\ End(r, "completed")
    /\ UNCHANGED <<dbVars, worldVars, losses>>

\* The position refresh itself touches none of these rows.
Track(r) ==
    /\ At(r, "vessel_tracking")
    /\ End(r, IF \E q \in Quotes : bookings[q] > 0 THEN "completed" ELSE "waiting_approval")
    /\ UNCHANGED <<dbVars, worldVars, losses>>

-----------------------------------------------------------------------------
(* A provider raises or the process dies: between two stages, or after the  *)
(* effect of a stage and before its commit.                                 *)

Die(r) ==
    /\ ~At(r, "idle")
    /\ End(r, "none")
    /\ UNCHANGED <<dbVars, worldVars, losses>>

Lose(r) == losses < MaxLosses /\ losses' = losses + 1 /\ End(r, "none")

LoseRfq(r, x) ==
    /\ At(r, "rfq") /\ ~HasRfq /\ run[r].complete
    /\ NextRfq(x)
    /\ InsertRfq(x)
    /\ rfqMailed' \in {rfqMailed, rfqMailed \cup {x}}
    /\ Lose(r)
    /\ UNCHANGED <<inquiry, supplierQuote, quote, approvals, bookings, mailed, ordered>>

LoseSend(r) ==
    /\ MayMail(r)
    /\ mailed' = [mailed EXCEPT ![LatestQuote] = @ + 1]
    /\ Lose(r)
    /\ UNCHANGED <<dbVars, rfqMailed, ordered>>

LoseOrder(r) ==
    /\ MayOrder(r)
    /\ ordered' = [ordered EXCEPT ![LatestQuote] = @ + 1]
    /\ Lose(r)
    /\ UNCHANGED <<dbVars, rfqMailed, mailed>>

-----------------------------------------------------------------------------
(* Requests of others, each a transaction of its own, rolled back if refused *)

Patch(complete) ==
    /\ inquiry.status \notin LOCKED
    /\ inquiry' = [status   |-> IF inquiry.status \in CONTENT_EDITABLE
                                THEN DerivedInquiryStatus(complete) ELSE inquiry.status,
                   complete |-> complete]
    /\ UNCHANGED <<rfq, supplierQuote, quote, approvals, bookings, worldVars, run, losses>>

\* Mutant: a verdict is recorded whatever the inquiry has become.
ReviewQuoteOnly(q, action) ==
    /\ quote[q] = "waiting_approval"
    /\ LET status == IF action = "approve" THEN "approved" ELSE "rejected"
       IN /\ SetQuote(q, status)
          /\ inquiry' = IF CanTransition(inquiry.status, status)
                        THEN Advanced(inquiry.status, status) ELSE inquiry
    /\ RecordVerdict(q, action)
    /\ UNCHANGED <<rfq, supplierQuote, bookings, worldVars, run, losses>>

Review(q, action) ==
    /\ quote[q] = "waiting_approval"
    /\ LET status == IF action = "approve" THEN "approved" ELSE "rejected"
       IN /\ CanTransition(inquiry.status, status)
          /\ SetQuote(q, status)
          /\ inquiry' = Advanced(inquiry.status, status)
    /\ RecordVerdict(q, action)
    /\ UNCHANGED <<rfq, supplierQuote, bookings, worldVars, run, losses>>

Answer(x, p, o) ==
    /\ rfq[x].status # "absent"
    /\ RowsFrom(x, p) = {}
    /\ NextSupplierQuote(o)
    /\ InsertSupplierQuote(o, x, p)
    /\ CountAnswer(x, rfq[x].received)
    /\ UNCHANGED <<inquiry, quote, approvals, bookings, worldVars, run, losses>>

-----------------------------------------------------------------------------

Starting(r) ==
    \/ \E stage \in Stages, auto, seed \in BOOLEAN : StartRun(r, stage, auto, seed)
    \/ \E q \in Quotes : Continue(r, q)
Quoting(r) ==
    \/ Parse(r) \/ Schedules(r) \/ Rates(r)
    \/ ReuseRfq(r) \/ RefuseRfq(r) \/ \E x \in Rfqs : CreateRfq(r, x)
    \/ SupplierQuotesStage(r) \/ \E o \in SupplierQuotes : Seed(r, o)
    \/ RefuseOptimize(r) \/ \E q \in Quotes : Optimize(r, q)
Gating(r) == PassApproved(r) \/ WaitForReviewer(r) \/ AutoApprove(r) \/ RefuseAutoApprove(r)
Closing(r) ==
    \/ SkipSend(r) \/ StopSend(r) \/ Send(r)
    \/ StopBooking(r) \/ ReuseBooking(r) \/ Book(r) \/ Track(r)
Losing(r) == Die(r) \/ LoseSend(r) \/ LoseOrder(r) \/ \E x \in Rfqs : LoseRfq(r, x)

Next ==
    /\ \/ \E r \in Runs : Starting(r) \/ Quoting(r) \/ Gating(r) \/ Closing(r) \/ Losing(r)
       \/ \E complete \in BOOLEAN : Patch(complete)
       \/ \E q \in Quotes, action \in {"approve", "reject"} : Review(q, action)
       \/ \E x \in Rfqs, p \in Suppliers, o \in SupplierQuotes : Answer(x, p, o)
    /\ UNCHANGED production

Spec == Init /\ [][Next]_vars

-----------------------------------------------------------------------------
(* Properties *)

\* Orchestration sequences work, it does not grant permission: from whatever
\* stage a run is started, continued or repeated, and although the writes of a
\* refused stage are committed, no quotation leaves without its approval and
\* nothing is ordered for a quotation that was not sent.
Gate == INSTANCE ApprovalGate WITH
    approved <- {q \in Quotes : Approved(q)},
    mailed   <- {q \in Quotes : mailed[q] > 0},
    ordered  <- {q \in Quotes : ordered[q] > 0}
Gated == Gate!Spec

\* Runs one after the other never repeat an effect for the same quote: each
\* e-mail or order beyond the first is the trace of a crash between the effect
\* and its commit.  A refused stage counts as done because it is committed.
EffectsOnce == \A q \in Quotes :
    /\ mailed[q] <= 1 + losses
    /\ ordered[q] <= 1 + losses
    /\ bookings[q] <= 1

\* tests/test_orchestrator.py: one inquiry, one RFQ, however often the pipeline
\* is run again, whatever the stage it is started at and wherever it crashed.
\* Two runs at once may both find none (GraphPipeline lets them).
OneRfq == Cardinality(SentRfqs) <= 1

\* In production, one run at a time, an inquiry never moves back on the happy
\* path and never leaves rejection or booking, although a run decides on the
\* status it read when it started and customers' edits and verdicts are
\* committed between its stages.
NeverRewinds == [][production =>
    /\ \A i, j \in DOMAIN HAPPY_PATH :
        inquiry.status = HAPPY_PATH[i] /\ inquiry'.status = HAPPY_PATH[j] => i <= j
    /\ inquiry.status \in {"rejected", "booked"} => inquiry'.status = inquiry.status]_inquiry

\* Under the same conditions a rejection is final: no quotation reaches the
\* customer afterwards and none had, although several quotes of the inquiry may
\* be under review at once.
RejectedIsFinal ==
    production /\ inquiry.status = "rejected" => \A q \in Quotes : mailed[q] = 0 /\ ordered[q] = 0

\* A run that reports completion leaves a booking for a quotation that was
\* approved, sent and ordered.
CompletedIsBooked ==
    (\E r \in Runs : run[r].result = "completed") =>
        \E q \in Quotes : bookings[q] > 0 /\ ordered[q] > 0 /\ mailed[q] > 0 /\ Approved(q)

\* README.md: running the pipeline again is safe, it does not book twice.
OneBooking == \A p, q \in Quotes : bookings[p] > 0 /\ bookings[q] > 0 => p = q

=============================================================================
