------------------------------ MODULE QuoteDesk ------------------------------
(***************************************************************************)
(* The HTTP services that take one inquiry from content to booking          *)
(* (app/services: inquiry, schedule, rfq, pricing, approval, booking), each *)
(* request in a database session of its own.                                *)
(*                                                                         *)
(* A session reads rows, may await a provider, and commits.  Between two of *)
(* its steps any other session may commit: asynchronous handlers interleave *)
(* at every await, synchronous ones run in a thread pool, nothing locks a   *)
(* row, and an UPDATE is not conditional on what was read.  Hence a handler *)
(* is a first action that reads and checks, and further actions, one per    *)
(* external effect, late read or commit.  A request refused by its first    *)
(* checks changes nothing and is no step at all.                            *)
(***************************************************************************)
EXTENDS FreightDB

CONSTANTS
    Sessions,           \* requests in flight at a time
    Repeated,           \* bound: quotes of which an e-mail or an order is repeated
    MaxMails, MaxOrders \* bounds on the e-mails and orders of one of them

ASSUME EffectBounds == IsFiniteSet(Sessions) /\ MaxMails \in Nat /\ MaxOrders \in Nat

VARIABLE sess   \* what each session remembers

vars == <<inquiry, rfq, supplierQuote, quote, approvals, bookings,
          rfqMailed, mailed, ordered, sess>>

Ops == {"patch", "schedules", "rfq", "answer", "optimize", "review", "send", "book"}

\* Where a session stands: which action takes it further.
Pcs == {"idle", "open", "effect", "load", "commit"}

\* The status each operation moves the inquiry to; patch computes its own.
Target(m) ==
    CASE m.op = "schedules" -> "scheduled"
      [] m.op = "rfq"       -> "waiting_supplier_quotes"
      [] m.op = "optimize"  -> "waiting_approval"
      [] m.op = "review"    -> IF m.action = "approve" THEN "approved" ELSE "rejected"
      [] m.op = "send"      -> "sent"
      [] m.op = "book"      -> "booked"

Advancing == Ops \ {"patch", "answer"}

Idle == [op |-> "none", pc |-> "idle",
         quote |-> 0, rfq |-> 0, supplier |-> None, action |-> "none",
         seen |-> "none",                   \* inquiry status as read
         was |-> FALSE, now |-> FALSE,      \* completeness read, and after the edit
         received |-> 0]                    \* received_quotes as read

Fields == [op : Ops \cup {"none"}, pc : Pcs,
           quote : Quotes \cup {0}, rfq : Rfqs \cup {0},
           supplier : Suppliers \cup {None}, action : {"approve", "reject", "none"},
           seen : InquiryStatus \cup {"none"}, was : BOOLEAN, now : BOOLEAN,
           received : Nat]

\* A handler on its way knows which rows it works on.
Knows(m) ==
    /\ m.pc = "load" => m.op \in {"optimize", "review", "book"}
    /\ m.op = "rfq" /\ m.pc # "open" => m.rfq \in Rfqs
    /\ m.op = "answer" => m.rfq \in Rfqs /\ m.supplier \in Suppliers
    /\ m.op \in {"review", "send", "book"} => m.quote \in Quotes
    /\ m.op = "review" => m.action \in {"approve", "reject"}
    /\ m.op \in {"patch", "schedules", "rfq", "send"} => m.seen \in InquiryStatus
    /\ m.op \in Advancing /\ m.pc = "commit" => m.seen \in InquiryStatus

Memory == {m \in Fields : Knows(m)}

\* The committed rows and what the sessions remember of them keep their shapes.
TypeOK == DBTypeOK /\ sess \in [Sessions -> Memory]

Init == DBInit /\ sess = [s \in Sessions |-> Idle]

IsIdle(s) == sess[s].op = "none"
At(s, op, pc) == sess[s].op = op /\ sess[s].pc = pc

\* Within the bounds there is an e-mail, or an order, of q left.
MailsLeft(q)  == mailed[q] < IF q \in Repeated THEN MaxMails ELSE 1
OrdersLeft(q) == ordered[q] < IF q \in Repeated THEN MaxOrders ELSE 1

Start(s, m)  == IsIdle(s) /\ sess' = [sess EXCEPT ![s] = m]
Goto(s, pc)  == sess' = [sess EXCEPT ![s].pc = pc]
Finish(s)    == sess' = [sess EXCEPT ![s] = Idle]

\* The session holds a status from which its operation may move the inquiry on.
MayCommit(s, op) == At(s, op, "commit") /\ CanTransition(sess[s].seen, Target(sess[s]))

MoveInquiry(s) == inquiry' = Advanced(sess[s].seen, Target(sess[s]))

-----------------------------------------------------------------------------
(* patch_inquiry: a field edit, of which only the completeness it leads to  *)
(* is kept.  Refused once the inquiry is locked.                            *)

ReadPatch(s, complete) ==
    /\ inquiry.status \notin LOCKED
    /\ Start(s, [Idle EXCEPT !.op = "patch", !.pc = "commit", !.seen = inquiry.status,
                             !.was = inquiry.complete, !.now = complete])
    /\ UNCHANGED <<dbVars, worldVars>>

\* Mutant: the defect the repository once had, re-deriving whatever the status.
CommitPatchAlways(s) ==
    /\ At(s, "patch", "commit")
    /\ inquiry' = [status |-> DerivedInquiryStatus(sess[s].now), complete |-> sess[s].now]
    /\ Finish(s)
    /\ UNCHANGED <<rfq, supplierQuote, quote, approvals, bookings, worldVars>>

\* The status is re-derived only if it was still editable when it was read.  The
\* list of missing fields is written if it differs from the one read, which it may
\* although both are non-empty.
CommitPatch(s) ==
    /\ At(s, "patch", "commit")
    /\ LET m      == sess[s]
           status == IF m.seen \in CONTENT_EDITABLE THEN DerivedInquiryStatus(m.now) ELSE m.seen
       IN \E complete \in IF m.now = m.was THEN {inquiry.complete, inquiry.complete /\ m.now}
                                           ELSE {m.now} :
            inquiry' = [status   |-> IF status = m.seen THEN inquiry.status ELSE status,
                        complete |-> complete]
    /\ Finish(s)
    /\ UNCHANGED <<rfq, supplierQuote, quote, approvals, bookings, worldVars>>

-----------------------------------------------------------------------------
(* search_schedules: asks the provider, replaces the stored options (which  *)
(* no other service reads) and moves the inquiry on.                        *)

ReadSchedules(s) ==
    /\ inquiry.complete
    /\ Start(s, [Idle EXCEPT !.op = "schedules", !.pc = "commit", !.seen = inquiry.status])
    /\ UNCHANGED <<dbVars, worldVars>>

CommitSchedules(s) ==
    /\ MayCommit(s, "schedules")
    /\ MoveInquiry(s)
    /\ Finish(s)
    /\ UNCHANGED <<rfq, supplierQuote, quote, approvals, bookings, worldVars>>

-----------------------------------------------------------------------------
(* create_rfq: the drafting agent commits the session, so the RFQ row is    *)
(* there before the e-mails leave, and both before the inquiry is moved.    *)

ReadRfq(s) ==
    /\ inquiry.complete
    /\ ~OpenRfqExists
    /\ Start(s, [Idle EXCEPT !.op = "rfq", !.pc = "open", !.seen = inquiry.status])
    /\ UNCHANGED <<dbVars, worldVars>>

OpenRfq(s, r) ==
    /\ At(s, "rfq", "open")
    /\ NextRfq(r)
    /\ InsertRfq(r)
    /\ sess' = [sess EXCEPT ![s].pc = "effect", ![s].rfq = r]
    /\ UNCHANGED <<inquiry, supplierQuote, quote, approvals, bookings, worldVars>>

MailRfq(s) ==
    /\ At(s, "rfq", "effect")
    /\ rfqMailed' = rfqMailed \cup {sess[s].rfq}
    /\ Goto(s, "commit")
    /\ UNCHANGED <<dbVars, mailed, ordered>>

CommitRfq(s) ==
    /\ MayCommit(s, "rfq")
    /\ MoveInquiry(s)
    /\ Finish(s)
    /\ UNCHANGED <<rfq, supplierQuote, quote, approvals, bookings, worldVars>>

-----------------------------------------------------------------------------
(* add_supplier_quote: one answer per RFQ and sender; counts the answers.   *)
(* A second row of the same sender breaks uq_supplier_quote: that commit    *)
(* raises and the session rolls back (Fail).                                *)

ReadAnswer(s, r, p) ==
    /\ rfq[r].status # "absent"
    /\ RowsFrom(r, p) = {}
    /\ Start(s, [Idle EXCEPT !.op = "answer", !.pc = "commit", !.rfq = r, !.supplier = p,
                             !.received = rfq[r].received])
    /\ UNCHANGED <<dbVars, worldVars>>

CommitAnswer(s, o) ==
    /\ At(s, "answer", "commit")
    /\ RowsFrom(sess[s].rfq, sess[s].supplier) = {}
    /\ NextSupplierQuote(o)
    /\ InsertSupplierQuote(o, sess[s].rfq, sess[s].supplier)
    /\ CountAnswer(sess[s].rfq, sess[s].received)
    /\ Finish(s)
    /\ UNCHANGED <<inquiry, quote, approvals, bookings, worldVars>>

-----------------------------------------------------------------------------
(* optimize_quote: prices the cheapest answer; the inquiry is read after    *)
(* the drafting agent has answered.                                         *)

ReadOptimize(s, r) ==
    /\ rfq[r].status # "absent"
    /\ Cardinality(RowsOf(r)) >= MinSupplierQuotes
    /\ Start(s, [Idle EXCEPT !.op = "optimize", !.pc = "load", !.rfq = r])
    /\ UNCHANGED <<dbVars, worldVars>>

\* Mutant: pricing again reuses an existing row instead of inserting one.
CommitOptimizeReuse(s, q) ==
    /\ MayCommit(s, "optimize")
    /\ SetQuote(q, "waiting_approval")
    /\ MoveInquiry(s)
    /\ Finish(s)
    /\ UNCHANGED <<rfq, supplierQuote, approvals, bookings, worldVars>>

CommitOptimize(s, q) ==
    /\ MayCommit(s, "optimize")
    /\ NextQuote(q)
    /\ SetQuote(q, "waiting_approval")
    /\ MoveInquiry(s)
    /\ Finish(s)
    /\ UNCHANGED <<rfq, supplierQuote, approvals, bookings, worldVars>>

-----------------------------------------------------------------------------
(* review_quote: the human verdict.                                         *)

ReadReview(s, q, action) ==
    /\ quote[q] = "waiting_approval"
    /\ Start(s, [Idle EXCEPT !.op = "review", !.pc = "load", !.quote = q, !.action = action])
    /\ UNCHANGED <<dbVars, worldVars>>

\* Mutant: the verdict is committed without moving the inquiry.
CommitReviewQuoteOnly(s) ==
    /\ At(s, "review", "commit")
    /\ SetQuote(sess[s].quote, IF sess[s].action = "approve" THEN "approved" ELSE "rejected")
    /\ RecordVerdict(sess[s].quote, sess[s].action)
    /\ Finish(s)
    /\ UNCHANGED <<inquiry, rfq, supplierQuote, bookings, worldVars>>

CommitReview(s) ==
    /\ MayCommit(s, "review")
    /\ SetQuote(sess[s].quote, IF sess[s].action = "approve" THEN "approved" ELSE "rejected")
    /\ RecordVerdict(sess[s].quote, sess[s].action)
    /\ MoveInquiry(s)
    /\ Finish(s)
    /\ UNCHANGED <<rfq, supplierQuote, bookings, worldVars>>

-----------------------------------------------------------------------------
(* send_quote: both rows are read before the e-mail leaves; the two queries *)
(* are one instant here.                                                    *)

\* Mutants: the approval check of send_quote is gone; the e-mail is skipped.
ReadSendUnchecked(s, q) ==
    /\ quote[q] # "absent"
    /\ MailsLeft(q)
    /\ Start(s, [Idle EXCEPT !.op = "send", !.pc = "effect", !.quote = q, !.seen = inquiry.status])
    /\ UNCHANGED <<dbVars, worldVars>>

ReadSendNoMail(s, q) ==
    /\ quote[q] = "approved"
    /\ Start(s, [Idle EXCEPT !.op = "send", !.pc = "commit", !.quote = q, !.seen = inquiry.status])
    /\ UNCHANGED <<dbVars, worldVars>>

ReadSend(s, q) ==
    /\ quote[q] = "approved"
    /\ MailsLeft(q)
    /\ Start(s, [Idle EXCEPT !.op = "send", !.pc = "effect", !.quote = q, !.seen = inquiry.status])
    /\ UNCHANGED <<dbVars, worldVars>>

MailQuote(s) ==
    /\ At(s, "send", "effect")
    /\ MailsLeft(sess[s].quote)
    /\ mailed' = [mailed EXCEPT ![sess[s].quote] = @ + 1]
    /\ Goto(s, "commit")
    /\ UNCHANGED <<dbVars, rfqMailed, ordered>>

CommitSend(s) ==
    /\ MayCommit(s, "send")
    /\ SetQuote(sess[s].quote, "sent")
    /\ MoveInquiry(s)
    /\ Finish(s)
    /\ UNCHANGED <<rfq, supplierQuote, approvals, bookings, worldVars>>

-----------------------------------------------------------------------------
(* create_booking: looks for an earlier booking of the same quote, orders   *)
(* from the carrier, then reads the inquiry.                                *)

\* Mutants: no look-up of an earlier booking; the order is skipped.
ReadBookAgain(s, q) ==
    /\ quote[q] = "sent"
    /\ OrdersLeft(q)
    /\ Start(s, [Idle EXCEPT !.op = "book", !.pc = "effect", !.quote = q])
    /\ UNCHANGED <<dbVars, worldVars>>
ReadBookNoOrder(s, q) ==
    /\ quote[q] = "sent"
    /\ bookings[q] = 0
    /\ Start(s, [Idle EXCEPT !.op = "book", !.pc = "load", !.quote = q])
    /\ UNCHANGED <<dbVars, worldVars>>

ReadBook(s, q) ==
    /\ quote[q] = "sent"
    /\ bookings[q] = 0
    /\ OrdersLeft(q)
    /\ Start(s, [Idle EXCEPT !.op = "book", !.pc = "effect", !.quote = q])
    /\ UNCHANGED <<dbVars, worldVars>>

OrderSpace(s) ==
    /\ At(s, "book", "effect")
    /\ OrdersLeft(sess[s].quote)
    /\ ordered' = [ordered EXCEPT ![sess[s].quote] = @ + 1]
    /\ Goto(s, "load")
    /\ UNCHANGED <<dbVars, rfqMailed, mailed>>

\* Mutant: the inquiry is booked, the bookings row is not added.
CommitBookNoRow(s) ==
    /\ MayCommit(s, "book")
    /\ MoveInquiry(s)
    /\ Finish(s)
    /\ UNCHANGED <<rfq, supplierQuote, quote, approvals, bookings, worldVars>>

CommitBook(s) ==
    /\ MayCommit(s, "book")
    /\ InsertBooking(sess[s].quote)
    /\ MoveInquiry(s)
    /\ Finish(s)
    /\ UNCHANGED <<rfq, supplierQuote, quote, approvals, worldVars>>

-----------------------------------------------------------------------------
(* Steps common to the handlers *)

\* optimize, review and book read the inquiry row after their first steps.
LoadInquiry(s) ==
    /\ sess[s].pc = "load"
    /\ sess' = [sess EXCEPT ![s].seen = inquiry.status, ![s].pc = "commit"]
    /\ UNCHANGED <<dbVars, worldVars>>

\* advance_status raises: the request answers 409 and its session rolls back.
Refuse(s) ==
    /\ sess[s].op \in Advancing /\ sess[s].pc = "commit"
    /\ ~CanTransition(sess[s].seen, Target(sess[s]))
    /\ Finish(s)
    /\ UNCHANGED <<dbVars, worldVars>>

\* A provider raises, the client disconnects or the process dies: what was not
\* committed is lost, what left the system is not called back.
Fail(s) ==
    /\ ~IsIdle(s)
    /\ Finish(s)
    /\ UNCHANGED <<dbVars, worldVars>>

-----------------------------------------------------------------------------

Editing(s)  == (\E c \in BOOLEAN : ReadPatch(s, c)) \/ CommitPatch(s)
Searching(s) == ReadSchedules(s) \/ CommitSchedules(s)
Requesting(s) == ReadRfq(s) \/ (\E r \in Rfqs : OpenRfq(s, r)) \/ MailRfq(s) \/ CommitRfq(s)
Answering(s) ==
    \/ \E r \in Rfqs, p \in Suppliers : ReadAnswer(s, r, p)
    \/ \E o \in SupplierQuotes : CommitAnswer(s, o)
Pricing(s) ==
    \/ \E r \in Rfqs : ReadOptimize(s, r)
    \/ \E q \in Quotes : CommitOptimize(s, q)
Reviewing(s) ==
    \/ \E q \in Quotes, a \in {"approve", "reject"} : ReadReview(s, q, a)
    \/ CommitReview(s)
Sending(s) == (\E q \in Quotes : ReadSend(s, q)) \/ MailQuote(s) \/ CommitSend(s)
Booking(s) == (\E q \in Quotes : ReadBook(s, q)) \/ OrderSpace(s) \/ CommitBook(s)

Next == \E s \in Sessions :
    \/ Editing(s) \/ Searching(s) \/ Requesting(s) \/ Answering(s)
    \/ Pricing(s) \/ Reviewing(s) \/ Sending(s) \/ Booking(s)
    \/ LoadInquiry(s) \/ Refuse(s) \/ Fail(s)

Spec == Init /\ [][Next]_vars

-----------------------------------------------------------------------------
(* What holds whatever the sessions do to one another *)

\* send_quote and create_booking keep the human gate under every interleaving,
\* failure and retry: no quotation e-mail without that quote's approval on
\* record, no order at the carrier for a quote the customer never received.
Gate == INSTANCE ApprovalGate WITH
    approved <- {q \in Quotes : Approved(q)},
    mailed   <- {q \in Quotes : mailed[q] > 0},
    ordered  <- {q \in Quotes : ordered[q] > 0}
Gated == Gate!Spec

\* What an inquiry status claims to have happened.
Evidence(status) ==
    /\ status \in {"waiting_supplier_quotes", "quote_ready", "waiting_approval", "approved",
                   "rejected", "sent", "booked"} => rfqMailed # {}
    /\ status \in {"waiting_approval", "approved", "rejected", "sent", "booked"}
           => \E q \in Quotes : quote[q] # "absent"
    /\ status \in {"approved", "sent", "booked"} => \E q \in Quotes : Approved(q)
    /\ status = "rejected" => \E q \in Quotes : Rejected(q)
    /\ status \in {"sent", "booked"} => \E q \in Quotes : mailed[q] > 0
    /\ status = "booked" => \E q \in Quotes : bookings[q] > 0

\* However stale the status a handler moved the inquiry from, the status it
\* leaves behind is backed by the rows and effects it stands for: the commits
\* of the handlers write the two together, and nothing deletes the evidence.
StatusHasEvidence == Evidence(inquiry.status)

\* What each handler still knows between its steps, although every row it read
\* may have changed since: only facts that no commit undoes.  With the same for
\* the rows of each quote it is the reason why the gate holds.
SessionKnows(s) ==
    LET m == sess[s] IN
    /\ m.op = "rfq" /\ m.pc = "commit" => rfqMailed # {}
    /\ m.op = "review" => quote[m.quote] # "absent"
    /\ m.op = "send" => Approved(m.quote)
    /\ m.op = "send" /\ m.pc = "commit" => mailed[m.quote] > 0
    /\ m.op = "book" => mailed[m.quote] > 0
    /\ m.op = "book" /\ m.pc \in {"load", "commit"} => ordered[m.quote] > 0
    /\ m.seen \in InquiryStatus => Evidence(m.seen)

QuoteHistory(q) ==
    /\ quote[q] \in {"approved", "sent"} => Approved(q)
    /\ Approved(q) \/ Rejected(q) => quote[q] \in {"approved", "rejected", "sent"}
    /\ quote[q] = "sent" => mailed[q] > 0
    /\ mailed[q] > 0 => Approved(q)
    /\ ordered[q] > 0 => mailed[q] > 0
    /\ bookings[q] > 0 => ordered[q] > 0

FactsOnly ==
    /\ StatusHasEvidence
    /\ \A q \in Quotes : QuoteHistory(q)
    /\ \A s \in Sessions : SessionKnows(s)

\* create_booking never records space nobody ordered: a bookings row is written
\* only by the session that placed its order, even when several sessions book
\* the same quote at once or some of them are lost after ordering.
BookingsAreOrders == \A q \in Quotes : bookings[q] <= ordered[q]

\* add_supplier_quote may lose a count to a concurrent answer but never invents
\* one, so an RFQ is not declared complete before that many rows arrived.
AnswersCounted == \A r \in Rfqs :
    /\ rfq[r].received <= Cardinality(RowsOf(r))
    /\ rfq[r].status = "complete" => Cardinality(RowsOf(r)) >= Expected

\* review_quote is the only way out of waiting_approval and nothing leads back
\* in: racing reviewers may overwrite one another, but no quote goes from
\* unreviewed to sent, and none that was reviewed becomes reviewable again.
VerdictBeforeSent == [][\A q \in Quotes :
    /\ quote[q] = "waiting_approval" => quote'[q] # "sent"
    /\ quote'[q] = "waiting_approval" => quote[q] \in {"absent", "waiting_approval"}]_quote

-----------------------------------------------------------------------------
(* What holds while requests are served one at a time (one session), failed *)
(* and repeated requests included                                           *)

\* The statuses the quotes of an inquiry may have under an inquiry status.
QuotesUnder(status) ==
    {"absent"} \cup
    (IF status \in {"waiting_approval", "approved", "rejected", "sent", "booked"}
     THEN {"waiting_approval"} ELSE {}) \cup
    (IF status \in {"approved", "sent", "booked"} THEN {"approved"} ELSE {}) \cup
    (IF status \in {"sent", "booked"} THEN {"sent"} ELSE {}) \cup
    (IF status = "rejected" THEN {"rejected"} ELSE {})

\* The quote table and the inquiry tell the same story although each service
\* writes them from its own checks: a rejected inquiry has no approved, sent or
\* mailed quote, an inquiry that is not yet approved has no approved quote, and
\* one that is approved, sent or booked has a quote that is.
QuotesAgree ==
    /\ \A q \in Quotes : quote[q] \in QuotesUnder(inquiry.status)
    /\ inquiry.status \in {"approved", "rejected", "sent"}
           => \E q \in Quotes : quote[q] = inquiry.status
    /\ inquiry.status = "booked" => \E q \in Quotes : quote[q] = "sent" /\ bookings[q] > 0
    /\ inquiry.status = "rejected" => \A q \in Quotes : mailed[q] = 0

\* The services, patch_inquiry included, move an inquiry along the edges of
\* INQUIRY_TRANSITIONS only.
Lifecycle == INSTANCE InquiryLifecycle WITH status <- inquiry.status
ForwardOnly == Lifecycle!Spec

\* The look-ups of create_booking and add_supplier_quote make them idempotent:
\* one booking per quote, one row per supplier and RFQ, each row counted once.
OneRowEach ==
    /\ \A q \in Quotes : bookings[q] <= 1
    /\ \A r \in Rfqs :
        /\ \A p \in Suppliers : Cardinality(RowsFrom(r, p)) <= 1
        /\ rfq[r].received = Cardinality(RowsOf(r))

-----------------------------------------------------------------------------
(* What the repository says and concurrent requests break *)

\* tests/test_booking.py: "A `sent` quote on an `approved` inquiry cannot exist
\* in the real flow."  A second verdict read before the first was committed
\* overwrites the status of an inquiry whose other quote has been sent since.
SentIsNotApproved == ~(inquiry.status = "approved" /\ \E q \in Quotes : quote[q] = "sent")

\* README.md calls advance_status forward-only, and patch_inquiry says that a
\* field edit must not rewind the status the pipeline owns.  An edit read while
\* the inquiry was still editable writes the status it derived over the one a
\* later stage has committed meanwhile.
NeverRewinds == [][\A i, j \in DOMAIN HAPPY_PATH :
    inquiry.status = HAPPY_PATH[i] /\ inquiry'.status = HAPPY_PATH[j] => i <= j]_inquiry

=============================================================================
