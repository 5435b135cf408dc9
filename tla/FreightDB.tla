------------------------------ MODULE FreightDB ------------------------------
(***************************************************************************)
(* The rows that belong to one inquiry (app/models.py) and the effects that *)
(* left the system on its behalf.  Every query of the services filters by   *)
(* tenant and inquiry, so two inquiries never share a row and one is        *)
(* enough.  The rows are committed data; what a session has read or not yet *)
(* committed is the business of the modules that extend this one.           *)
(*                                                                         *)
(* Row identifiers count up in creation order, 0 meaning "no row", so the   *)
(* row with the highest number is the one the newest-first queries return.  *)
(***************************************************************************)
EXTENDS StateMachine, Naturals, FiniteSets

CONSTANTS
    MaxRfqs, MaxSupplierQuotes, MaxQuotes,  \* bounds on the rows created
    Suppliers,                              \* who may answer an RFQ
    Expected,                               \* len(DEMO_SUPPLIERS)
    MinSupplierQuotes,                      \* settings.min_supplier_quotes
    None                                    \* no supplier

ASSUME RowBounds ==
    /\ MaxRfqs \in Nat /\ MaxSupplierQuotes \in Nat /\ MaxQuotes \in Nat
    /\ Expected \in Nat \ {0}
    /\ MinSupplierQuotes \in Nat
    /\ None \notin Suppliers

Rfqs           == 1..MaxRfqs
SupplierQuotes == 1..MaxSupplierQuotes
Quotes         == 1..MaxQuotes

VARIABLES
    inquiry,        \* status, and whether missing_fields is empty
    rfq,            \* per RFQ row: status and received_quotes
    supplierQuote,  \* per supplier_quotes row: its RFQ (0: no row), its sender
    quote,          \* status of each customer_quotes row
    approvals,      \* the approvals table: verdicts recorded, never deleted
    bookings,       \* number of bookings rows of each customer quote
    rfqMailed,      \* RFQs whose e-mails went out to the suppliers
    mailed,         \* quotation e-mails the customer got, per customer quote
    ordered         \* bookings placed with the carrier, per customer quote

dbVars    == <<inquiry, rfq, supplierQuote, quote, approvals, bookings>>
worldVars == <<rfqMailed, mailed, ordered>>

QuoteStatus == {"absent", "waiting_approval", "approved", "rejected", "sent"}
RfqStatus   == {"absent", "open", "complete"}
Verdict     == [quote : Quotes, action : {"approve", "reject"}]

DBTypeOK ==
    /\ inquiry \in [status : InquiryStatus, complete : BOOLEAN]
    /\ rfq \in [Rfqs -> [status : RfqStatus, received : Nat]]
    /\ supplierQuote \in [SupplierQuotes -> [rfq : Rfqs \cup {0}, from : Suppliers \cup {None}]]
    /\ quote \in [Quotes -> QuoteStatus]
    /\ approvals \subseteq Verdict
    /\ bookings \in [Quotes -> Nat]
    /\ rfqMailed \subseteq Rfqs
    /\ mailed \in [Quotes -> Nat]
    /\ ordered \in [Quotes -> Nat]

\* ingest_message has stored the inquiry; nothing else exists yet.
DBInit ==
    /\ inquiry \in {[status |-> DerivedInquiryStatus(c), complete |-> c] : c \in BOOLEAN}
    /\ rfq = [r \in Rfqs |-> [status |-> "absent", received |-> 0]]
    /\ supplierQuote = [o \in SupplierQuotes |-> [rfq |-> 0, from |-> None]]
    /\ quote = [q \in Quotes |-> "absent"]
    /\ approvals = {}
    /\ bookings = [q \in Quotes |-> 0]
    /\ rfqMailed = {}
    /\ mailed = [q \in Quotes |-> 0]
    /\ ordered = [q \in Quotes |-> 0]

-----------------------------------------------------------------------------
(* Reading *)

Approved(q) == [quote |-> q, action |-> "approve"] \in approvals
Rejected(q) == [quote |-> q, action |-> "reject"] \in approvals

RowsOf(r) == {o \in SupplierQuotes : supplierQuote[o].rfq = r}
RowsFrom(r, p) == {o \in RowsOf(r) : supplierQuote[o].from = p}

OpenRfqExists == \E r \in Rfqs : rfq[r].status = "open"

\* r, o or q is the identifier the next INSERT of its table gets.
NextRfq(r) ==
    /\ rfq[r].status = "absent"
    /\ \A s \in 1..(r-1) : rfq[s].status # "absent"
NextSupplierQuote(o) ==
    /\ supplierQuote[o].rfq = 0
    /\ \A s \in 1..(o-1) : supplierQuote[s].rfq # 0
NextQuote(q) ==
    /\ quote[q] = "absent"
    /\ \A s \in 1..(q-1) : quote[s] # "absent"

-----------------------------------------------------------------------------
(* Writing.  An UPDATE carries only the columns the session changed with    *)
(* respect to what it had read, so each write takes the value read.         *)

\* advance_status on an inquiry row read with status "seen".
Advanced(seen, target) ==
    IF seen = target THEN inquiry ELSE [inquiry EXCEPT !.status = target]

\* Mutant: a status outside the vocabulary.
InsertRfqNew(r) == rfq' = [rfq EXCEPT ![r] = [status |-> "new", received |-> 0]]

InsertRfq(r) == rfq' = [rfq EXCEPT ![r] = [status |-> "open", received |-> 0]]

InsertSupplierQuote(o, r, p) ==
    supplierQuote' = [supplierQuote EXCEPT ![o] = [rfq |-> r, from |-> p]]

\* Mutant: declared complete one answer early.
CountAnswerEarly(r, seen) ==
    rfq' = [rfq EXCEPT ![r] = [status   |-> IF seen + 1 >= Expected - 1 THEN "complete" ELSE @.status,
                               received |-> seen + 1]]

\* received_quotes += 1 on an RFQ row read with "seen" answers counted.
CountAnswer(r, seen) ==
    rfq' = [rfq EXCEPT ![r] = [status   |-> IF seen + 1 >= Expected THEN "complete" ELSE @.status,
                               received |-> seen + 1]]

SetQuote(q, status) == quote' = [quote EXCEPT ![q] = status]

RecordVerdict(q, action) ==
    approvals' = approvals \cup {[quote |-> q, action |-> action]}

InsertBooking(q) == bookings' = [bookings EXCEPT ![q] = @ + 1]

=============================================================================
