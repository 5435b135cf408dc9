--------------------------- MODULE QuoteDeskProofs ---------------------------
(***************************************************************************)
(* Theorems about QuoteDesk for every number of sessions, rows and          *)
(* suppliers.                                                               *)
(***************************************************************************)
EXTENDS QuoteDesk, FreightDBProofs, FiniteSetTheorems, TLAPS

Step(s) ==
    \/ Editing(s) \/ Searching(s) \/ Requesting(s) \/ Answering(s)
    \/ Pricing(s) \/ Reviewing(s) \/ Sending(s) \/ Booking(s)
    \/ LoadInquiry(s) \/ Refuse(s) \/ Fail(s)

-----------------------------------------------------------------------------
(* Types *)

\* Every operation aims at a status of the vocabulary.
LEMMA TargetInStatus ==
    ASSUME NEW m \in Memory, m.op \in Advancing
    PROVE  Target(m) \in InquiryStatus
  BY DEF Target, Memory, Fields, Advancing, Ops, InquiryStatus

LEMMA IdleInMemory == Idle \in Memory
  BY DEF Idle, Memory, Fields, Knows, Ops, Pcs, Advancing

LEMMA StartType ==
    ASSUME TypeOK, NEW s \in Sessions, NEW m \in Memory, Start(s, m)
    PROVE  sess' \in [Sessions -> Memory]
  BY DEF TypeOK, Start

LEMMA FinishType ==
    ASSUME TypeOK, NEW s \in Sessions, Finish(s)
    PROVE  sess' \in [Sessions -> Memory]
  BY IdleInMemory DEF TypeOK, Finish

\* A session goes on with a memory that still knows its rows.
LEMMA GotoType ==
    ASSUME TypeOK, NEW s \in Sessions, NEW pc \in Pcs, Goto(s, pc),
           [sess[s] EXCEPT !.pc = pc] \in Memory
    PROVE  sess' \in [Sessions -> Memory]
<1>1. sess' = [sess EXCEPT ![s] = [sess[s] EXCEPT !.pc = pc]]
  BY DEF TypeOK, Goto
<1> QED
  BY <1>1 DEF TypeOK

LEMMA MoveType ==
    ASSUME TypeOK, NEW s \in Sessions, NEW op \in Advancing, At(s, op, "commit"), MoveInquiry(s)
    PROVE  inquiry' \in [status : InquiryStatus, complete : BOOLEAN]
<1>1. Target(sess[s]) \in InquiryStatus
  BY TargetInStatus DEF TypeOK, At
<1> QED
  BY <1>1 DEF TypeOK, DBTypeOK, MoveInquiry, Advanced

\* What a session remembers keeps its shape.
LEMMA SessType ==
    ASSUME TypeOK, NEW s \in Sessions, Step(s)
    PROVE  sess' \in [Sessions -> Memory]
<1>st. inquiry.status \in InquiryStatus /\ inquiry.complete \in BOOLEAN
  BY DEF TypeOK, DBTypeOK
<1>pc. "load" \in Pcs /\ "commit" \in Pcs
  BY DEF Pcs
<1>m. sess[s] \in Memory
  BY DEF TypeOK
<1>1. CASE Editing(s)
  <2>1. ASSUME NEW c \in BOOLEAN, ReadPatch(s, c) PROVE sess' \in [Sessions -> Memory]
    <3>1. [Idle EXCEPT !.op = "patch", !.pc = "commit", !.seen = inquiry.status,
                       !.was = inquiry.complete, !.now = c] \in Memory
      BY <1>st DEF Idle, Memory, Fields, Knows, Ops, Pcs, Advancing
    <3> QED BY <3>1, <2>1, StartType DEF ReadPatch
  <2> QED BY <1>1, <2>1, FinishType DEF Editing, CommitPatch
<1>2. CASE Searching(s)
  <2>1. [Idle EXCEPT !.op = "schedules", !.pc = "commit", !.seen = inquiry.status] \in Memory
    BY <1>st DEF Idle, Memory, Fields, Knows, Ops, Pcs, Advancing
  <2> QED BY <1>2, <2>1, StartType, FinishType DEF Searching, ReadSchedules, CommitSchedules
<1>3. CASE Requesting(s)
  <2>1. [Idle EXCEPT !.op = "rfq", !.pc = "open", !.seen = inquiry.status] \in Memory
    BY <1>st DEF Idle, Memory, Fields, Knows, Ops, Pcs, Advancing
  <2>2. ASSUME NEW r \in Rfqs, OpenRfq(s, r) PROVE sess' \in [Sessions -> Memory]
    <3>1. [sess[s] EXCEPT !.pc = "effect", !.rfq = r] \in Memory
      BY <1>m, <2>2 DEF OpenRfq, At, Memory, Fields, Knows, Pcs
    <3>2. sess' = [sess EXCEPT ![s] = [sess[s] EXCEPT !.pc = "effect", !.rfq = r]]
      BY <2>2 DEF OpenRfq, TypeOK
    <3> QED BY <3>1, <3>2 DEF TypeOK
  <2>3. CASE MailRfq(s)
    <3>1. [sess[s] EXCEPT !.pc = "commit"] \in Memory
      BY <1>m, <2>3 DEF MailRfq, At, Memory, Fields, Knows, Pcs
    <3> QED BY <3>1, <2>3, <1>pc, GotoType DEF MailRfq
  <2> QED BY <1>3, <2>1, <2>2, <2>3, StartType, FinishType
          DEF Requesting, ReadRfq, CommitRfq
<1>4. CASE Answering(s)
  <2>1. ASSUME NEW r \in Rfqs, NEW p \in Suppliers, ReadAnswer(s, r, p)
        PROVE  sess' \in [Sessions -> Memory]
    <3>1. rfq[r].received \in Nat
      BY DEF TypeOK, DBTypeOK
    <3>2. [Idle EXCEPT !.op = "answer", !.pc = "commit", !.rfq = r, !.supplier = p,
                       !.received = rfq[r].received] \in Memory
      BY <3>1 DEF Idle, Memory, Fields, Knows, Ops, Pcs, Advancing
    <3> QED BY <3>2, <2>1, StartType DEF ReadAnswer
  <2> QED BY <1>4, <2>1, FinishType DEF Answering, CommitAnswer
<1>5. CASE Pricing(s)
  <2>1. ASSUME NEW r \in Rfqs, ReadOptimize(s, r) PROVE sess' \in [Sessions -> Memory]
    <3>1. [Idle EXCEPT !.op = "optimize", !.pc = "load", !.rfq = r] \in Memory
      BY DEF Idle, Memory, Fields, Knows, Ops, Pcs, Advancing
    <3> QED BY <3>1, <2>1, StartType DEF ReadOptimize
  <2> QED BY <1>5, <2>1, FinishType DEF Pricing, CommitOptimize
<1>6. CASE Reviewing(s)
  <2>1. ASSUME NEW q \in Quotes, NEW a \in {"approve", "reject"}, ReadReview(s, q, a)
        PROVE  sess' \in [Sessions -> Memory]
    <3>1. [Idle EXCEPT !.op = "review", !.pc = "load", !.quote = q, !.action = a] \in Memory
      BY DEF Idle, Memory, Fields, Knows, Ops, Pcs, Advancing
    <3> QED BY <3>1, <2>1, StartType DEF ReadReview
  <2> QED BY <1>6, <2>1, FinishType DEF Reviewing, CommitReview
<1>7. CASE Sending(s)
  <2>1. ASSUME NEW q \in Quotes, ReadSend(s, q) PROVE sess' \in [Sessions -> Memory]
    <3>1. [Idle EXCEPT !.op = "send", !.pc = "effect", !.quote = q,
                       !.seen = inquiry.status] \in Memory
      BY <1>st DEF Idle, Memory, Fields, Knows, Ops, Pcs, Advancing
    <3> QED BY <3>1, <2>1, StartType DEF ReadSend
  <2>2. CASE MailQuote(s)
    <3>1. [sess[s] EXCEPT !.pc = "commit"] \in Memory
      BY <1>m, <2>2 DEF MailQuote, At, Memory, Fields, Knows, Pcs
    <3> QED BY <3>1, <2>2, <1>pc, GotoType DEF MailQuote
  <2> QED BY <1>7, <2>1, <2>2, FinishType DEF Sending, CommitSend
<1>8. CASE Booking(s)
  <2>1. ASSUME NEW q \in Quotes, ReadBook(s, q) PROVE sess' \in [Sessions -> Memory]
    <3>1. [Idle EXCEPT !.op = "book", !.pc = "effect", !.quote = q] \in Memory
      BY DEF Idle, Memory, Fields, Knows, Ops, Pcs, Advancing
    <3> QED BY <3>1, <2>1, StartType DEF ReadBook
  <2>2. CASE OrderSpace(s)
    <3>1. [sess[s] EXCEPT !.pc = "load"] \in Memory
      BY <1>m, <2>2 DEF OrderSpace, At, Memory, Fields, Knows, Pcs
    <3> QED BY <3>1, <2>2, <1>pc, GotoType DEF OrderSpace
  <2> QED BY <1>8, <2>1, <2>2, FinishType DEF Booking, CommitBook
<1>9. CASE LoadInquiry(s)
  <2>1. [sess[s] EXCEPT !.seen = inquiry.status, !.pc = "commit"] \in Memory
    BY <1>m, <1>st, <1>9 DEF LoadInquiry, Memory, Fields, Knows, Pcs
  <2>2. sess' = [sess EXCEPT ![s] = [sess[s] EXCEPT !.seen = inquiry.status, !.pc = "commit"]]
    BY <1>9 DEF LoadInquiry, TypeOK
  <2> QED BY <2>1, <2>2 DEF TypeOK
<1>10. CASE Refuse(s) \/ Fail(s)
  BY <1>10, FinishType DEF Refuse, Fail
<1> QED
  BY <1>1, <1>2, <1>3, <1>4, <1>5, <1>6, <1>7, <1>8, <1>9, <1>10 DEF Step

\* A step that writes no row keeps the types of the rows.
LEMMA RowsKept ==
    ASSUME DBTypeOK, UNCHANGED <<dbVars, worldVars>>
    PROVE  DBTypeOK'
  BY DEF DBTypeOK, dbVars, worldVars

\* A step that only moves the inquiry keeps the types of the rows.
LEMMA InquiryMoved ==
    ASSUME DBTypeOK, inquiry' \in [status : InquiryStatus, complete : BOOLEAN],
           UNCHANGED <<rfq, supplierQuote, quote, approvals, bookings, worldVars>>
    PROVE  DBTypeOK'
  BY DEF DBTypeOK, worldVars

\* Rows and effects keep their shape.
LEMMA RowsType ==
    ASSUME TypeOK, NEW s \in Sessions, Step(s)
    PROVE  DBTypeOK'
<1>db. DBTypeOK
  BY DEF TypeOK
<1>m. sess[s] \in Memory
  BY DEF TypeOK
<1>adv. {"schedules", "rfq", "optimize", "review", "send", "book"} \subseteq Advancing
  BY DEF Advancing, Ops
<1>1. CASE Editing(s)
  <2>1. CASE CommitPatch(s)
    <3>1. sess[s].seen \in InquiryStatus \cup {"none"} /\ sess[s].now \in BOOLEAN
      BY <1>m DEF Memory, Fields
    <3>2. inquiry' \in [status : InquiryStatus, complete : BOOLEAN]
      BY <2>1, <3>1, <1>db
         DEF CommitPatch, DBTypeOK, DerivedInquiryStatus, CONTENT_EDITABLE, InquiryStatus
    <3> QED BY <3>2, <2>1, <1>db, InquiryMoved DEF CommitPatch
  <2> QED BY <1>1, <2>1, <1>db, RowsKept DEF Editing, ReadPatch
<1>2. CASE Searching(s)
  BY <1>2, <1>db, <1>adv, RowsKept, InquiryMoved, MoveType
     DEF Searching, ReadSchedules, CommitSchedules, MayCommit
<1>3. CASE Requesting(s)
  <2>1. CASE ReadRfq(s)
    BY <2>1, <1>db, RowsKept DEF ReadRfq
  <2>2. ASSUME NEW r \in Rfqs, OpenRfq(s, r) PROVE DBTypeOK'
    BY <2>2, <1>db DEF OpenRfq, InsertRfq, DBTypeOK, worldVars, RfqStatus
  <2>3. CASE MailRfq(s)
    <3>1. sess[s].rfq \in Rfqs
      BY <2>3, <1>m DEF MailRfq, At, Memory, Knows
    <3> QED BY <3>1, <2>3, <1>db DEF MailRfq, DBTypeOK, dbVars
  <2>4. CASE CommitRfq(s)
    BY <2>4, <1>db, <1>adv, InquiryMoved, MoveType DEF CommitRfq, MayCommit
  <2> QED BY <1>3, <2>1, <2>2, <2>3, <2>4 DEF Requesting
<1>4. CASE Answering(s)
  <2>1. ASSUME NEW o \in SupplierQuotes, CommitAnswer(s, o) PROVE DBTypeOK'
    <3>1. sess[s].rfq \in Rfqs /\ sess[s].supplier \in Suppliers /\ sess[s].received \in Nat
      BY <2>1, <1>m DEF CommitAnswer, At, Memory, Fields, Knows
    <3>2. supplierQuote' \in [SupplierQuotes -> [rfq : Rfqs \cup {0}, from : Suppliers \cup {None}]]
      BY <3>1, <2>1, <1>db DEF CommitAnswer, InsertSupplierQuote, DBTypeOK
    <3>3. rfq' \in [Rfqs -> [status : RfqStatus, received : Nat]]
      BY <3>1, <2>1, <1>db DEF CommitAnswer, CountAnswer, DBTypeOK, RfqStatus
    <3> QED BY <3>2, <3>3, <2>1, <1>db DEF CommitAnswer, DBTypeOK, worldVars
  <2> QED BY <1>4, <2>1, <1>db, RowsKept DEF Answering, ReadAnswer
<1>5. CASE Pricing(s)
  <2>1. ASSUME NEW q \in Quotes, CommitOptimize(s, q) PROVE DBTypeOK'
    <3>1. inquiry' \in [status : InquiryStatus, complete : BOOLEAN]
      BY <2>1, <1>adv, MoveType DEF CommitOptimize, MayCommit
    <3>2. quote' \in [Quotes -> QuoteStatus]
      BY <2>1, <1>db DEF CommitOptimize, SetQuote, DBTypeOK, QuoteStatus
    <3> QED BY <3>1, <3>2, <2>1, <1>db DEF CommitOptimize, DBTypeOK, worldVars
  <2> QED BY <1>5, <2>1, <1>db, RowsKept DEF Pricing, ReadOptimize
<1>6. CASE Reviewing(s)
  <2>1. CASE CommitReview(s)
    <3>1. inquiry' \in [status : InquiryStatus, complete : BOOLEAN]
      BY <2>1, <1>adv, MoveType DEF CommitReview, MayCommit
    <3>2. quote' \in [Quotes -> QuoteStatus]
      BY <2>1, <1>db DEF CommitReview, SetQuote, DBTypeOK, QuoteStatus
    <3>3. sess[s].quote \in Quotes /\ sess[s].action \in {"approve", "reject"}
      BY <2>1, <1>m DEF CommitReview, MayCommit, At, Memory, Knows
    <3>4. approvals' \subseteq Verdict
      BY <3>3, <2>1, <1>db DEF CommitReview, RecordVerdict, DBTypeOK, Verdict
    <3> QED BY <3>1, <3>2, <3>4, <2>1, <1>db DEF CommitReview, DBTypeOK, worldVars
  <2> QED BY <1>6, <2>1, <1>db, RowsKept DEF Reviewing, ReadReview
<1>7. CASE Sending(s)
  <2>1. CASE MailQuote(s)
    <3>1. sess[s].quote \in Quotes
      BY <2>1, <1>m DEF MailQuote, At, Memory, Knows
    <3>2. mailed' \in [Quotes -> Nat]
      BY <3>1, <2>1, <1>db DEF MailQuote, DBTypeOK
    <3> QED BY <3>2, <2>1, <1>db DEF MailQuote, DBTypeOK, dbVars
  <2>2. CASE CommitSend(s)
    <3>1. inquiry' \in [status : InquiryStatus, complete : BOOLEAN]
      BY <2>2, <1>adv, MoveType DEF CommitSend, MayCommit
    <3>2. quote' \in [Quotes -> QuoteStatus]
      BY <2>2, <1>db DEF CommitSend, SetQuote, DBTypeOK, QuoteStatus
    <3> QED BY <3>1, <3>2, <2>2, <1>db DEF CommitSend, DBTypeOK, worldVars
  <2> QED BY <1>7, <2>1, <2>2, <1>db, RowsKept DEF Sending, ReadSend
<1>8. CASE Booking(s)
  <2>1. CASE OrderSpace(s)
    <3>1. sess[s].quote \in Quotes
      BY <2>1, <1>m DEF OrderSpace, At, Memory, Knows
    <3>2. ordered' \in [Quotes -> Nat]
      BY <3>1, <2>1, <1>db DEF OrderSpace, DBTypeOK
    <3> QED BY <3>2, <2>1, <1>db DEF OrderSpace, DBTypeOK, dbVars
  <2>2. CASE CommitBook(s)
    <3>1. inquiry' \in [status : InquiryStatus, complete : BOOLEAN]
      BY <2>2, <1>adv, MoveType DEF CommitBook, MayCommit
    <3>2. sess[s].quote \in Quotes
      BY <2>2, <1>m DEF CommitBook, MayCommit, At, Memory, Knows
    <3>3. bookings' \in [Quotes -> Nat]
      BY <3>2, <2>2, <1>db DEF CommitBook, InsertBooking, DBTypeOK
    <3> QED BY <3>1, <3>3, <2>2, <1>db DEF CommitBook, DBTypeOK, worldVars
  <2> QED BY <1>8, <2>1, <2>2, <1>db, RowsKept DEF Booking, ReadBook
<1>9. CASE LoadInquiry(s) \/ Refuse(s) \/ Fail(s)
  BY <1>9, <1>db, RowsKept DEF LoadInquiry, Refuse, Fail
<1> QED
  BY <1>1, <1>2, <1>3, <1>4, <1>5, <1>6, <1>7, <1>8, <1>9 DEF Step

LEMMA InitType == Init => TypeOK
<1> SUFFICES ASSUME Init PROVE TypeOK
  OBVIOUS
<1>1. inquiry \in [status : InquiryStatus, complete : BOOLEAN]
  BY DEF Init, DBInit, DerivedInquiryStatus, InquiryStatus
<1>2. DBTypeOK
  BY <1>1 DEF Init, DBInit, DBTypeOK, RfqStatus, QuoteStatus
<1> QED
  BY <1>2, IdleInMemory DEF Init, TypeOK

\* Rows, effects and session memories have their types in every reachable
\* state: in particular every handler that gets as far as an effect or a commit
\* knows the row it is about.
THEOREM TypeCorrect == Spec => []TypeOK
<1>1. TypeOK /\ [Next]_vars => TypeOK'
  <2> SUFFICES ASSUME TypeOK, [Next]_vars PROVE TypeOK'
    OBVIOUS
  <2>1. ASSUME NEW s \in Sessions, Step(s) PROVE TypeOK'
    BY <2>1, SessType, RowsType DEF TypeOK
  <2>2. CASE UNCHANGED vars
    BY <2>2 DEF vars, TypeOK, DBTypeOK
  <2> QED BY <2>1, <2>2 DEF Next, Step
<1> QED
  BY <1>1, InitType, PTL DEF Spec

-----------------------------------------------------------------------------
(* Facts *)

\* What no step undoes.
Grows ==
    /\ rfqMailed \subseteq rfqMailed'
    /\ approvals \subseteq approvals'
    /\ \A q \in Quotes :
        /\ quote[q] # "absent" => quote'[q] # "absent"
        /\ mailed[q] > 0 => mailed'[q] > 0
        /\ ordered[q] > 0 => ordered'[q] > 0
        /\ bookings[q] > 0 => bookings'[q] > 0

LEMMA StepGrows ==
    ASSUME TypeOK, NEW s \in Sessions, Step(s)
    PROVE  Grows
<1>t. /\ mailed \in [Quotes -> Nat] /\ ordered \in [Quotes -> Nat]
      /\ bookings \in [Quotes -> Nat] /\ quote \in [Quotes -> QuoteStatus]
  BY DEF TypeOK, DBTypeOK
<1> USE DEF Grows, dbVars, worldVars
<1>1. CASE Editing(s) \/ Searching(s)
  BY <1>1 DEF Editing, ReadPatch, CommitPatch, Searching, ReadSchedules, CommitSchedules
<1>2. CASE Requesting(s)
  BY <1>2 DEF Requesting, ReadRfq, OpenRfq, MailRfq, CommitRfq
<1>3. CASE Answering(s)
  BY <1>3 DEF Answering, ReadAnswer, CommitAnswer
<1>4. CASE Pricing(s)
  BY <1>4, <1>t DEF Pricing, ReadOptimize, CommitOptimize, SetQuote
<1>5. CASE Reviewing(s)
  BY <1>5, <1>t DEF Reviewing, ReadReview, CommitReview, SetQuote, RecordVerdict
<1>6. CASE Sending(s)
  <2>1. CASE MailQuote(s)
    <3>1. \A q \in Quotes : mailed'[q] = mailed[q] \/ mailed'[q] = mailed[q] + 1
      BY <2>1, <1>t DEF MailQuote
    <3> QED BY <3>1, <2>1, <1>t DEF MailQuote
  <2> QED BY <1>6, <2>1, <1>t DEF Sending, ReadSend, CommitSend, SetQuote
<1>7. CASE Booking(s)
  <2>1. CASE OrderSpace(s)
    <3>1. \A q \in Quotes : ordered'[q] = ordered[q] \/ ordered'[q] = ordered[q] + 1
      BY <2>1, <1>t DEF OrderSpace
    <3> QED BY <3>1, <2>1, <1>t DEF OrderSpace
  <2>2. CASE CommitBook(s)
    <3>1. \A q \in Quotes : bookings'[q] = bookings[q] \/ bookings'[q] = bookings[q] + 1
      BY <2>2, <1>t DEF CommitBook, InsertBooking
    <3> QED BY <3>1, <2>2, <1>t DEF CommitBook
  <2> QED BY <1>7, <2>1, <2>2 DEF Booking, ReadBook
<1>8. CASE LoadInquiry(s) \/ Refuse(s) \/ Fail(s)
  BY <1>8 DEF LoadInquiry, Refuse, Fail
<1> QED
  BY <1>1, <1>2, <1>3, <1>4, <1>5, <1>6, <1>7, <1>8 DEF Step

\* Evidence stays.
LEMMA EvidenceStays ==
    ASSUME NEW e, Evidence(e), Grows
    PROVE  Evidence(e)'
  BY DEF Evidence, Grows, Approved, Rejected

\* A commit that moves the inquiry leaves evidence of the status it writes.
LEMMA MovedWithEvidence ==
    ASSUME TypeOK, StatusHasEvidence, Grows, NEW s \in Sessions, MoveInquiry(s),
           NEW e, e = Target(sess[s]), Evidence(e)'
    PROVE  StatusHasEvidence'
<1>1. CASE sess[s].seen = e
  <2>1. inquiry' = inquiry
    BY <1>1 DEF MoveInquiry, Advanced
  <2> QED BY <2>1, EvidenceStays DEF StatusHasEvidence
<1>2. CASE sess[s].seen # e
  <2>1. inquiry'.status = e
    BY <1>2 DEF MoveInquiry, Advanced, TypeOK, DBTypeOK
  <2> QED BY <2>1 DEF StatusHasEvidence
<1> QED
  BY <1>1, <1>2

\* A step that leaves the inquiry alone leaves its evidence.
LEMMA KeptWithEvidence ==
    ASSUME StatusHasEvidence, Grows, inquiry' = inquiry
    PROVE  StatusHasEvidence'
  BY EvidenceStays DEF StatusHasEvidence

LEMMA StatusStep ==
    ASSUME TypeOK, FactsOnly, NEW s \in Sessions, Step(s)
    PROVE  StatusHasEvidence'
<1>g. Grows
  BY StepGrows
<1>f. StatusHasEvidence /\ SessionKnows(s)
  BY DEF FactsOnly
<1>m. sess[s] \in Memory
  BY DEF TypeOK
<1>1. CASE CommitPatch(s)
  <2>1. \/ inquiry'.status = inquiry.status
        \/ inquiry'.status \in {"ready", "needs_clarification"}
    BY <1>1 DEF CommitPatch, DerivedInquiryStatus
  <2>2. ASSUME inquiry'.status \in {"ready", "needs_clarification"} PROVE StatusHasEvidence'
    BY <2>2 DEF StatusHasEvidence, Evidence
  <2> QED BY <2>1, <2>2, <1>f, <1>g, EvidenceStays DEF StatusHasEvidence
<1>2. CASE CommitSchedules(s)
  <2>1. Target(sess[s]) = "scheduled" /\ Evidence("scheduled")'
    BY <1>2 DEF CommitSchedules, MayCommit, At, Target, Evidence
  <2> QED BY <2>1, <1>2, <1>f, <1>g, MovedWithEvidence DEF CommitSchedules
<1>3. CASE CommitRfq(s)
  <2>1. Target(sess[s]) = "waiting_supplier_quotes" /\ rfqMailed # {}
    BY <1>3, <1>f DEF CommitRfq, MayCommit, At, Target, SessionKnows
  <2>2. Evidence("waiting_supplier_quotes")'
    BY <2>1, <1>g DEF Grows, Evidence
  <2> QED BY <2>1, <2>2, <1>3, <1>f, <1>g, MovedWithEvidence DEF CommitRfq
<1>4. ASSUME NEW q \in Quotes, CommitOptimize(s, q) PROVE StatusHasEvidence'
  <2>1. Target(sess[s]) = "waiting_approval"
    BY <1>4 DEF CommitOptimize, MayCommit, At, Target
  <2>2. sess[s].seen \in {"waiting_supplier_quotes", "quote_ready", "waiting_approval"}
    BY <2>1, <1>4, <1>m DEF CommitOptimize, MayCommit, At, CanTransition,
       INQUIRY_TRANSITIONS, InquiryStatus, Memory, Knows, Advancing, Ops
  <2>3. rfqMailed # {}
    BY <2>2, <1>f DEF SessionKnows, Evidence, InquiryStatus
  <2>4. quote'[q] # "absent"
    BY <1>4 DEF CommitOptimize, SetQuote, TypeOK, DBTypeOK
  <2>5. Evidence("waiting_approval")'
    BY <2>3, <2>4, <1>g DEF Grows, Evidence
  <2> QED BY <2>1, <2>5, <1>4, <1>f, <1>g, MovedWithEvidence DEF CommitOptimize
<1>5. CASE CommitReview(s)
  <2>1. sess[s].quote \in Quotes /\ sess[s].action \in {"approve", "reject"}
    BY <1>5, <1>m DEF CommitReview, MayCommit, At, Memory, Knows
  <2> DEFINE e == Target(sess[s])
  <2>2. /\ sess[s].action = "approve" => e = "approved"
        /\ sess[s].action = "reject" => e = "rejected"
    BY <1>5, <2>1 DEF CommitReview, MayCommit, At, Target
  <2>3. sess[s].seen \in {"waiting_approval", "approved", "rejected"}
    BY <2>1, <2>2, <1>5, <1>m DEF CommitReview, MayCommit, At, CanTransition,
       INQUIRY_TRANSITIONS, InquiryStatus, Memory, Knows, Advancing, Ops
  <2>4. rfqMailed # {} /\ \E q \in Quotes : quote[q] # "absent"
    BY <2>3, <1>f DEF SessionKnows, Evidence, InquiryStatus
  <2>5. /\ sess[s].action = "approve" => \E q \in Quotes : Approved(q)'
        /\ sess[s].action = "reject" => \E q \in Quotes : Rejected(q)'
    BY <2>1, <1>5 DEF CommitReview, RecordVerdict, Approved, Rejected
  <2>6. CASE sess[s].action = "approve"
    <3>1. Evidence("approved")'
      BY <2>4, <2>5, <2>6, <1>g DEF Grows, Evidence
    <3> QED BY <3>1, <2>2, <2>6, <1>5, <1>f, <1>g, MovedWithEvidence DEF CommitReview
  <2>7. CASE sess[s].action = "reject"
    <3>1. Evidence("rejected")'
      BY <2>4, <2>5, <2>7, <1>g DEF Grows, Evidence
    <3> QED BY <3>1, <2>2, <2>7, <1>5, <1>f, <1>g, MovedWithEvidence DEF CommitReview
  <2> QED BY <2>1, <2>6, <2>7
<1>6. CASE CommitSend(s)
  <2>1. Target(sess[s]) = "sent"
    BY <1>6 DEF CommitSend, MayCommit, At, Target
  <2>2. sess[s].seen \in {"approved", "sent"}
    BY <2>1, <1>6, <1>m DEF CommitSend, MayCommit, At, CanTransition,
       INQUIRY_TRANSITIONS, InquiryStatus, Memory, Knows, Advancing, Ops
  <2>3. /\ rfqMailed # {} /\ \E q \in Quotes : quote[q] # "absent"
        /\ \E q \in Quotes : Approved(q)
    BY <2>2, <1>f DEF SessionKnows, Evidence, InquiryStatus
  <2>4. sess[s].quote \in Quotes /\ mailed[sess[s].quote] > 0
    BY <1>6, <1>m, <1>f DEF CommitSend, MayCommit, At, Memory, Knows, SessionKnows
  <2>5. Evidence("sent")'
    BY <2>3, <2>4, <1>g DEF Grows, Evidence, Approved
  <2> QED BY <2>1, <2>5, <1>6, <1>f, <1>g, MovedWithEvidence DEF CommitSend
<1>7. CASE CommitBook(s)
  <2>1. Target(sess[s]) = "booked"
    BY <1>7 DEF CommitBook, MayCommit, At, Target
  <2>2. sess[s].seen \in {"sent", "booked"}
    BY <2>1, <1>7, <1>m DEF CommitBook, MayCommit, At, CanTransition,
       INQUIRY_TRANSITIONS, InquiryStatus, Memory, Knows, Advancing, Ops
  <2>3. /\ rfqMailed # {} /\ \E q \in Quotes : quote[q] # "absent"
        /\ \E q \in Quotes : Approved(q)
        /\ \E q \in Quotes : mailed[q] > 0
    BY <2>2, <1>f DEF SessionKnows, Evidence, InquiryStatus
  <2>4. sess[s].quote \in Quotes
    BY <1>7, <1>m DEF CommitBook, MayCommit, At, Memory, Knows
  <2>5. bookings'[sess[s].quote] > 0
    BY <2>4, <1>7 DEF CommitBook, InsertBooking, TypeOK, DBTypeOK
  <2>6. Evidence("booked")'
    BY <2>3, <2>4, <2>5, <1>g DEF Grows, Evidence, Approved
  <2> QED BY <2>1, <2>6, <1>7, <1>f, <1>g, MovedWithEvidence DEF CommitBook
<1>8. CASE inquiry' = inquiry
  BY <1>8, <1>f, <1>g, KeptWithEvidence
<1> QED
  BY <1>1, <1>2, <1>3, <1>4, <1>5, <1>6, <1>7, <1>8
     DEF Step, Editing, Searching, Requesting, Answering, Pricing, Reviewing, Sending, Booking,
         ReadPatch, ReadSchedules, ReadRfq, OpenRfq, MailRfq, ReadAnswer, CommitAnswer,
         ReadOptimize, ReadReview, ReadSend, MailQuote, ReadBook, OrderSpace, LoadInquiry,
         Refuse, Fail, dbVars

\* The rows of one quote keep telling a possible history.
LEMMA HistoryStep ==
    ASSUME TypeOK, FactsOnly, NEW s \in Sessions, Step(s), NEW q \in Quotes
    PROVE  QuoteHistory(q)'
<1>t. /\ mailed \in [Quotes -> Nat] /\ ordered \in [Quotes -> Nat]
      /\ bookings \in [Quotes -> Nat] /\ quote \in [Quotes -> QuoteStatus]
  BY DEF TypeOK, DBTypeOK
<1>f. QuoteHistory(q) /\ SessionKnows(s)
  BY DEF FactsOnly
<1>m. sess[s] \in Memory
  BY DEF TypeOK
<1>1. ASSUME NEW x \in Quotes, CommitOptimize(s, x) PROVE QuoteHistory(q)'
  <2>1. quote[x] = "absent" /\ quote' = [quote EXCEPT ![x] = "waiting_approval"]
    BY <1>1 DEF CommitOptimize, NextQuote, SetQuote
  <2>2. UNCHANGED <<approvals, bookings, mailed, ordered>>
    BY <1>1 DEF CommitOptimize, worldVars
  <2> QED BY <2>1, <2>2, <1>f, <1>t DEF QuoteHistory, Approved, Rejected
<1>2. CASE CommitReview(s)
  <2>1. UNCHANGED <<bookings, mailed, ordered>>
    BY <1>2 DEF CommitReview, worldVars
  <2>2. sess[s].action \in {"approve", "reject"}
    BY <1>2, <1>m DEF CommitReview, MayCommit, At, Memory, Knows
  <2>3. CASE sess[s].quote = q
    <3>1. quote'[q] = IF sess[s].action = "approve" THEN "approved" ELSE "rejected"
      BY <2>3, <1>2, <1>t DEF CommitReview, SetQuote
    <3>2. /\ Approved(q)' <=> Approved(q) \/ sess[s].action = "approve"
          /\ Rejected(q)' <=> Rejected(q) \/ sess[s].action = "reject"
      BY <2>2, <2>3, <1>2 DEF CommitReview, RecordVerdict, Approved, Rejected
    <3> QED BY <3>1, <3>2, <2>1, <2>2, <1>f DEF QuoteHistory
  <2>4. CASE sess[s].quote # q
    <3>1. quote'[q] = quote[q]
      BY <2>4, <1>2, <1>t DEF CommitReview, SetQuote
    <3>2. (Approved(q)' <=> Approved(q)) /\ (Rejected(q)' <=> Rejected(q))
      BY <2>4, <1>2 DEF CommitReview, RecordVerdict, Approved, Rejected
    <3> QED BY <3>1, <3>2, <2>1, <1>f DEF QuoteHistory
  <2> QED BY <2>3, <2>4
<1>3. CASE MailQuote(s)
  <2>1. Approved(sess[s].quote)
    BY <1>3, <1>f DEF MailQuote, At, SessionKnows
  <2>2. UNCHANGED <<quote, approvals, bookings, ordered>>
    BY <1>3 DEF MailQuote, dbVars
  <2>3. mailed'[q] > 0 => mailed[q] > 0 \/ sess[s].quote = q
    BY <1>3, <1>t DEF MailQuote
  <2>4. mailed[q] > 0 => mailed'[q] > 0
    BY StepGrows DEF Grows
  <2> QED BY <2>1, <2>2, <2>3, <2>4, <1>f DEF QuoteHistory, Approved, Rejected
<1>4. CASE CommitSend(s)
  <2>1. Approved(sess[s].quote) /\ mailed[sess[s].quote] > 0
    BY <1>4, <1>f DEF CommitSend, MayCommit, At, SessionKnows
  <2>2. UNCHANGED <<approvals, bookings, mailed, ordered>>
    BY <1>4 DEF CommitSend, worldVars
  <2>3. quote'[q] = IF sess[s].quote = q THEN "sent" ELSE quote[q]
    BY <1>4, <1>t DEF CommitSend, SetQuote
  <2> QED BY <2>1, <2>2, <2>3, <1>f DEF QuoteHistory, Approved, Rejected
<1>5. CASE OrderSpace(s)
  <2>1. mailed[sess[s].quote] > 0
    BY <1>5, <1>f DEF OrderSpace, At, SessionKnows
  <2>2. UNCHANGED <<quote, approvals, bookings, mailed>>
    BY <1>5 DEF OrderSpace, dbVars
  <2>3. ordered'[q] > 0 => ordered[q] > 0 \/ sess[s].quote = q
    BY <1>5, <1>t DEF OrderSpace
  <2>4. ordered[q] > 0 => ordered'[q] > 0
    BY StepGrows DEF Grows
  <2> QED BY <2>1, <2>2, <2>3, <2>4, <1>f DEF QuoteHistory, Approved, Rejected
<1>6. CASE CommitBook(s)
  <2>1. ordered[sess[s].quote] > 0
    BY <1>6, <1>f DEF CommitBook, MayCommit, At, SessionKnows
  <2>2. UNCHANGED <<quote, approvals, ordered, mailed>>
    BY <1>6 DEF CommitBook, worldVars
  <2>3. bookings'[q] > 0 => bookings[q] > 0 \/ sess[s].quote = q
    BY <1>6, <1>t DEF CommitBook, InsertBooking
  <2> QED BY <2>1, <2>2, <2>3, <1>f DEF QuoteHistory, Approved, Rejected
<1>7. CASE UNCHANGED <<quote, approvals, bookings, mailed, ordered>>
  BY <1>7, <1>f DEF QuoteHistory, Approved, Rejected
<1> QED
  BY <1>1, <1>2, <1>3, <1>4, <1>5, <1>6, <1>7
     DEF Step, Editing, Searching, Requesting, Answering, Pricing, Reviewing, Sending, Booking,
         ReadPatch, CommitPatch, ReadSchedules, CommitSchedules, ReadRfq, OpenRfq, MailRfq,
         CommitRfq, ReadAnswer, CommitAnswer, ReadOptimize, ReadReview, ReadSend, ReadBook,
         LoadInquiry, Refuse, Fail, dbVars, worldVars

\* Whatever the others do, a session that rests keeps what it knows.
LEMMA KnowledgeStays ==
    ASSUME NEW t \in Sessions, SessionKnows(t), sess'[t] = sess[t], Grows,
           sess[t] \in Memory
    PROVE  SessionKnows(t)'
<1>1. ASSUME sess[t].seen \in InquiryStatus PROVE Evidence(sess[t].seen)'
  <2>1. Evidence(sess[t].seen)
    BY <1>1 DEF SessionKnows
  <2> QED BY <2>1 DEF Evidence, Grows, Approved, Rejected
<1>2. sess[t].op \in {"review", "send", "book"} => sess[t].quote \in Quotes
  BY DEF Memory, Knows
<1> QED
  BY <1>1, <1>2 DEF SessionKnows, Grows, Approved

\* A session that ended knows nothing, vacuously.
LEMMA IdleKnows ==
    ASSUME TypeOK, NEW s \in Sessions, Finish(s)
    PROVE  SessionKnows(s)'
<1>1. sess'[s] = Idle
  BY DEF TypeOK, Finish
<1> QED
  BY <1>1 DEF SessionKnows, Idle, InquiryStatus

\* A session that takes a step knows what the step found out.
LEMMA KnowledgeStep ==
    ASSUME TypeOK, FactsOnly, NEW s \in Sessions, Step(s)
    PROVE  SessionKnows(s)'
<1>g. Grows
  BY StepGrows
<1>f. SessionKnows(s) /\ StatusHasEvidence /\ \A q \in Quotes : QuoteHistory(q)
  BY DEF FactsOnly
<1>m. sess[s] \in Memory
  BY DEF TypeOK
<1>e. Evidence(inquiry.status)
  BY <1>f DEF StatusHasEvidence
<1>st. inquiry.status \in InquiryStatus /\ "none" \notin InquiryStatus
  BY DEF TypeOK, DBTypeOK, InquiryStatus
<1>1. ASSUME NEW m, m.op \in {"patch", "schedules", "rfq"}, m.pc # "commit" \/ m.op # "rfq",
             m.seen = inquiry.status, sess'[s] = m, UNCHANGED <<dbVars, worldVars>>
      PROVE  SessionKnows(s)'
  BY <1>1, <1>e DEF SessionKnows, Evidence, Approved, Rejected, dbVars, worldVars
<1>2. ASSUME NEW c \in BOOLEAN, ReadPatch(s, c) PROVE SessionKnows(s)'
  <2> DEFINE m == [Idle EXCEPT !.op = "patch", !.pc = "commit", !.seen = inquiry.status,
                               !.was = inquiry.complete, !.now = c]
  <2>1. m.op = "patch" /\ m.seen = inquiry.status
    BY DEF Idle
  <2>2. sess'[s] = m /\ UNCHANGED <<dbVars, worldVars>>
    BY <1>2 DEF ReadPatch, Start, TypeOK
  <2> HIDE DEF m
  <2> QED BY <2>1, <2>2, <1>1
<1>3. CASE ReadSchedules(s)
  <2> DEFINE m == [Idle EXCEPT !.op = "schedules", !.pc = "commit", !.seen = inquiry.status]
  <2>1. m.op = "schedules" /\ m.seen = inquiry.status
    BY DEF Idle
  <2>2. sess'[s] = m /\ UNCHANGED <<dbVars, worldVars>>
    BY <1>3 DEF ReadSchedules, Start, TypeOK
  <2> HIDE DEF m
  <2> QED BY <2>1, <2>2, <1>1
<1>4. CASE ReadRfq(s)
  <2> DEFINE m == [Idle EXCEPT !.op = "rfq", !.pc = "open", !.seen = inquiry.status]
  <2>1. m.op = "rfq" /\ m.pc = "open" /\ m.seen = inquiry.status
    BY DEF Idle
  <2>2. sess'[s] = m /\ UNCHANGED <<dbVars, worldVars>>
    BY <1>4 DEF ReadRfq, Start, TypeOK
  <2> HIDE DEF m
  <2> QED BY <2>1, <2>2, <1>1
<1>5. ASSUME NEW r \in Rfqs, OpenRfq(s, r) PROVE SessionKnows(s)'
  <2>1. sess'[s].op = "rfq" /\ sess'[s].pc = "effect" /\ sess'[s].seen = sess[s].seen
    BY <1>5, <1>m DEF OpenRfq, At, TypeOK, Memory, Fields
  <2>2. sess[s].seen \in InquiryStatus => Evidence(sess[s].seen)
    BY <1>f DEF SessionKnows
  <2> QED BY <2>1, <2>2, <1>g DEF SessionKnows, Evidence, Grows, Approved, Rejected
<1>6. CASE MailRfq(s)
  <2>1. sess'[s].op = "rfq" /\ sess'[s].pc = "commit" /\ sess'[s].seen = sess[s].seen
    BY <1>6, <1>m DEF MailRfq, At, Goto, TypeOK, Memory, Fields
  <2>2. sess[s].seen \in InquiryStatus => Evidence(sess[s].seen)
    BY <1>f DEF SessionKnows
  <2>3. rfqMailed' # {}
    BY <1>6 DEF MailRfq
  <2> QED BY <2>1, <2>2, <2>3, <1>g DEF SessionKnows, Evidence, Grows, Approved, Rejected
<1>7. ASSUME NEW r \in Rfqs, NEW p \in Suppliers, ReadAnswer(s, r, p) PROVE SessionKnows(s)'
  <2>1. sess'[s].op = "answer" /\ sess'[s].seen = "none"
    BY <1>7 DEF ReadAnswer, Start, TypeOK, Idle
  <2> QED BY <2>1, <1>st DEF SessionKnows
<1>8. ASSUME NEW r \in Rfqs, ReadOptimize(s, r) PROVE SessionKnows(s)'
  <2>1. sess'[s].op = "optimize" /\ sess'[s].seen = "none"
    BY <1>8 DEF ReadOptimize, Start, TypeOK, Idle
  <2> QED BY <2>1, <1>st DEF SessionKnows
<1>9. ASSUME NEW q \in Quotes, NEW a \in {"approve", "reject"}, ReadReview(s, q, a)
      PROVE  SessionKnows(s)'
  <2>1. sess'[s].op = "review" /\ sess'[s].seen = "none" /\ sess'[s].quote = q
    BY <1>9 DEF ReadReview, Start, TypeOK, Idle
  <2>2. quote'[q] # "absent"
    BY <1>9 DEF ReadReview, dbVars
  <2> QED BY <2>1, <2>2, <1>st DEF SessionKnows
<1>10. ASSUME NEW q \in Quotes, ReadSend(s, q) PROVE SessionKnows(s)'
  <2>1. /\ sess'[s].op = "send" /\ sess'[s].pc = "effect"
        /\ sess'[s].seen = inquiry.status /\ sess'[s].quote = q
    BY <1>10 DEF ReadSend, Start, TypeOK, Idle
  <2>2. Approved(q)
    BY <1>10, <1>f DEF ReadSend, QuoteHistory
  <2> QED BY <2>1, <2>2, <1>e, <1>g DEF SessionKnows, Evidence, Grows, Approved, Rejected
<1>11. CASE MailQuote(s)
  <2>1. /\ sess'[s].op = "send" /\ sess'[s].pc = "commit"
        /\ sess'[s].seen = sess[s].seen /\ sess'[s].quote = sess[s].quote
    BY <1>11, <1>m DEF MailQuote, At, Goto, TypeOK, Memory, Fields
  <2>2. /\ sess[s].seen \in InquiryStatus => Evidence(sess[s].seen)
        /\ Approved(sess[s].quote)
    BY <1>11, <1>f DEF SessionKnows, MailQuote, At
  <2>3. sess[s].quote \in Quotes
    BY <1>11, <1>m DEF MailQuote, At, Memory, Knows
  <2>4. mailed'[sess[s].quote] > 0
    BY <2>3, <1>11 DEF MailQuote, TypeOK, DBTypeOK
  <2> QED BY <2>1, <2>2, <2>4, <1>g DEF SessionKnows, Evidence, Grows, Approved, Rejected
<1>12. ASSUME NEW q \in Quotes, ReadBook(s, q) PROVE SessionKnows(s)'
  <2>1. sess'[s].op = "book" /\ sess'[s].pc = "effect" /\ sess'[s].seen = "none" /\ sess'[s].quote = q
    BY <1>12 DEF ReadBook, Start, TypeOK, Idle
  <2>2. mailed'[q] > 0
    BY <1>12, <1>f DEF ReadBook, QuoteHistory, worldVars
  <2> QED BY <2>1, <2>2, <1>st DEF SessionKnows
<1>13. CASE OrderSpace(s)
  <2>1. /\ sess'[s].op = "book" /\ sess'[s].pc = "load"
        /\ sess'[s].seen = sess[s].seen /\ sess'[s].quote = sess[s].quote
    BY <1>13, <1>m DEF OrderSpace, At, Goto, TypeOK, Memory, Fields
  <2>2. /\ sess[s].seen \in InquiryStatus => Evidence(sess[s].seen)
        /\ mailed[sess[s].quote] > 0
    BY <1>13, <1>f DEF SessionKnows, OrderSpace, At
  <2>3. sess[s].quote \in Quotes
    BY <1>13, <1>m DEF OrderSpace, At, Memory, Knows
  <2>4. ordered'[sess[s].quote] > 0
    BY <2>3, <1>13 DEF OrderSpace, TypeOK, DBTypeOK
  <2> QED BY <2>1, <2>2, <2>3, <2>4, <1>g DEF SessionKnows, Evidence, Grows, Approved, Rejected
<1>14. CASE LoadInquiry(s)
  <2>1. /\ sess'[s].op = sess[s].op /\ sess'[s].pc = "commit"
        /\ sess'[s].seen = inquiry.status /\ sess'[s].quote = sess[s].quote
    BY <1>14, <1>m DEF LoadInquiry, TypeOK, Memory, Fields
  <2>2. sess[s].op \in {"optimize", "review", "book"} /\ sess[s].pc = "load"
    BY <1>14, <1>m DEF LoadInquiry, Memory, Knows
  <2>3. UNCHANGED <<dbVars, worldVars>>
    BY <1>14 DEF LoadInquiry
  <2> QED BY <2>1, <2>2, <2>3, <1>e, <1>f
          DEF SessionKnows, Evidence, Approved, Rejected, dbVars, worldVars
<1>15. CASE Finish(s)
  BY <1>15, IdleKnows
<1> QED
  BY <1>2, <1>3, <1>4, <1>5, <1>6, <1>7, <1>8, <1>9, <1>10, <1>11, <1>12, <1>13, <1>14, <1>15
     DEF Step, Editing, Searching, Requesting, Answering, Pricing, Reviewing, Sending, Booking,
         CommitPatch, CommitSchedules, CommitRfq, CommitAnswer, CommitOptimize, CommitReview,
         CommitSend, CommitBook, Refuse, Fail

\* A step of one session leaves the memories of the others alone.
LEMMA OthersRest ==
    ASSUME TypeOK, NEW s \in Sessions, Step(s), NEW t \in Sessions, t # s
    PROVE  sess'[t] = sess[t]
<1>1. \/ \E m : sess' = [sess EXCEPT ![s] = m]
      \/ \E r \in Rfqs : OpenRfq(s, r)
      \/ LoadInquiry(s)
      \/ \E pc : sess' = [sess EXCEPT ![s].pc = pc]
  BY DEF Step, Editing, Searching, Requesting, Answering, Pricing, Reviewing, Sending, Booking,
         ReadPatch, CommitPatch, ReadSchedules, CommitSchedules, ReadRfq, MailRfq,
         CommitRfq, ReadAnswer, CommitAnswer, ReadOptimize, CommitOptimize, ReadReview,
         CommitReview, ReadSend, MailQuote, CommitSend, ReadBook, OrderSpace, CommitBook,
         Refuse, Fail, Start, Goto, Finish
<1> QED
  BY <1>1 DEF TypeOK, OpenRfq, LoadInquiry

LEMMA FactsStep ==
    ASSUME TypeOK, FactsOnly, NEW s \in Sessions, Step(s)
    PROVE  FactsOnly'
<1>1. ASSUME NEW t \in Sessions PROVE SessionKnows(t)'
  <2>1. CASE t = s
    BY <2>1, KnowledgeStep
  <2>2. CASE t # s
    <3>1. SessionKnows(t) /\ sess[t] \in Memory /\ sess'[t] = sess[t] /\ Grows
      BY <2>2, OthersRest, StepGrows DEF FactsOnly, TypeOK
    <3> QED BY <3>1, KnowledgeStays
  <2> QED BY <2>1, <2>2
<1>2. ASSUME NEW q \in Quotes PROVE QuoteHistory(q)'
  BY HistoryStep
<1>3. StatusHasEvidence'
  BY StatusStep
<1> QED
  BY <1>1, <1>2, <1>3 DEF FactsOnly

LEMMA InitFacts == Init => FactsOnly
<1> SUFFICES ASSUME Init PROVE FactsOnly
  OBVIOUS
<1>1. StatusHasEvidence
  BY DEF Init, DBInit, StatusHasEvidence, Evidence, DerivedInquiryStatus
<1>2. ASSUME NEW q \in Quotes PROVE QuoteHistory(q)
  BY DEF Init, DBInit, QuoteHistory, Approved, Rejected
<1>3. ASSUME NEW s \in Sessions PROVE SessionKnows(s)
  BY DEF Init, SessionKnows, Idle, InquiryStatus
<1> QED
  BY <1>1, <1>2, <1>3 DEF FactsOnly

\* The facts a handler relies on between its steps survive every interleaving,
\* failure and retry of any number of other handlers.
THEOREM FactsSurvive == Spec => []FactsOnly
<1>1. TypeOK /\ FactsOnly /\ [Next]_vars => FactsOnly'
  <2> SUFFICES ASSUME TypeOK, FactsOnly, [Next]_vars PROVE FactsOnly'
    OBVIOUS
  <2>1. ASSUME NEW s \in Sessions, Step(s) PROVE FactsOnly'
    BY <2>1, FactsStep
  <2>2. CASE UNCHANGED vars
    BY <2>2 DEF vars, FactsOnly, StatusHasEvidence, QuoteHistory, SessionKnows, Evidence,
                Approved, Rejected
  <2> QED BY <2>1, <2>2 DEF Next, Step
<1> QED
  BY <1>1, InitFacts, TypeCorrect, PTL DEF Spec

\* The status of an inquiry is backed by rows and effects however stale the
\* status it was moved from.
THEOREM StatusBacked == Spec => []StatusHasEvidence
<1>1. FactsOnly => StatusHasEvidence
  BY DEF FactsOnly
<1> QED
  BY <1>1, FactsSurvive, PTL

-----------------------------------------------------------------------------
(* The human gate *)

\* One step of one session is a step of the gate or invisible to it.
LEMMA GateStep ==
    ASSUME TypeOK, FactsOnly, NEW s \in Sessions, Step(s)
    PROVE  [Gate!Next]_(Gate!gateVars)
<1>t. mailed \in [Quotes -> Nat] /\ ordered \in [Quotes -> Nat]
  BY DEF TypeOK, DBTypeOK
<1>f. SessionKnows(s) /\ \A q \in Quotes : QuoteHistory(q)
  BY DEF FactsOnly
<1>m. sess[s] \in Memory
  BY DEF TypeOK
<1> USE DEF Gate!gateVars
<1>1. CASE CommitReview(s)
  <2>1. sess[s].quote \in Quotes /\ UNCHANGED <<mailed, ordered>>
    BY <1>1, <1>m DEF CommitReview, MayCommit, At, Memory, Knows, worldVars
  <2>2. CASE sess[s].action = "approve"
    <3>1. {q \in Quotes : Approved(q)'} = {q \in Quotes : Approved(q)} \cup {sess[s].quote}
      BY <2>1, <2>2, <1>1 DEF CommitReview, RecordVerdict, Approved
    <3>2. Gate!Approve(sess[s].quote)
      BY <3>1, <2>1 DEF Gate!Approve
    <3> QED BY <3>2, <2>1 DEF Gate!Next
  <2>3. CASE sess[s].action # "approve"
    <3>1. {q \in Quotes : Approved(q)'} = {q \in Quotes : Approved(q)}
      BY <2>1, <2>3, <1>1 DEF CommitReview, RecordVerdict, Approved
    <3> QED BY <3>1, <2>1
  <2> QED BY <2>2, <2>3
<1>2. CASE MailQuote(s)
  <2>1. sess[s].quote \in Quotes /\ Approved(sess[s].quote)
    BY <1>2, <1>m, <1>f DEF MailQuote, At, Memory, Knows, SessionKnows
  <2>2. UNCHANGED <<approvals, ordered>>
    BY <1>2 DEF MailQuote, dbVars
  <2>3. \A q \in Quotes : mailed'[q] > 0 <=> mailed[q] > 0 \/ q = sess[s].quote
    BY <1>2, <2>1, <1>t DEF MailQuote
  <2>4. {q \in Quotes : mailed'[q] > 0} = {q \in Quotes : mailed[q] > 0} \cup {sess[s].quote}
    BY <2>1, <2>3
  <2>5. Gate!Mail(sess[s].quote)
    BY <2>1, <2>2, <2>4 DEF Gate!Mail, Approved
  <2>6. Gate!Next
    BY <2>1, <2>5 DEF Gate!Next, Gate!Mail, Gate!Order, Gate!Approve
  <2> QED BY <2>6
<1>3. CASE OrderSpace(s)
  <2>1. sess[s].quote \in Quotes /\ mailed[sess[s].quote] > 0
    BY <1>3, <1>m, <1>f DEF OrderSpace, At, Memory, Knows, SessionKnows
  <2>2. UNCHANGED <<approvals, mailed>>
    BY <1>3 DEF OrderSpace, dbVars
  <2>3. \A q \in Quotes : ordered'[q] > 0 <=> ordered[q] > 0 \/ q = sess[s].quote
    BY <1>3, <2>1, <1>t DEF OrderSpace
  <2>4. {q \in Quotes : ordered'[q] > 0} = {q \in Quotes : ordered[q] > 0} \cup {sess[s].quote}
    BY <2>1, <2>3
  <2>5. Gate!Order(sess[s].quote)
    BY <2>1, <2>2, <2>4 DEF Gate!Order, Approved
  <2>6. Gate!Next
    BY <2>1, <2>5 DEF Gate!Next, Gate!Mail, Gate!Order, Gate!Approve
  <2> QED BY <2>6
<1>4. CASE UNCHANGED <<approvals, mailed, ordered>>
  BY <1>4 DEF Approved
<1> QED
  BY <1>1, <1>2, <1>3, <1>4
     DEF Step, Editing, Searching, Requesting, Answering, Pricing, Reviewing, Sending, Booking,
         ReadPatch, CommitPatch, ReadSchedules, CommitSchedules, ReadRfq, OpenRfq, MailRfq,
         CommitRfq, ReadAnswer, CommitAnswer, ReadOptimize, CommitOptimize, ReadReview,
         ReadSend, CommitSend, ReadBook, CommitBook, LoadInquiry, Refuse, Fail, dbVars, worldVars

\* The services implement the human gate: no quotation leaves before that
\* quotation was approved, no space is ordered before it was sent, for any
\* number of concurrent requests.
THEOREM GateHolds == Spec => Gated
<1>1. Init => Gate!Init
  BY DEF Init, DBInit, Gate!Init, Approved
<1>2. TypeOK /\ FactsOnly /\ [Next]_vars => [Gate!Next]_(Gate!gateVars)
  <2> SUFFICES ASSUME TypeOK, FactsOnly, [Next]_vars PROVE [Gate!Next]_(Gate!gateVars)
    OBVIOUS
  <2>1. ASSUME NEW s \in Sessions, Step(s) PROVE [Gate!Next]_(Gate!gateVars)
    BY <2>1, GateStep
  <2>2. CASE UNCHANGED vars
    BY <2>2 DEF vars, Gate!gateVars, Approved
  <2> QED BY <2>1, <2>2 DEF Next, Step
<1> QED
  BY <1>1, <1>2, TypeCorrect, FactsSurvive, PTL DEF Spec, Gated, Gate!Spec

LEMMA VerdictStep ==
    ASSUME TypeOK, FactsOnly, NEW s \in Sessions, Step(s), NEW q \in Quotes
    PROVE  /\ quote[q] = "waiting_approval" => quote'[q] # "sent"
           /\ quote'[q] = "waiting_approval" => quote[q] \in {"absent", "waiting_approval"}
<1>t. quote \in [Quotes -> QuoteStatus]
  BY DEF TypeOK, DBTypeOK
<1>1. ASSUME NEW x \in Quotes, CommitOptimize(s, x)
      PROVE  quote[x] = "absent" /\ quote' = [quote EXCEPT ![x] = "waiting_approval"]
  BY <1>1 DEF CommitOptimize, NextQuote, SetQuote
<1>2. ASSUME CommitReview(s)
      PROVE  quote'[q] \in {quote[q], "approved", "rejected"}
  BY <1>2, <1>t DEF CommitReview, SetQuote
<1>3. ASSUME CommitSend(s)
      PROVE  /\ quote' = [quote EXCEPT ![sess[s].quote] = "sent"]
             /\ sess[s].quote = q => quote[q] # "waiting_approval"
  <2>1. Approved(sess[s].quote)
    BY <1>3 DEF FactsOnly, SessionKnows, CommitSend, MayCommit, At
  <2> QED BY <1>3, <2>1 DEF FactsOnly, QuoteHistory, CommitSend, SetQuote
<1>4. CASE UNCHANGED quote
  BY <1>4
<1>5. CASE CommitSend(s)
  BY <1>3, <1>5, <1>t
<1>6. ASSUME NEW x \in Quotes, CommitOptimize(s, x)
      PROVE  quote'[q] = "waiting_approval" \/ quote'[q] = quote[q]
  BY <1>1, <1>6, <1>t
<1>7. ASSUME NEW x \in Quotes, CommitOptimize(s, x), quote'[q] = "waiting_approval"
      PROVE  quote[q] \in {"absent", "waiting_approval"}
  BY <1>1, <1>7, <1>t
<1> QED
  BY <1>2, <1>4, <1>5, <1>6, <1>7
     DEF Step, Editing, Searching, Requesting, Answering, Pricing, Reviewing, Sending, Booking,
         ReadPatch, CommitPatch, ReadSchedules, CommitSchedules, ReadRfq, OpenRfq, MailRfq,
         CommitRfq, ReadAnswer, CommitAnswer, ReadOptimize, ReadReview, MailQuote,
         ReadSend, ReadBook, OrderSpace, CommitBook, LoadInquiry, Refuse, Fail, dbVars, worldVars

\* A quote leaves waiting_approval through a verdict only, and never returns,
\* although send_quote decides on a status it read before the e-mail left.
THEOREM VerdictFirst == Spec => VerdictBeforeSent
<1> DEFINE Act == \A q \in Quotes :
             /\ quote[q] = "waiting_approval" => quote'[q] # "sent"
             /\ quote'[q] = "waiting_approval" => quote[q] \in {"absent", "waiting_approval"}
<1>1. TypeOK /\ FactsOnly /\ [Next]_vars => [Act]_quote
  <2> SUFFICES ASSUME TypeOK, FactsOnly, [Next]_vars, quote' # quote PROVE Act
    OBVIOUS
  <2>1. PICK s \in Sessions : Step(s)
    BY DEF Next, Step, vars
  <2> QED BY <2>1, VerdictStep
<1> QED
  BY <1>1, TypeCorrect, FactsSurvive, PTL DEF Spec, VerdictBeforeSent

-----------------------------------------------------------------------------
(* Orders and the bookings they are for *)

\* Sessions that have ordered and not yet stored the booking.
Placed(q) == {s \in Sessions : /\ sess[s].op = "book" /\ sess[s].pc \in {"load", "commit"}
                               /\ sess[s].quote = q}

\* Every booking, and every one that is about to be stored, has an order of its
\* own; a session that fails leaves an order without either.
OrdersPlaced == \A q \in Quotes : bookings[q] + Cardinality(Placed(q)) <= ordered[q]

LEMMA SessionsCount == \A S \in SUBSET Sessions : IsFiniteSet(S) /\ Cardinality(S) \in Nat
  BY EffectBounds, FS_Subset, FS_CardinalityType

\* The first actions of the handlers.
Reading(s) ==
    \/ \E c \in BOOLEAN : ReadPatch(s, c)
    \/ ReadSchedules(s) \/ ReadRfq(s)
    \/ \E r \in Rfqs, p \in Suppliers : ReadAnswer(s, r, p)
    \/ \E r \in Rfqs : ReadOptimize(s, r)
    \/ \E q \in Quotes, a \in {"approve", "reject"} : ReadReview(s, q, a)
    \/ \E q \in Quotes : ReadSend(s, q) \/ ReadBook(s, q)

\* What a handler has just read is what the rows say.
Fresh(s) ==
    LET m == sess[s] IN
    /\ m.seen # "none" => m.seen = inquiry.status
    /\ m.op = "patch" => m.was = inquiry.complete
    /\ m.op = "review" => quote[m.quote] = "waiting_approval"
    /\ m.op = "send" => quote[m.quote] = "approved"
    /\ m.op = "book" => quote[m.quote] = "sent" /\ bookings[m.quote] = 0
    /\ m.op = "answer" => m.received = rfq[m.rfq].received /\ rfq[m.rfq].status # "absent"

LEMMA ReadingStarts ==
    ASSUME TypeOK, NEW s \in Sessions, Reading(s)
    PROVE  /\ IsIdle(s) /\ UNCHANGED <<dbVars, worldVars>>
           /\ sess'[s].op = "book" => sess'[s].pc = "effect"
           /\ Fresh(s)'
<1>1. IsIdle(s) /\ UNCHANGED <<dbVars, worldVars>>
  BY DEF Reading, ReadPatch, ReadSchedules, ReadRfq, ReadAnswer, ReadOptimize, ReadReview, ReadSend, ReadBook, Start
<1> USE DEF Start, TypeOK, Idle
<1>2. ASSUME NEW c \in BOOLEAN, ReadPatch(s, c) PROVE (sess'[s].op = "book" => sess'[s].pc = "effect") /\ Fresh(s)'
  <2>1. sess'[s].op = "patch" /\ sess'[s].seen = inquiry.status /\ sess'[s].was = inquiry.complete
    BY <1>2 DEF ReadPatch
  <2> QED BY <2>1, <1>1 DEF Fresh, dbVars
<1>3. CASE ReadSchedules(s)
  <2>1. sess'[s].op = "schedules" /\ sess'[s].seen = inquiry.status
    BY <1>3 DEF ReadSchedules
  <2> QED BY <2>1, <1>1 DEF Fresh, dbVars
<1>4. CASE ReadRfq(s)
  <2>1. sess'[s].op = "rfq" /\ sess'[s].seen = inquiry.status
    BY <1>4 DEF ReadRfq
  <2> QED BY <2>1, <1>1 DEF Fresh, dbVars
<1>5. ASSUME NEW r \in Rfqs, NEW p \in Suppliers, ReadAnswer(s, r, p)
      PROVE  (sess'[s].op = "book" => sess'[s].pc = "effect") /\ Fresh(s)'
  <2>1. sess'[s].op = "answer" /\ sess'[s].rfq = r /\ sess'[s].seen = "none" /\ sess'[s].received = rfq[r].received
        /\ rfq[r].status # "absent"
    BY <1>5 DEF ReadAnswer
  <2> QED BY <2>1, <1>1 DEF Fresh, dbVars
<1>6. ASSUME NEW r \in Rfqs, ReadOptimize(s, r) PROVE (sess'[s].op = "book" => sess'[s].pc = "effect") /\ Fresh(s)'
  <2>1. sess'[s].op = "optimize" /\ sess'[s].seen = "none"
    BY <1>6 DEF ReadOptimize
  <2> QED BY <2>1, <1>1 DEF Fresh, dbVars
<1>7. ASSUME NEW q \in Quotes, NEW a \in {"approve", "reject"}, ReadReview(s, q, a)
      PROVE  (sess'[s].op = "book" => sess'[s].pc = "effect") /\ Fresh(s)'
  <2>1. sess'[s].op = "review" /\ sess'[s].quote = q /\ sess'[s].seen = "none" /\ quote[q] = "waiting_approval"
    BY <1>7 DEF ReadReview
  <2> QED BY <2>1, <1>1 DEF Fresh, dbVars
<1>8. ASSUME NEW q \in Quotes, ReadSend(s, q) PROVE (sess'[s].op = "book" => sess'[s].pc = "effect") /\ Fresh(s)'
  <2>1. sess'[s].op = "send" /\ sess'[s].quote = q /\ sess'[s].seen = inquiry.status /\ quote[q] = "approved"
    BY <1>8 DEF ReadSend
  <2> QED BY <2>1, <1>1 DEF Fresh, dbVars
<1>9. ASSUME NEW q \in Quotes, ReadBook(s, q) PROVE (sess'[s].op = "book" => sess'[s].pc = "effect") /\ Fresh(s)'
  <2>1. /\ sess'[s].op = "book" /\ sess'[s].pc = "effect" /\ sess'[s].quote = q /\ sess'[s].seen = "none"
        /\ quote[q] = "sent" /\ bookings[q] = 0
    BY <1>9 DEF ReadBook
  <2> QED BY <2>1, <1>1 DEF Fresh, dbVars
<1> QED
  BY <1>1, <1>2, <1>3, <1>4, <1>5, <1>6, <1>7, <1>8, <1>9 DEF Reading

LEMMA OrdersStep ==
    ASSUME TypeOK, TypeOK', OrdersPlaced, NEW s \in Sessions, Step(s)
    PROVE  OrdersPlaced'
<1>t. /\ ordered \in [Quotes -> Nat] /\ bookings \in [Quotes -> Nat]
      /\ sess \in [Sessions -> Memory] /\ sess[s] \in Memory
  BY DEF TypeOK, DBTypeOK
<1>o. \A t \in Sessions \ {s} : sess'[t] = sess[t]
  BY OthersRest
<1>c. \A q \in Quotes : /\ Placed(q) \in SUBSET Sessions /\ Placed(q)' \in SUBSET Sessions
                        /\ IsFiniteSet(Placed(q)) /\ IsFiniteSet(Placed(q)')
                        /\ Cardinality(Placed(q)) \in Nat /\ Cardinality(Placed(q)') \in Nat
                        /\ ordered[q] \in Nat /\ bookings[q] \in Nat
                        /\ bookings[q] + Cardinality(Placed(q)) <= ordered[q]
  <2>1. \A q \in Quotes : Placed(q) \in SUBSET Sessions /\ Placed(q)' \in SUBSET Sessions
    BY DEF Placed
  <2> QED BY <1>t, <2>1, SessionsCount DEF OrdersPlaced
\* A session that is done, one way or the other, is party to no order.
<1>f. ASSUME Finish(s)
      PROVE  \A q \in Quotes : Placed(q)' = Placed(q) \ {s}
  <2>1. sess'[s].op = "none"
    BY <1>f, <1>t DEF Finish, Idle
  <2> QED BY <1>o, <2>1 DEF Placed
<1>1. CASE OrderSpace(s)
  <2>1. PICK q \in Quotes : q = sess[s].quote
    BY <1>1, <1>t DEF OrderSpace, At, Memory, Knows
  <2>2. /\ ordered' = [ordered EXCEPT ![q] = @ + 1] /\ bookings' = bookings
        /\ sess[s].pc = "effect" /\ sess'[s].op = "book" /\ sess'[s].pc = "load" /\ sess'[s].quote = q
    BY <1>1, <1>t, <2>1 DEF OrderSpace, At, Goto, Memory, Fields, dbVars
  <2>3. Placed(q)' = Placed(q) \cup {s} /\ s \notin Placed(q)
        /\ \A p \in Quotes \ {q} : Placed(p)' = Placed(p)
    BY <1>o, <2>2 DEF Placed
  <2>4. Cardinality(Placed(q)') = Cardinality(Placed(q)) + 1
    BY <1>c, <2>3, FS_AddElement
  <2>5. ordered'[q] = ordered[q] + 1 /\ \A p \in Quotes \ {q} : ordered'[p] = ordered[p]
    BY <1>t, <2>2
  <2>6. bookings'[q] + Cardinality(Placed(q)') <= ordered'[q]
    BY <1>c, <2>2, <2>4, <2>5
  <2> QED BY <1>c, <2>2, <2>3, <2>5, <2>6 DEF OrdersPlaced
<1>2. CASE CommitBook(s)
  <2>1. PICK q \in Quotes : q = sess[s].quote
    BY <1>2, <1>t DEF CommitBook, MayCommit, At, Memory, Knows
  <2>2. bookings' = [bookings EXCEPT ![q] = @ + 1] /\ ordered' = ordered /\ Finish(s) /\ s \in Placed(q)
    BY <1>2, <2>1 DEF CommitBook, MayCommit, At, InsertBooking, Placed, worldVars
  <2>3. Cardinality(Placed(q)') = Cardinality(Placed(q)) - 1
    BY <1>c, <1>f, <2>2, FS_RemoveElement
  <2>4. \A p \in Quotes \ {q} : Placed(p)' = Placed(p)
    <3>1. \A p \in Quotes \ {q} : s \notin Placed(p)
      BY <2>1 DEF Placed
    <3> QED BY <1>f, <2>2, <3>1
  <2>5. bookings'[q] = bookings[q] + 1 /\ \A p \in Quotes \ {q} : bookings'[p] = bookings[p]
    BY <1>t, <2>2
  <2>6. bookings'[q] + Cardinality(Placed(q)') <= ordered'[q]
    BY <1>c, <2>2, <2>3, <2>5
  <2> QED BY <1>c, <2>2, <2>4, <2>5, <2>6 DEF OrdersPlaced
<1>3. CASE ~OrderSpace(s) /\ ~CommitBook(s)
  <2>1. UNCHANGED <<bookings, ordered>>
    BY <1>3 DEF Step, Editing, Searching, Requesting, Answering, Pricing, Reviewing, Sending, Booking,
                ReadPatch, CommitPatch, ReadSchedules, CommitSchedules, ReadRfq, OpenRfq, MailRfq,
                CommitRfq, ReadAnswer, CommitAnswer, ReadOptimize, CommitOptimize, ReadReview, CommitReview,
                MailQuote, ReadSend, CommitSend, ReadBook, LoadInquiry, Refuse, Fail, dbVars, worldVars
  <2>2. \/ Finish(s)
        \/ \A q \in Quotes : s \in Placed(q)' <=> s \in Placed(q)
    <3>1. \/ Finish(s) \/ LoadInquiry(s) \/ MailRfq(s) \/ MailQuote(s) \/ \E r \in Rfqs : OpenRfq(s, r)
          \/ Reading(s)
      BY <1>3 DEF Step, Editing, Searching, Requesting, Answering, Pricing, Reviewing, Sending, Booking,
                  CommitPatch, CommitSchedules, CommitRfq, CommitAnswer, CommitOptimize, CommitReview,
                  CommitSend, Refuse, Fail, Reading
    <3>2. CASE LoadInquiry(s)
      <4>1. sess'[s].op = sess[s].op /\ sess'[s].quote = sess[s].quote
            /\ sess[s].pc = "load" /\ sess'[s].pc = "commit"
        BY <3>2, <1>t DEF LoadInquiry, Memory, Fields
      <4> QED BY <4>1 DEF Placed
    <3>3. CASE MailRfq(s) \/ MailQuote(s) \/ \E r \in Rfqs : OpenRfq(s, r)
      <4>1. sess'[s].op = sess[s].op /\ sess[s].op # "book"
        BY <3>3, <1>t DEF MailRfq, MailQuote, OpenRfq, At, Goto, Memory, Fields
      <4> QED BY <4>1 DEF Placed
    <3>4. CASE Reading(s)
      BY <3>4, <1>t, ReadingStarts DEF IsIdle, Placed
    <3> QED BY <3>1, <3>2, <3>3, <3>4
  <2>3. ASSUME NEW q \in Quotes PROVE Cardinality(Placed(q)') <= Cardinality(Placed(q))
    <3>1. CASE Finish(s)
      BY <1>c, <1>f, <3>1, FS_Subset
    <3>2. CASE s \in Placed(q)' <=> s \in Placed(q)
      <4>1. Placed(q)' = Placed(q)
        BY <1>o, <3>2 DEF Placed
      <4> QED BY <1>c, <4>1
    <3> QED BY <2>2, <3>1, <3>2
  <2> QED BY <1>c, <2>1, <2>3 DEF OrdersPlaced
<1> QED BY <1>1, <1>2, <1>3

\* create_booking stores a booking only for space that was ordered for it,
\* however many sessions book the same quotation and wherever they fail.
THEOREM BookingsAreOrdered == Spec => []BookingsAreOrders
<1>1. Init => OrdersPlaced
  <2> SUFFICES ASSUME Init, NEW q \in Quotes PROVE bookings[q] + Cardinality(Placed(q)) <= ordered[q]
    BY DEF OrdersPlaced
  <2>1. Placed(q) = {} /\ bookings[q] = 0 /\ ordered[q] = 0
    BY DEF Init, DBInit, Idle, Placed
  <2> QED BY <2>1, FS_EmptySet
<1>2. TypeOK /\ TypeOK' /\ OrdersPlaced /\ [Next]_vars => OrdersPlaced'
  <2> SUFFICES ASSUME TypeOK, TypeOK', OrdersPlaced, [Next]_vars PROVE OrdersPlaced'
    OBVIOUS
  <2>1. CASE UNCHANGED vars
    BY <2>1 DEF vars, OrdersPlaced, Placed
  <2> QED BY <2>1, OrdersStep DEF Next, Step
<1>3. TypeOK /\ OrdersPlaced => BookingsAreOrders
  <2> SUFFICES ASSUME TypeOK, OrdersPlaced, NEW q \in Quotes PROVE bookings[q] <= ordered[q]
    BY DEF BookingsAreOrders
  <2>1. Cardinality(Placed(q)) \in Nat
    BY SessionsCount DEF Placed
  <2> QED BY <2>1 DEF TypeOK, DBTypeOK, OrdersPlaced
<1> QED BY <1>1, <1>2, <1>3, TypeCorrect, PTL DEF Spec

-----------------------------------------------------------------------------
(* Answers and the count of them *)

\* A session that is recording an answer has not read more of them than arrived.
HasRead(s) == sess[s].op = "answer" => sess[s].received <= Cardinality(RowsOf(sess[s].rfq))
CountsBacked == AnswersCounted /\ \A s \in Sessions : HasRead(s)

LEMMA RowsCount ==
    ASSUME NEW r
    PROVE  /\ RowsOf(r) \in SUBSET SupplierQuotes /\ IsFiniteSet(RowsOf(r)) /\ Cardinality(RowsOf(r)) \in Nat
           /\ RowsOf(r)' \in SUBSET SupplierQuotes /\ IsFiniteSet(RowsOf(r)') /\ Cardinality(RowsOf(r)') \in Nat
<1>1. RowsOf(r) \in SUBSET SupplierQuotes /\ RowsOf(r)' \in SUBSET SupplierQuotes
  BY DEF RowsOf
<1>2. IsFiniteSet(SupplierQuotes)
  BY RowBounds, FS_Interval DEF SupplierQuotes
<1> QED BY <1>1, <1>2, FS_Subset, FS_CardinalityType

\* A recorded answer is one more row of its RFQ and of no other.
LEMMA AnswerAdds ==
    ASSUME TypeOK, NEW s \in Sessions, NEW o \in SupplierQuotes, CommitAnswer(s, o)
    PROVE  /\ sess[s].rfq \in Rfqs /\ sess[s].supplier \in Suppliers
           /\ sess[s].received \in Nat
           /\ rfq' = [rfq EXCEPT ![sess[s].rfq] =
                         [status |-> IF sess[s].received + 1 >= Expected THEN "complete" ELSE @.status,
                          received |-> sess[s].received + 1]]
           /\ \A r \in Rfqs : /\ o \notin RowsOf(r)
                              /\ r = sess[s].rfq => RowsOf(r)' = RowsOf(r) \cup {o}
                              /\ r # sess[s].rfq => RowsOf(r)' = RowsOf(r)
<1>t. /\ supplierQuote \in [SupplierQuotes -> [rfq : Rfqs \cup {0}, from : Suppliers \cup {None}]]
      /\ sess[s] \in Memory
  BY DEF TypeOK, DBTypeOK
<1>1. sess[s].rfq \in Rfqs /\ sess[s].supplier \in Suppliers /\ sess[s].received \in Nat
  BY <1>t DEF CommitAnswer, At, Memory, Fields, Knows
<1>2. supplierQuote[o].rfq = 0 /\ 0 \notin Rfqs
  BY RowBounds DEF CommitAnswer, NextSupplierQuote, Rfqs
<1>3. /\ supplierQuote'[o].rfq = sess[s].rfq
      /\ \A n \in SupplierQuotes \ {o} : supplierQuote'[n] = supplierQuote[n]
  BY <1>t DEF CommitAnswer, InsertSupplierQuote
<1>4. ASSUME NEW r \in Rfqs
      PROVE  /\ o \notin RowsOf(r)
             /\ r = sess[s].rfq => RowsOf(r)' = RowsOf(r) \cup {o}
             /\ r # sess[s].rfq => RowsOf(r)' = RowsOf(r)
  BY <1>2, <1>3 DEF RowsOf
<1> QED BY <1>1, <1>4 DEF CommitAnswer, CountAnswer

\* Nothing but an answer touches the rows of the suppliers, nothing but an
\* answer or a new RFQ the counts.
LEMMA NoAnswer ==
    ASSUME TypeOK, NEW s \in Sessions, Step(s), ~\E o \in SupplierQuotes : CommitAnswer(s, o)
    PROVE  /\ supplierQuote' = supplierQuote
           /\ rfq' = rfq \/ \E r \in Rfqs : rfq[r].status = "absent" /\ InsertRfq(r)
<1>1. CASE \E r \in Rfqs : OpenRfq(s, r)
  BY <1>1 DEF OpenRfq, NextRfq
<1>2. CASE ~\E r \in Rfqs : OpenRfq(s, r)
  <2>1. supplierQuote' = supplierQuote /\ rfq' = rfq
    BY <1>2 DEF Step, Editing, Searching, Requesting, Answering, Pricing, Reviewing, Sending, Booking,
                ReadPatch, CommitPatch, ReadSchedules, CommitSchedules, ReadRfq, MailRfq,
                CommitRfq, ReadAnswer, ReadOptimize, CommitOptimize, ReadReview, CommitReview,
                MailQuote, ReadSend, CommitSend, ReadBook, OrderSpace, CommitBook,
                LoadInquiry, Refuse, Fail, dbVars, worldVars
  <2> QED BY <2>1
<1> QED BY <1>1, <1>2

\* A step takes a session to its end, into a handler, or further in the one
\* that it serves, where what it works on stays the same.
LEMMA SessionStep ==
    ASSUME TypeOK, NEW s \in Sessions, Step(s)
    PROVE  \/ sess'[s] = Idle
           \/ Reading(s)
           \/ /\ sess'[s].op = sess[s].op /\ sess'[s].quote = sess[s].quote
              /\ sess'[s].supplier = sess[s].supplier /\ sess'[s].action = sess[s].action
              /\ sess'[s].was = sess[s].was /\ sess'[s].now = sess[s].now
              /\ sess'[s].received = sess[s].received
              /\ sess'[s].seen \in {sess[s].seen, inquiry.status}
              /\ sess[s].op # "answer" /\ sess[s].op # "patch"
              /\ UNCHANGED <<inquiry, quote, approvals, bookings>>
<1>m. sess[s] \in Memory
  BY DEF TypeOK
<1>1. ASSUME Finish(s) PROVE sess'[s] = Idle
  BY <1>1 DEF Finish, TypeOK
<1>2. CASE LoadInquiry(s)
  BY <1>2, <1>m DEF LoadInquiry, Memory, Fields, Knows, TypeOK, dbVars
<1>3. CASE MailRfq(s) \/ MailQuote(s) \/ OrderSpace(s)
  BY <1>3, <1>m DEF MailRfq, MailQuote, OrderSpace, At, Goto, Memory, Fields, TypeOK, dbVars
<1>4. CASE \E r \in Rfqs : OpenRfq(s, r)
  BY <1>4, <1>m DEF OpenRfq, At, Memory, Fields, TypeOK
<1> QED
  BY <1>1, <1>2, <1>3, <1>4
     DEF Step, Editing, Searching, Requesting, Answering, Pricing, Reviewing, Sending, Booking,
         CommitPatch, CommitSchedules, CommitRfq, CommitAnswer, CommitOptimize, CommitReview,
         CommitSend, CommitBook, Refuse, Fail, Reading

LEMMA CountsStep ==
    ASSUME TypeOK, TypeOK', CountsBacked, NEW s \in Sessions, Step(s)
    PROVE  CountsBacked'
<1>t. /\ rfq \in [Rfqs -> [status : RfqStatus, received : Nat]]
      /\ sess \in [Sessions -> Memory] /\ sess' \in [Sessions -> Memory] /\ Expected \in Nat
  BY RowBounds DEF TypeOK, DBTypeOK
<1>c. \A r \in Rfqs : /\ rfq[r].received <= Cardinality(RowsOf(r)) /\ rfq[r].received \in Nat
                      /\ rfq[r].status = "complete" => Cardinality(RowsOf(r)) >= Expected
                      /\ Cardinality(RowsOf(r)) \in Nat /\ Cardinality(RowsOf(r)') \in Nat
  BY <1>t, RowsCount DEF CountsBacked, AnswersCounted
\* Rows are only added.
<1>g. \A r \in Rfqs : Cardinality(RowsOf(r)) <= Cardinality(RowsOf(r)')
  <2> SUFFICES ASSUME NEW r \in Rfqs PROVE Cardinality(RowsOf(r)) <= Cardinality(RowsOf(r)')
    OBVIOUS
  <2>1. RowsOf(r) \subseteq RowsOf(r)'
    <3>1. CASE \E o \in SupplierQuotes : CommitAnswer(s, o)
      BY <3>1, AnswerAdds
    <3>2. CASE ~\E o \in SupplierQuotes : CommitAnswer(s, o)
      BY <3>2, NoAnswer DEF RowsOf
    <3> QED BY <3>1, <3>2
  <2> QED BY <2>1, RowsCount, FS_Subset
<1>1. ASSUME NEW r \in Rfqs
      PROVE  /\ rfq'[r].received <= Cardinality(RowsOf(r)')
             /\ rfq'[r].status = "complete" => Cardinality(RowsOf(r)') >= Expected
  <2>1. ASSUME NEW o \in SupplierQuotes, CommitAnswer(s, o), r = sess[s].rfq
        PROVE  /\ rfq'[r].received <= Cardinality(RowsOf(r)')
               /\ rfq'[r].status = "complete" => Cardinality(RowsOf(r)') >= Expected
    <3>1. Cardinality(RowsOf(r)') = Cardinality(RowsOf(r)) + 1
      BY <2>1, AnswerAdds, RowsCount, FS_AddElement
    <3>2. sess[s].received <= Cardinality(RowsOf(r)) /\ sess[s].received \in Nat
      BY <2>1, AnswerAdds DEF CountsBacked, HasRead, CommitAnswer, At
    <3>4. rfq' = [rfq EXCEPT ![r] = [status |-> IF sess[s].received + 1 >= Expected THEN "complete" ELSE @.status,
                                     received |-> sess[s].received + 1]]
      BY <2>1, AnswerAdds
    <3>3. /\ rfq'[r].received = sess[s].received + 1
          /\ rfq'[r].status = IF sess[s].received + 1 >= Expected THEN "complete" ELSE rfq[r].status
      BY <3>4, <1>t
    <3> QED BY <3>1, <3>2, <3>3, <1>c, <1>t
  <2>2. ASSUME NEW o \in SupplierQuotes, CommitAnswer(s, o), r # sess[s].rfq
        PROVE  rfq'[r] = rfq[r]
    BY <2>2, <1>t, AnswerAdds
  <2>3. ASSUME ~\E o \in SupplierQuotes : CommitAnswer(s, o)
        PROVE  rfq'[r] = rfq[r] \/ rfq'[r] = [status |-> "open", received |-> 0]
    BY <2>3, <1>t, NoAnswer DEF InsertRfq
  <2>4. CASE rfq'[r] = rfq[r]
    BY <2>4, <1>c, <1>g, <1>t
  <2>5. CASE rfq'[r] = [status |-> "open", received |-> 0]
    BY <2>5, <1>c
  <2> QED BY <2>1, <2>2, <2>3, <2>4, <2>5
<1>2. ASSUME NEW t \in Sessions PROVE HasRead(t)'
  <2> SUFFICES ASSUME sess'[t].op = "answer" PROVE HasRead(t)'
    BY DEF HasRead
  <2>1. PICK r \in Rfqs : r = sess'[t].rfq
    BY <1>t DEF Memory, Knows
  <2>2. sess'[t].received <= Cardinality(RowsOf(r)')
    <3>1. CASE t # s
      <4>1. sess'[t] = sess[t] /\ sess[t].received \in Nat
        BY <3>1, OthersRest, <1>t DEF Memory, Fields
      <4>2. sess[t].received <= Cardinality(RowsOf(r))
        BY <4>1, <2>1 DEF CountsBacked, HasRead
      <4> QED BY <4>1, <4>2, <1>c, <1>g
    <3>2. CASE t = s
      <4>1. Reading(s)
        BY <3>2, SessionStep DEF Idle
      <4>2. UNCHANGED <<dbVars, worldVars>> /\ Fresh(s)'
        BY <4>1, ReadingStarts
      <4>3. sess'[s].received = rfq[r].received
        BY <2>1, <3>2, <4>2 DEF Fresh, dbVars
      <4> QED BY <3>2, <4>3, <1>c, <1>g
    <3> QED BY <3>1, <3>2
  <2> QED BY <2>1, <2>2 DEF HasRead, RowsOf
<1> QED BY <1>1, <1>2 DEF CountsBacked, AnswersCounted

\* add_supplier_quote may lose a count to a concurrent answer but never invents
\* one: an RFQ is complete only when that many rows arrived.
THEOREM CountsAreBacked == Spec => []AnswersCounted
<1>1. Init => CountsBacked
  <2> SUFFICES ASSUME Init PROVE CountsBacked
    OBVIOUS
  <2>1. ASSUME NEW r \in Rfqs PROVE rfq[r].received <= Cardinality(RowsOf(r)) /\ rfq[r].status # "complete"
    <3>1. Cardinality(RowsOf(r)) \in Nat
      BY RowsCount
    <3> QED BY <3>1 DEF Init, DBInit
  <2>2. \A s \in Sessions : sess[s].op # "answer"
    BY DEF Init, Idle
  <2> QED BY <2>1, <2>2 DEF CountsBacked, AnswersCounted, HasRead
<1>2. TypeOK /\ TypeOK' /\ CountsBacked /\ [Next]_vars => CountsBacked'
  <2> SUFFICES ASSUME TypeOK, TypeOK', CountsBacked, [Next]_vars PROVE CountsBacked'
    OBVIOUS
  <2>1. CASE UNCHANGED vars
    BY <2>1 DEF vars, CountsBacked, AnswersCounted, HasRead, RowsOf
  <2> QED BY <2>1, CountsStep DEF Next, Step
<1>3. CountsBacked => AnswersCounted
  BY DEF CountsBacked
<1> QED BY <1>1, <1>2, <1>3, TypeCorrect, PTL DEF Spec

-----------------------------------------------------------------------------
(* One request at a time.  The theorems of this part assume a single        *)
(* session: then nothing changes between what a handler reads and what it   *)
(* writes, which is what concurrent requests break.                         *)

AllFresh == \A s \in Sessions : Fresh(s)

LEMMA FreshStep ==
    ASSUME TypeOK, NEW s \in Sessions, Fresh(s), Step(s)
    PROVE  Fresh(s)'
<1>1. CASE sess'[s] = Idle
  BY <1>1 DEF Fresh, Idle
<1>2. CASE Reading(s)
  BY <1>2, ReadingStarts
<1>3. CASE /\ sess'[s].op = sess[s].op /\ sess'[s].quote = sess[s].quote
           /\ sess'[s].seen \in {sess[s].seen, inquiry.status}
           /\ sess[s].op # "answer" /\ sess[s].op # "patch"
           /\ UNCHANGED <<inquiry, quote, approvals, bookings>>
  BY <1>3 DEF Fresh
<1> QED BY <1>1, <1>2, <1>3, SessionStep

LEMMA FreshForever ==
    ASSUME \A s, t \in Sessions : s = t
    PROVE  Spec => []AllFresh
<1>1. Init => AllFresh
  BY DEF Init, AllFresh, Fresh, Idle
<1>2. TypeOK /\ AllFresh /\ [Next]_vars => AllFresh'
  <2> SUFFICES ASSUME TypeOK, AllFresh, [Next]_vars PROVE AllFresh'
    OBVIOUS
  <2>1. CASE UNCHANGED vars
    BY <2>1 DEF vars, AllFresh, Fresh
  <2>2. ASSUME NEW s \in Sessions, Step(s) PROVE AllFresh'
    BY <2>2, FreshStep DEF AllFresh
  <2> QED BY <2>1, <2>2 DEF Next, Step
<1> QED BY <1>1, <1>2, TypeCorrect, PTL DEF Spec

\* A commit moves the inquiry from the status that it has.
LEMMA MovesFromHere ==
    ASSUME TypeOK, NEW s \in Sessions, Fresh(s), NEW op \in Advancing, MayCommit(s, op), MoveInquiry(s)
    PROVE  /\ inquiry'.status = Target(sess[s]) /\ Target(sess[s]) \in InquiryStatus
           /\ CanTransition(inquiry.status, Target(sess[s]))
<1>1. sess[s] \in Memory /\ inquiry \in [status : InquiryStatus, complete : BOOLEAN]
  BY DEF TypeOK, DBTypeOK
<1>2. sess[s].op = op /\ sess[s].pc = "commit"
  BY DEF MayCommit, At
<1>3. Target(sess[s]) \in InquiryStatus
  BY <1>1, <1>2, TargetInStatus
<1>4. sess[s].seen \in InquiryStatus /\ "none" \notin InquiryStatus
  BY <1>1, <1>2 DEF Memory, Knows, InquiryStatus
<1>5. sess[s].seen = inquiry.status
  BY <1>4 DEF Fresh
<1>6. inquiry'.status = Target(sess[s])
  <2>1. CASE sess[s].seen = Target(sess[s])
    BY <2>1, <1>5 DEF MoveInquiry, Advanced
  <2>2. CASE sess[s].seen # Target(sess[s])
    BY <2>2, <1>1 DEF MoveInquiry, Advanced
  <2> QED BY <2>1, <2>2
<1> QED BY <1>3, <1>5, <1>6 DEF MayCommit

\* An edit moves the inquiry within the statuses of its content only.
LEMMA EditsStayHere ==
    ASSUME TypeOK, NEW s \in Sessions, Fresh(s), CommitPatch(s)
    PROVE  \/ inquiry'.status = inquiry.status
           \/ inquiry.status \in CONTENT_EDITABLE /\ inquiry'.status \in CONTENT_EDITABLE
<1>1. sess[s] \in Memory /\ sess[s].op = "patch"
  BY DEF TypeOK, CommitPatch, At
<1>2. sess[s].seen = inquiry.status
  <2>1. sess[s].seen \in InquiryStatus /\ "none" \notin InquiryStatus
    BY <1>1 DEF Memory, Knows, InquiryStatus
  <2> QED BY <2>1 DEF Fresh
<1>3. inquiry'.status = IF inquiry.status \in CONTENT_EDITABLE THEN DerivedInquiryStatus(sess[s].now)
                        ELSE inquiry.status
  BY <1>2 DEF CommitPatch
<1> QED BY <1>3 DEF DerivedInquiryStatus, CONTENT_EDITABLE

\* The statuses the handlers aim at.
LEMMA Targets ==
    ASSUME TypeOK, NEW s \in Sessions
    PROVE  /\ MayCommit(s, "schedules") => Target(sess[s]) = "scheduled"
           /\ MayCommit(s, "rfq") => Target(sess[s]) = "waiting_supplier_quotes"
           /\ MayCommit(s, "optimize") => Target(sess[s]) = "waiting_approval"
           /\ MayCommit(s, "review") =>
                 \/ sess[s].action = "approve" /\ Target(sess[s]) = "approved"
                 \/ sess[s].action = "reject" /\ Target(sess[s]) = "rejected"
           /\ MayCommit(s, "send") => Target(sess[s]) = "sent"
           /\ MayCommit(s, "book") => Target(sess[s]) = "booked"
<1>1. sess[s] \in Memory
  BY DEF TypeOK
<1>2. sess[s].op = "review" => sess[s].action \in {"approve", "reject"}
  BY <1>1 DEF Memory, Knows
<1> QED BY <1>2 DEF MayCommit, At, Target

LEMMA Advances == {"schedules", "rfq", "optimize", "review", "send", "book"} \subseteq Advancing
  BY DEF Advancing, Ops

\* The abstract life cycle is drawn on the same graph.
LEMMA SameGraph ==
    /\ Lifecycle!InquiryStatus = InquiryStatus
    /\ Lifecycle!CONTENT_EDITABLE = CONTENT_EDITABLE
    /\ Lifecycle!INQUIRY_TRANSITIONS = INQUIRY_TRANSITIONS
  BY DEF InquiryStatus, CONTENT_EDITABLE, INQUIRY_TRANSITIONS,
         Lifecycle!InquiryStatus, Lifecycle!CONTENT_EDITABLE, Lifecycle!INQUIRY_TRANSITIONS

\* A step is an edge of the life cycle of the inquiry or leaves its status.
LEMMA LifecycleStep ==
    ASSUME TypeOK, NEW s \in Sessions, Fresh(s), Step(s)
    PROVE  Lifecycle!Next \/ inquiry'.status = inquiry.status
<1>1. ASSUME NEW op \in Advancing, MayCommit(s, op), MoveInquiry(s)
      PROVE  Lifecycle!Next \/ inquiry'.status = inquiry.status
  BY <1>1, MovesFromHere, SameGraph DEF CanTransition, Lifecycle!Next, Lifecycle!Move
<1>2. CASE CommitPatch(s)
  <2>1. \A a, b \in CONTENT_EDITABLE : a = b \/ b \in INQUIRY_TRANSITIONS[a]
    BY DEF CONTENT_EDITABLE, INQUIRY_TRANSITIONS
  <2> QED BY <1>2, <2>1, EditsStayHere, SameGraph DEF Lifecycle!Next, Lifecycle!Move, CONTENT_EDITABLE, InquiryStatus
<1>3. CASE inquiry' = inquiry
  BY <1>3
<1> QED
  BY <1>1, <1>2, <1>3, Advances
     DEF Step, Editing, Searching, Requesting, Answering, Pricing, Reviewing, Sending, Booking,
         ReadPatch, ReadSchedules, CommitSchedules, ReadRfq, OpenRfq, MailRfq,
         CommitRfq, ReadAnswer, CommitAnswer, ReadOptimize, CommitOptimize, ReadReview, CommitReview,
         MailQuote, ReadSend, CommitSend, ReadBook, OrderSpace, CommitBook,
         LoadInquiry, Refuse, Fail, dbVars, worldVars

\* Served one at a time, the services move an inquiry along the edges of
\* INQUIRY_TRANSITIONS only, field edits, failures and retries included.
THEOREM SerialLifecycle ==
    ASSUME \A s, t \in Sessions : s = t
    PROVE  Spec => ForwardOnly
<1>1. Init => Lifecycle!Init
  BY SameGraph DEF Init, DBInit, Lifecycle!Init, DerivedInquiryStatus, CONTENT_EDITABLE
<1>2. TypeOK /\ AllFresh /\ [Next]_vars => [Lifecycle!Next]_(inquiry.status)
  <2> SUFFICES ASSUME TypeOK, AllFresh, [Next]_vars, inquiry'.status # inquiry.status
               PROVE  Lifecycle!Next
    OBVIOUS
  <2>1. PICK s \in Sessions : Step(s)
    BY DEF Next, Step, vars
  <2> QED BY <2>1, LifecycleStep DEF AllFresh
<1> QED BY <1>1, <1>2, TypeCorrect, FreshForever, PTL DEF Spec, ForwardOnly, Lifecycle!Spec

\* What the two tables have to agree on for one quote, and for the inquiry.
QuoteFits(q) == quote[q] \in QuotesUnder(inquiry.status)
InquiryShown ==
    /\ inquiry.status \in {"approved", "rejected", "sent"}
           => \E q \in Quotes : quote[q] = inquiry.status
    /\ inquiry.status = "booked" => \E q \in Quotes : quote[q] = "sent" /\ bookings[q] > 0
    /\ inquiry.status = "rejected" => \A q \in Quotes : mailed[q] = 0

LEMMA AgreeParts == QuotesAgree <=> (\A q \in Quotes : QuoteFits(q)) /\ InquiryShown
  BY DEF QuotesAgree, QuoteFits, InquiryShown

\* Every status allows at least the quotes that its predecessors allow, but for
\* the verdicts, of which an inquiry holds one.
LEMMA Under ==
    /\ \A e \in InquiryStatus \ {"waiting_approval", "approved", "rejected", "sent", "booked"} :
          QuotesUnder(e) = {"absent"}
    /\ QuotesUnder("waiting_approval") = {"absent", "waiting_approval"}
    /\ QuotesUnder("approved") = {"absent", "waiting_approval", "approved"}
    /\ QuotesUnder("rejected") = {"absent", "waiting_approval", "rejected"}
    /\ QuotesUnder("sent") = {"absent", "waiting_approval", "approved", "sent"}
    /\ QuotesUnder("booked") = {"absent", "waiting_approval", "approved", "sent"}
  BY DEF QuotesUnder, InquiryStatus

LEMMA AgreeStep ==
    ASSUME TypeOK, FactsOnly, QuotesAgree, NEW s \in Sessions, Fresh(s), Step(s)
    PROVE  QuotesAgree'
<1>t. /\ quote \in [Quotes -> QuoteStatus] /\ bookings \in [Quotes -> Nat] /\ mailed \in [Quotes -> Nat]
      /\ inquiry.status \in InquiryStatus /\ sess[s] \in Memory
  BY DEF TypeOK, DBTypeOK
<1>a. (\A q \in Quotes : quote[q] \in QuotesUnder(inquiry.status)) /\ InquiryShown
  BY AgreeParts DEF QuoteFits
<1>h. \A q \in Quotes : QuoteHistory(q)
  BY DEF FactsOnly
<1>goal. (\A q \in Quotes : quote'[q] \in QuotesUnder(inquiry'.status)) /\ InquiryShown' => QuotesAgree'
  BY DEF QuotesAgree, InquiryShown
\* Before a verdict nothing is mailed.
<1>m. \A q \in Quotes : quote[q] \in {"absent", "waiting_approval"} => mailed[q] = 0
  BY <1>h, <1>t DEF QuoteHistory
<1>1. CASE CommitPatch(s)
  <2>1. UNCHANGED <<quote, bookings, mailed>>
    BY <1>1 DEF CommitPatch, worldVars
  <2>2. CASE inquiry'.status = inquiry.status
    BY <2>1, <2>2, <1>a, <1>goal DEF InquiryShown
  <2>3. CASE inquiry.status \in CONTENT_EDITABLE /\ inquiry'.status \in CONTENT_EDITABLE
    <3>1. QuotesUnder(inquiry.status) = {"absent"} /\ QuotesUnder(inquiry'.status) = {"absent"}
      BY <2>3, Under DEF CONTENT_EDITABLE, InquiryStatus
    <3>2. InquiryShown'
      BY <2>3 DEF InquiryShown, CONTENT_EDITABLE
    <3> QED BY <3>1, <3>2, <2>1, <1>a, <1>goal
  <2> QED BY <1>1, <2>2, <2>3, EditsStayHere
<1>2. CASE CommitSchedules(s) \/ CommitRfq(s)
  <2>1. UNCHANGED <<quote, bookings, mailed>>
    BY <1>2 DEF CommitSchedules, CommitRfq, worldVars
  <2>2. /\ inquiry.status \in {"ready", "scheduled", "waiting_supplier_quotes"}
        /\ inquiry'.status \in {"scheduled", "waiting_supplier_quotes"}
    BY <1>2, <1>t, MovesFromHere, Targets, Advances, Legal DEF CommitSchedules, CommitRfq
  <2>3. QuotesUnder(inquiry.status) = {"absent"} /\ QuotesUnder(inquiry'.status) = {"absent"}
    BY <2>2, Under DEF InquiryStatus
  <2>4. InquiryShown'
    BY <2>2 DEF InquiryShown
  <2> QED BY <2>1, <2>3, <2>4, <1>a, <1>goal
<1>3. ASSUME NEW q \in Quotes, CommitOptimize(s, q) PROVE QuotesAgree'
  <2>1. quote' = [quote EXCEPT ![q] = "waiting_approval"]
    BY <1>3 DEF CommitOptimize, SetQuote
  <2>2. /\ inquiry.status \in {"waiting_supplier_quotes", "quote_ready", "waiting_approval"}
        /\ inquiry'.status = "waiting_approval"
    BY <1>3, <1>t, MovesFromHere, Targets, Advances, Legal DEF CommitOptimize
  <2>3. QuotesUnder(inquiry.status) \subseteq {"absent", "waiting_approval"}
    BY <2>2, Under DEF InquiryStatus
  <2>4. \A p \in Quotes : quote'[p] \in QuotesUnder(inquiry'.status)
    BY <2>1, <2>2, <2>3, <1>a, <1>t, Under
  <2>5. InquiryShown'
    BY <2>2 DEF InquiryShown
  <2> QED BY <2>4, <2>5, <1>goal
<1>4. CASE CommitReview(s)
  <2>1. PICK q \in Quotes : q = sess[s].quote
    BY <1>4, <1>t DEF CommitReview, MayCommit, At, Memory, Knows
  <2>2. quote' = [quote EXCEPT ![q] = IF sess[s].action = "approve" THEN "approved" ELSE "rejected"]
        /\ UNCHANGED <<bookings, mailed>>
    BY <1>4, <2>1 DEF CommitReview, SetQuote, worldVars
  <2>3. \/ /\ sess[s].action = "approve" /\ inquiry'.status = "approved"
           /\ inquiry.status \in {"waiting_approval", "approved"}
        \/ /\ sess[s].action = "reject" /\ inquiry'.status = "rejected"
           /\ inquiry.status \in {"waiting_approval", "rejected"}
    BY <1>4, <1>t, MovesFromHere, Targets, Advances, Legal DEF CommitReview
  <2>4. CASE sess[s].action = "approve" /\ inquiry'.status = "approved"
    <3>1. QuotesUnder(inquiry.status) \subseteq {"absent", "waiting_approval", "approved"}
      BY <2>3, <2>4, Under
    <3>2. \A p \in Quotes : quote'[p] \in QuotesUnder(inquiry'.status)
      BY <2>2, <2>4, <3>1, <1>a, <1>t, Under
    <3>3. InquiryShown'
      BY <2>2, <2>4, <1>t DEF InquiryShown
    <3> QED BY <3>2, <3>3, <1>goal
  <2>5. CASE sess[s].action = "reject" /\ inquiry'.status = "rejected"
    <3>1. QuotesUnder(inquiry.status) \subseteq {"absent", "waiting_approval", "rejected"}
      BY <2>3, <2>5, Under
    <3>2. \A p \in Quotes : quote'[p] \in QuotesUnder(inquiry'.status)
      BY <2>2, <2>5, <3>1, <1>a, <1>t, Under
    <3>3. \A p \in Quotes : mailed[p] = 0
      <4>1. CASE inquiry.status = "rejected"
        BY <4>1, <1>a DEF InquiryShown
      <4>2. CASE inquiry.status = "waiting_approval"
        BY <4>2, <1>a, <1>m, Under
      <4> QED BY <2>3, <2>5, <4>1, <4>2
    <3>4. InquiryShown'
      BY <2>2, <2>5, <3>3, <1>t DEF InquiryShown
    <3> QED BY <3>2, <3>4, <1>goal
  <2> QED BY <2>3, <2>4, <2>5
<1>5. CASE MailQuote(s)
  <2>1. PICK q \in Quotes : q = sess[s].quote
    BY <1>5, <1>t DEF MailQuote, At, Memory, Knows
  <2>2. quote[q] = "approved"
    BY <1>5, <2>1 DEF MailQuote, At, Fresh
  <2>3. UNCHANGED <<inquiry, quote, bookings>>
    BY <1>5 DEF MailQuote, dbVars
  <2>4. inquiry.status # "rejected"
    BY <2>2, <1>a, Under
  <2> QED BY <2>3, <2>4, <1>a, <1>goal DEF InquiryShown
<1>6. CASE CommitSend(s)
  <2>1. PICK q \in Quotes : q = sess[s].quote
    BY <1>6, <1>t DEF CommitSend, MayCommit, At, Memory, Knows
  <2>2. quote' = [quote EXCEPT ![q] = "sent"]
    BY <1>6, <2>1 DEF CommitSend, SetQuote
  <2>3. inquiry.status \in {"approved", "sent"} /\ inquiry'.status = "sent"
    BY <1>6, <1>t, MovesFromHere, Targets, Advances, Legal DEF CommitSend
  <2>4. \A p \in Quotes : quote'[p] \in QuotesUnder(inquiry'.status)
    BY <2>2, <2>3, <1>a, <1>t, Under
  <2>5. InquiryShown'
    BY <2>2, <2>3, <1>t DEF InquiryShown
  <2> QED BY <2>4, <2>5, <1>goal
<1>7. CASE CommitBook(s)
  <2>1. PICK q \in Quotes : q = sess[s].quote
    BY <1>7, <1>t DEF CommitBook, MayCommit, At, Memory, Knows
  <2>2. quote' = quote /\ quote[q] = "sent" /\ bookings' = [bookings EXCEPT ![q] = @ + 1]
    BY <1>7, <2>1 DEF CommitBook, MayCommit, At, InsertBooking, Fresh
  <2>3. inquiry.status \in {"sent", "booked"} /\ inquiry'.status = "booked"
    BY <1>7, <1>t, MovesFromHere, Targets, Advances, Legal DEF CommitBook
  <2>4. \A p \in Quotes : quote'[p] \in QuotesUnder(inquiry'.status)
    BY <2>2, <2>3, <1>a, Under
  <2>5. quote'[q] = "sent" /\ bookings'[q] > 0
    BY <2>2, <1>t
  <2>6. InquiryShown'
    BY <2>3, <2>5 DEF InquiryShown
  <2> QED BY <2>4, <2>6, <1>goal
<1>8. CASE UNCHANGED <<inquiry, quote, bookings, mailed>>
  BY <1>8, <1>a, <1>goal DEF InquiryShown
<1> QED
  BY <1>1, <1>2, <1>3, <1>4, <1>5, <1>6, <1>7, <1>8
     DEF Step, Editing, Searching, Requesting, Answering, Pricing, Reviewing, Sending, Booking,
         ReadPatch, ReadSchedules, ReadRfq, OpenRfq, MailRfq,
         ReadAnswer, CommitAnswer, ReadOptimize, ReadReview,
         ReadSend, ReadBook, OrderSpace, LoadInquiry, Refuse, Fail, dbVars, worldVars

\* Served one at a time, the services keep the quote table and the inquiry
\* telling one story, each from its own checks.
THEOREM SerialQuotesAgree ==
    ASSUME \A s, t \in Sessions : s = t
    PROVE  Spec => []QuotesAgree
<1>1. Init => QuotesAgree
  <2> SUFFICES ASSUME Init PROVE QuotesAgree
    OBVIOUS
  <2>1. inquiry.status \in CONTENT_EDITABLE /\ \A q \in Quotes : quote[q] = "absent"
    BY DEF Init, DBInit, DerivedInquiryStatus, CONTENT_EDITABLE
  <2> QED BY <2>1 DEF QuotesAgree, QuotesUnder, CONTENT_EDITABLE
<1>2. TypeOK /\ FactsOnly /\ AllFresh /\ QuotesAgree /\ [Next]_vars => QuotesAgree'
  <2> SUFFICES ASSUME TypeOK, FactsOnly, AllFresh, QuotesAgree, [Next]_vars PROVE QuotesAgree'
    OBVIOUS
  <2>1. CASE UNCHANGED vars
    BY <2>1 DEF vars, QuotesAgree
  <2> QED BY <2>1, AgreeStep DEF Next, Step, AllFresh
<1> QED BY <1>1, <1>2, TypeCorrect, FactsSurvive, FreshForever, PTL DEF Spec

\* One row each, and an RFQ that is not there has no answers.
OneRowSoFar == OneRowEach /\ \A r \in Rfqs : rfq[r].status = "absent" => rfq[r].received = 0

LEMMA OneRowStep ==
    ASSUME TypeOK, OneRowSoFar, NEW s \in Sessions, Fresh(s), Step(s)
    PROVE  OneRowSoFar'
<1>t. /\ rfq \in [Rfqs -> [status : RfqStatus, received : Nat]] /\ bookings \in [Quotes -> Nat]
      /\ sess[s] \in Memory
      /\ supplierQuote \in [SupplierQuotes -> [rfq : Rfqs \cup {0}, from : Suppliers \cup {None}]]
  BY DEF TypeOK, DBTypeOK
<1>1. ASSUME NEW q \in Quotes PROVE bookings'[q] <= 1
  <2>0. bookings[q] <= 1
    BY DEF OneRowSoFar, OneRowEach
  <2>1. CASE CommitBook(s)
    <3>1. sess[s].quote \in Quotes /\ bookings[sess[s].quote] = 0
          /\ bookings' = [bookings EXCEPT ![sess[s].quote] = @ + 1]
      BY <2>1, <1>t DEF CommitBook, MayCommit, At, Memory, Knows, Fresh, InsertBooking
    <3> QED BY <3>1, <2>0, <1>t
  <2>2. CASE ~CommitBook(s)
    <3>1. bookings' = bookings
      BY <2>2 DEF Step, Editing, Searching, Requesting, Answering, Pricing, Reviewing, Sending, Booking,
                ReadPatch, CommitPatch, ReadSchedules, CommitSchedules, ReadRfq, OpenRfq, MailRfq,
                CommitRfq, ReadAnswer, CommitAnswer, ReadOptimize, CommitOptimize, ReadReview, CommitReview,
                MailQuote, ReadSend, CommitSend, ReadBook, OrderSpace,
                LoadInquiry, Refuse, Fail, dbVars, worldVars
    <3> QED BY <3>1, <2>0
  <2> QED BY <2>1, <2>2
<1>2. ASSUME NEW r \in Rfqs, NEW p \in Suppliers PROVE Cardinality(RowsFrom(r, p)') <= 1
  <2>0. Cardinality(RowsFrom(r, p)) <= 1
    BY DEF OneRowSoFar, OneRowEach
  <2>1. ASSUME NEW o \in SupplierQuotes, CommitAnswer(s, o) PROVE Cardinality(RowsFrom(r, p)') <= 1
    <3>1. /\ supplierQuote'[o] = [rfq |-> sess[s].rfq, from |-> sess[s].supplier]
          /\ \A n \in SupplierQuotes \ {o} : supplierQuote'[n] = supplierQuote[n]
          /\ RowsFrom(sess[s].rfq, sess[s].supplier) = {}
      BY <2>1, <1>t DEF CommitAnswer, InsertSupplierQuote
    <3>2. supplierQuote[o].rfq # r
      BY <2>1, AnswerAdds DEF RowsOf
    <3>3. CASE r = sess[s].rfq /\ p = sess[s].supplier
      <4>1. RowsFrom(r, p)' = {o}
        BY <3>1, <3>3 DEF RowsFrom, RowsOf
      <4> QED BY <4>1, FS_Singleton
    <3>4. CASE ~(r = sess[s].rfq /\ p = sess[s].supplier)
      <4>1. RowsFrom(r, p)' = RowsFrom(r, p)
        BY <3>1, <3>2, <3>4 DEF RowsFrom, RowsOf
      <4> QED BY <4>1, <2>0
    <3> QED BY <3>3, <3>4
  <2>2. ASSUME ~\E o \in SupplierQuotes : CommitAnswer(s, o)
        PROVE  Cardinality(RowsFrom(r, p)') <= 1
    <3>1. RowsFrom(r, p)' = RowsFrom(r, p)
      BY <2>2, NoAnswer DEF RowsFrom, RowsOf
    <3> QED BY <3>1, <2>0
  <2> QED BY <2>1, <2>2
<1>3. ASSUME NEW r \in Rfqs
      PROVE  /\ rfq'[r].received = Cardinality(RowsOf(r)')
             /\ rfq'[r].status = "absent" => rfq'[r].received = 0
  <2>0. /\ rfq[r].received = Cardinality(RowsOf(r)) /\ rfq[r].received \in Nat
        /\ rfq[r].status = "absent" => rfq[r].received = 0
    BY <1>t DEF OneRowSoFar, OneRowEach
  <2>1. ASSUME NEW o \in SupplierQuotes, CommitAnswer(s, o), r = sess[s].rfq
        PROVE  /\ rfq'[r].received = Cardinality(RowsOf(r)')
               /\ rfq'[r].status = "absent" => rfq'[r].received = 0
    <3>1. Cardinality(RowsOf(r)') = Cardinality(RowsOf(r)) + 1
      BY <2>1, AnswerAdds, RowsCount, FS_AddElement
    <3>2. sess[s].received = rfq[r].received /\ rfq[r].status # "absent"
      BY <2>1 DEF CommitAnswer, At, Fresh
    <3>3. rfq' = [rfq EXCEPT ![r] = [status |-> IF sess[s].received + 1 >= Expected THEN "complete" ELSE @.status,
                                     received |-> sess[s].received + 1]]
      BY <2>1, AnswerAdds
    <3>4. rfq'[r].received = sess[s].received + 1 /\ rfq'[r].status # "absent"
      BY <3>2, <3>3, <1>t
    <3> QED BY <3>1, <3>2, <3>4, <2>0
  <2>2. ASSUME NEW o \in SupplierQuotes, CommitAnswer(s, o), r # sess[s].rfq
        PROVE  rfq'[r] = rfq[r] /\ RowsOf(r)' = RowsOf(r)
    BY <2>2, <1>t, AnswerAdds
  <2>3. ASSUME ~\E o \in SupplierQuotes : CommitAnswer(s, o)
        PROVE  /\ RowsOf(r)' = RowsOf(r)
               /\ \/ rfq'[r] = rfq[r]
                  \/ rfq'[r] = [status |-> "open", received |-> 0] /\ rfq[r].status = "absent"
    <3>1. RowsOf(r)' = RowsOf(r)
      BY <2>3, NoAnswer DEF RowsOf
    <3>2. \/ rfq'[r] = rfq[r]
          \/ rfq'[r] = [status |-> "open", received |-> 0] /\ rfq[r].status = "absent"
      BY <2>3, <1>t, NoAnswer DEF InsertRfq
    <3> QED BY <3>1, <3>2
  <2>4. CASE rfq'[r] = rfq[r] /\ RowsOf(r)' = RowsOf(r)
    BY <2>4, <2>0
  <2>5. CASE /\ rfq'[r] = [status |-> "open", received |-> 0]
             /\ rfq[r].status = "absent" /\ RowsOf(r)' = RowsOf(r)
    BY <2>5, <2>0
  <2> QED BY <2>1, <2>2, <2>3, <2>4, <2>5
<1> QED BY <1>1, <1>2, <1>3 DEF OneRowSoFar, OneRowEach

\* Served one at a time, create_booking and add_supplier_quote are idempotent:
\* one booking per quote, one row per supplier and RFQ, each row counted once.
THEOREM SerialOneRowEach ==
    ASSUME \A s, t \in Sessions : s = t
    PROVE  Spec => []OneRowEach
<1>1. Init => OneRowSoFar
  <2> SUFFICES ASSUME Init PROVE OneRowSoFar
    OBVIOUS
  <2>1. /\ \A q \in Quotes : bookings[q] = 0
        /\ \A r \in Rfqs : rfq[r].received = 0
        /\ \A o \in SupplierQuotes : supplierQuote[o].rfq = 0
    BY DEF Init, DBInit
  <2>2. \A r \in Rfqs : r # 0
    BY RowBounds DEF Rfqs
  <2>3. \A r \in Rfqs : RowsOf(r) = {}
    BY <2>1, <2>2 DEF RowsOf
  <2>4. \A r \in Rfqs, p \in Suppliers : RowsFrom(r, p) = {}
    BY <2>3 DEF RowsFrom
  <2>5. Cardinality({}) = 0
    BY FS_EmptySet
  <2>6. \A q \in Quotes : bookings[q] <= 1
    BY <2>1
  <2>7. \A r \in Rfqs : rfq[r].received = Cardinality(RowsOf(r))
    BY <2>1, <2>3, <2>5
  <2>8. \A r \in Rfqs, p \in Suppliers : Cardinality(RowsFrom(r, p)) <= 1
    BY <2>4, <2>5
  <2> QED BY <2>1, <2>6, <2>7, <2>8 DEF OneRowSoFar, OneRowEach
<1>2. TypeOK /\ AllFresh /\ OneRowSoFar /\ [Next]_vars => OneRowSoFar'
  <2> SUFFICES ASSUME TypeOK, AllFresh, OneRowSoFar, [Next]_vars PROVE OneRowSoFar'
    OBVIOUS
  <2>1. CASE UNCHANGED vars
    BY <2>1 DEF vars, OneRowSoFar, OneRowEach, RowsFrom, RowsOf
  <2> QED BY <2>1, OneRowStep DEF Next, Step, AllFresh
<1>3. OneRowSoFar => OneRowEach
  BY DEF OneRowSoFar
<1> QED BY <1>1, <1>2, <1>3, TypeCorrect, FreshForever, PTL DEF Spec

=============================================================================
