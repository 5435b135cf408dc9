---------------------------- MODULE FreightDBProofs ----------------------------
(***************************************************************************)
(* Lemmas of the rows, for the pipelines that write them: the newest row of *)
(* a table is one of its rows, and each write keeps the types.              *)
(***************************************************************************)
EXTENDS FreightDB, FiniteSetsExt, WellFoundedInduction, TLAPS

-----------------------------------------------------------------------------
(* The newest row *)

LEMMA Naturals == IsWellFoundedOn({ss \in Nat \X Nat : ss[1] < ss[2]}, Nat)
  BY NatLessThanWellFounded DEF OpToRel

\* A non-empty set of row identifiers has a highest member.
LEMMA MaxIsMember ==
    ASSUME NEW n \in Nat, NEW S \in SUBSET (1..n), S # {}
    PROVE  Max(S) \in S /\ \A y \in S : y <= Max(S)
<1> DEFINE T == {n - x : x \in S}
           R == {ss \in Nat \X Nat : ss[1] < ss[2]}
<1>1. T \subseteq Nat /\ T # {}
  <2>1. \A x \in S : x \in 1..n
    OBVIOUS
  <2>2. \A x \in 1..n : n - x \in Nat
    OBVIOUS
  <2> QED BY <2>1, <2>2
<1>2. PICK t \in T : \A u \in T : <<u, t>> \notin R
  <2> HIDE DEF T, R
  <2>1. IsWellFoundedOn(R, Nat)
    BY Naturals DEF R
  <2> QED BY <1>1, <2>1, WFMin
<1>3. PICK x \in S : t = n - x
  BY <1>2
<1>4. \A y \in S : x >= y
  <2> SUFFICES ASSUME NEW y \in S PROVE x >= y
    OBVIOUS
  <2>1. n - y \in Nat /\ t \in Nat /\ <<n - y, t>> \notin R
    BY <1>1, <1>2
  <2>2. ~(n - y < t)
    BY <2>1
  <2> QED BY <1>3, <2>2
<1>5. Max(S) \in S /\ \A y \in S : Max(S) >= y
  BY <1>4 DEF Max
<1> QED BY <1>5

-----------------------------------------------------------------------------
(* Writes keep the types *)

InquiryRow == [status : InquiryStatus, complete : BOOLEAN]
RfqRows    == [Rfqs -> [status : RfqStatus, received : Nat]]
AnswerRows == [SupplierQuotes -> [rfq : Rfqs \cup {0}, from : Suppliers \cup {None}]]

LEMMA AdvancedType ==
    ASSUME inquiry \in InquiryRow, NEW seen, NEW target \in InquiryStatus
    PROVE  Advanced(seen, target) \in InquiryRow
  BY DEF Advanced, InquiryRow

LEMMA PatchType ==
    ASSUME inquiry \in InquiryRow, NEW complete \in BOOLEAN,
           inquiry' = [status   |-> IF inquiry.status \in CONTENT_EDITABLE
                                    THEN DerivedInquiryStatus(complete) ELSE inquiry.status,
                       complete |-> complete]
    PROVE  inquiry' \in InquiryRow
<1>1. DerivedInquiryStatus(complete) \in InquiryStatus
  BY DEF DerivedInquiryStatus, InquiryStatus
<1>2. inquiry.status \in InquiryStatus
  BY DEF InquiryRow
<1> QED BY <1>1, <1>2 DEF InquiryRow

\* What the parts of a step give for the rows as a whole.
LEMMA RowParts ==
    ASSUME inquiry' \in InquiryRow,
           rfq' \in RfqRows,
           supplierQuote' \in AnswerRows,
           quote' \in [Quotes -> QuoteStatus], approvals' \subseteq Verdict,
           bookings' \in [Quotes -> Nat], rfqMailed' \subseteq Rfqs,
           mailed' \in [Quotes -> Nat], ordered' \in [Quotes -> Nat]
    PROVE  DBTypeOK'
  BY DEF DBTypeOK, InquiryRow, RfqRows, AnswerRows

LEMMA RowsHave ==
    ASSUME DBTypeOK
    PROVE  /\ inquiry \in InquiryRow
           /\ rfq \in RfqRows
           /\ supplierQuote \in AnswerRows
           /\ quote \in [Quotes -> QuoteStatus] /\ approvals \subseteq Verdict
           /\ bookings \in [Quotes -> Nat] /\ rfqMailed \subseteq Rfqs
           /\ mailed \in [Quotes -> Nat] /\ ordered \in [Quotes -> Nat]
  BY DEF DBTypeOK, InquiryRow, RfqRows, AnswerRows

LEMMA RowsStay ==
    ASSUME DBTypeOK, UNCHANGED <<dbVars, worldVars>>
    PROVE  DBTypeOK'
  BY DEF DBTypeOK, dbVars, worldVars

LEMMA InsertRfqType ==
    ASSUME DBTypeOK, NEW x \in Rfqs, InsertRfq(x)
    PROVE  rfq' \in RfqRows
  BY DEF DBTypeOK, InsertRfq, RfqStatus, RfqRows

LEMMA AnswerType ==
    ASSUME DBTypeOK, NEW x \in Rfqs, NEW p \in Suppliers, NEW o \in SupplierQuotes,
           InsertSupplierQuote(o, x, p), CountAnswer(x, rfq[x].received)
    PROVE  /\ rfq' \in RfqRows
           /\ supplierQuote' \in AnswerRows
<1>1. rfq' \in RfqRows
  BY DEF DBTypeOK, CountAnswer, RfqStatus, RfqRows
<1>2. supplierQuote' \in AnswerRows
  BY DEF DBTypeOK, InsertSupplierQuote, AnswerRows
<1> QED BY <1>1, <1>2

LEMMA SetQuoteType ==
    ASSUME DBTypeOK, NEW q, NEW status \in QuoteStatus, SetQuote(q, status)
    PROVE  quote' \in [Quotes -> QuoteStatus]
  BY DEF DBTypeOK, SetQuote

LEMMA VerdictType ==
    ASSUME DBTypeOK, NEW q \in Quotes, NEW action \in {"approve", "reject"}, RecordVerdict(q, action)
    PROVE  approvals' \subseteq Verdict
  BY DEF DBTypeOK, RecordVerdict, Verdict

LEMMA BookingType ==
    ASSUME DBTypeOK, NEW q \in Quotes, InsertBooking(q)
    PROVE  bookings' \in [Quotes -> Nat]
  BY DEF DBTypeOK, InsertBooking

LEMMA InitRows == DBInit => DBTypeOK
<1> SUFFICES ASSUME DBInit PROVE DBTypeOK
  OBVIOUS
<1>1. inquiry \in [status : InquiryStatus, complete : BOOLEAN]
  BY DEF DBInit, DerivedInquiryStatus, InquiryStatus
<1> QED BY <1>1 DEF DBInit, DBTypeOK, RfqStatus, QuoteStatus

-----------------------------------------------------------------------------
(* The legal moves *)

\* From where an inquiry may come into each status of a pipeline.
LEMMA Legal ==
    ASSUME NEW c \in InquiryStatus
    PROVE  /\ CanTransition(c, "scheduled") => c \in {"ready", "scheduled"}
           /\ CanTransition(c, "waiting_supplier_quotes") => c \in {"scheduled", "waiting_supplier_quotes"}
           /\ CanTransition(c, "waiting_approval") =>
                 c \in {"waiting_supplier_quotes", "quote_ready", "waiting_approval"}
           /\ CanTransition(c, "approved") => c \in {"waiting_approval", "approved"}
           /\ CanTransition(c, "rejected") => c \in {"waiting_approval", "rejected"}
           /\ CanTransition(c, "sent") => c \in {"approved", "sent"}
           /\ CanTransition(c, "booked") => c \in {"sent", "booked"}
           /\ c \in {"approved", "sent"} => CanTransition(c, "sent")
  BY DEF CanTransition, INQUIRY_TRANSITIONS, InquiryStatus

=============================================================================
