--------------------------- MODULE OrchestratorProofs ---------------------------
(***************************************************************************)
(* Theorems of Orchestrator, for any requests, suppliers, rows and bounds.  *)
(***************************************************************************)
EXTENDS Orchestrator, FreightDBProofs, FiniteSetTheorems

-----------------------------------------------------------------------------
(* Shapes *)

Results == {"none", "waiting_approval", "failed", "completed"}

RunRow == [at : Stages \cup {"idle"}, seen : InquiryStatus \cup {"none"}, complete : BOOLEAN,
           auto : BOOLEAN, seed : BOOLEAN, held : Quotes \cup {0}, heldStatus : QuoteStatus,
           result : Results]

LEMMA StagesAre ==
    Stages = {"parse", "schedules", "rates", "rfq", "supplier_quotes", "optimize",
              "hitl_review", "quote_send", "booking", "vessel_tracking"}
<1>1. DOMAIN STAGES = 1..10
  BY DEF STAGES
<1> QED BY <1>1 DEF Stages, STAGES

\* A stage before the last is followed by a stage.
LEMMA AfterType ==
    ASSUME NEW stage \in Stages, stage # "vessel_tracking"
    PROVE  After(stage) \in Stages
<1> DEFINE i == CHOOSE j \in DOMAIN STAGES : STAGES[j] = stage
<1>1. DOMAIN STAGES = 1..10 /\ STAGES[10] = "vessel_tracking"
  BY DEF STAGES
<1>2. i \in DOMAIN STAGES /\ STAGES[i] = stage
  BY DEF Stages
<1>3. After(stage) = STAGES[i + 1]
  BY DEF After
<1> HIDE DEF i
<1>4. i \in 1..10 /\ i # 10
  BY <1>1, <1>2
<1>5. i + 1 \in DOMAIN STAGES
  BY <1>1, <1>4
<1> QED BY <1>3, <1>5 DEF Stages

LEMMA LatestIsThere ==
    /\ LatestQuote # 0 => LatestQuote \in KnownQuotes
    /\ \A q \in KnownQuotes : LatestQuote # 0 /\ q <= LatestQuote
    /\ HasRfq => LastRfq \in SentRfqs
<1>1. KnownQuotes \in SUBSET (1..MaxQuotes) /\ MaxQuotes \in Nat /\ SentRfqs \in SUBSET (1..MaxRfqs)
      /\ MaxRfqs \in Nat
  BY RowBounds DEF KnownQuotes, Quotes, SentRfqs, Rfqs
<1>2. KnownQuotes # {} => Max(KnownQuotes) \in KnownQuotes /\ \A q \in KnownQuotes : q <= Max(KnownQuotes)
  BY <1>1, MaxIsMember
<1>3. SentRfqs # {} => Max(SentRfqs) \in SentRfqs
  BY <1>1, MaxIsMember
<1>4. 0 \notin KnownQuotes
  BY <1>1
<1> QED BY <1>2, <1>3, <1>4 DEF LatestQuote, HasRfq, LastRfq

LEMMA LatestInTable ==
    /\ LatestQuote \in Quotes \cup {0}
    /\ \A r \in Runs : LatestStatus(r) # "absent" => LatestQuote \in Quotes
    /\ HasRfq => LastRfq \in Rfqs
  BY LatestIsThere DEF KnownQuotes, LatestStatus, SentRfqs

LEMMA RunMoves ==
    ASSUME TypeOK, NEW r \in Runs, NEW new \in RunRow, run' = [run EXCEPT ![r] = new]
    PROVE  run' \in [Runs -> RunRow]
  BY DEF TypeOK, RunRow, Results

LEMMA RowOf == ASSUME TypeOK, NEW r \in Runs PROVE run[r] \in RunRow
  BY DEF TypeOK, RunRow, Results

LEMMA ProceedRuns ==
    ASSUME TypeOK, NEW r \in Runs, Proceed(r), run[r].at \in Stages, run[r].at # "vessel_tracking"
    PROVE  run' \in [Runs -> RunRow]
<1> DEFINE new == [run[r] EXCEPT !.at = After(run[r].at)]
<1>1. run[r] \in RunRow /\ After(run[r].at) \in Stages
  BY RowOf, AfterType
<1>2. new \in RunRow
  BY <1>1 DEF RunRow
<1>3. run' = [run EXCEPT ![r] = new]
  BY DEF Proceed
<1> HIDE DEF new
<1> QED BY <1>2, <1>3, RunMoves

LEMMA EndRuns ==
    ASSUME TypeOK, NEW r \in Runs, NEW result \in Results, End(r, result)
    PROVE  run' \in [Runs -> RunRow]
<1> DEFINE new == [NoRun EXCEPT !.result = result]
<1>1. new \in RunRow
  BY DEF RunRow, NoRun, QuoteStatus
<1>2. run' = [run EXCEPT ![r] = new]
  BY DEF End
<1> HIDE DEF new
<1> QED BY <1>1, <1>2, RunMoves

LEMMA AdvanceRuns ==
    ASSUME TypeOK, NEW r \in Runs, NEW target \in InquiryStatus, AdvanceOrFail(r, target),
           run[r].at \in Stages, run[r].at # "vessel_tracking"
    PROVE  run' \in [Runs -> RunRow] /\ inquiry' \in InquiryRow
<1>1. inquiry \in InquiryRow /\ run[r] \in RunRow /\ run \in [Runs -> RunRow]
  BY RowsHave, RowOf DEF TypeOK, RunRow, Results
<1>2. CASE CanTransition(run[r].seen, target)
  <2> DEFINE new == [run[r] EXCEPT !.at = After(run[r].at), !.seen = target,
                         !.heldStatus = IF target = "sent" THEN "sent" ELSE run[r].heldStatus]
  <2>1. new \in RunRow
    <3>1. "sent" \in QuoteStatus /\ After(run[r].at) \in Stages
      BY AfterType DEF QuoteStatus
    <3> QED BY <1>1, <3>1 DEF RunRow
  <2>2. run' = [run EXCEPT ![r] = new]
    BY <1>1, <1>2 DEF AdvanceOrFail
  <2> HIDE DEF new
  <2> QED BY <1>1, <1>2, <2>1, <2>2, RunMoves, AdvancedType DEF AdvanceOrFail
<1>3. CASE ~CanTransition(run[r].seen, target)
  <2>1. End(r, "failed") /\ "failed" \in Results /\ inquiry' = inquiry
    BY <1>3 DEF AdvanceOrFail, Results
  <2> QED BY <1>1, <2>1, EndRuns
<1> QED BY <1>2, <1>3

LEMMA TypeParts ==
    ASSUME TypeOK, DBTypeOK', run' \in [Runs -> RunRow], UNCHANGED production, losses' \in 0..MaxLosses
    PROVE  TypeOK'
<1>1. production' \in BOOLEAN
  BY Zenon DEF TypeOK
<1> QED BY <1>1 DEF TypeOK, RunRow, Results

\* Steps that write no row.
LEMMA OnlyRun ==
    ASSUME TypeOK, UNCHANGED <<dbVars, worldVars, losses, production>>, run' \in [Runs -> RunRow]
    PROVE  TypeOK'
<1>1. DBTypeOK'
  BY RowsStay DEF TypeOK
<1> QED BY <1>1, TypeParts DEF TypeOK

LEMMA StartingType ==
    ASSUME TypeOK, UNCHANGED production, NEW r \in Runs, Starting(r)
    PROVE  TypeOK'
<1>1. inquiry.status \in InquiryStatus /\ inquiry.complete \in BOOLEAN /\ quote \in [Quotes -> QuoteStatus]
  BY RowsHave DEF TypeOK, InquiryRow
<1>2. ASSUME NEW stage \in Stages, NEW auto \in BOOLEAN, NEW seed \in BOOLEAN, StartRun(r, stage, auto, seed)
      PROVE  TypeOK'
  <2> DEFINE new == [NoRun EXCEPT
                 !.at = stage, !.seen = inquiry.status, !.complete = inquiry.complete,
                 !.auto = auto, !.seed = seed]
  <2>1. new \in RunRow
    BY <1>1 DEF RunRow, NoRun, QuoteStatus, Results
  <2>2. run' = [run EXCEPT ![r] = new] /\ UNCHANGED <<dbVars, worldVars, losses>>
    BY <1>2 DEF StartRun
  <2> HIDE DEF new
  <2> QED BY <2>1, <2>2, RunMoves, OnlyRun
<1>3. ASSUME NEW q \in Quotes, Continue(r, q) PROVE TypeOK'
  <2> DEFINE new == [NoRun EXCEPT
                 !.at = "hitl_review", !.seen = inquiry.status, !.complete = inquiry.complete,
                 !.held = q, !.heldStatus = quote[q]]
  <2>1. new \in RunRow
    BY <1>1, StagesAre DEF RunRow, NoRun, Results
  <2>2. run' = [run EXCEPT ![r] = new] /\ UNCHANGED <<dbVars, worldVars, losses>>
    BY <1>3 DEF Continue
  <2> HIDE DEF new
  <2> QED BY <2>1, <2>2, RunMoves, OnlyRun
<1> QED BY <1>2, <1>3 DEF Starting

\* What the stages know of the run they are in.
LEMMA AtStage ==
    ASSUME NEW r \in Runs, NEW stage \in Stages, stage # "vessel_tracking", At(r, stage)
    PROVE  run[r].at \in Stages /\ run[r].at # "vessel_tracking"
  BY DEF At

LEMMA QuotingType ==
    ASSUME TypeOK, UNCHANGED production, NEW r \in Runs, Quoting(r)
    PROVE  TypeOK'
<1>t. DBTypeOK /\ losses \in 0..MaxLosses
  BY DEF TypeOK
<1>n. /\ {"parse", "schedules", "rates", "rfq", "supplier_quotes", "optimize"} \subseteq Stages
      /\ {"failed", "waiting_approval"} \subseteq Results
      /\ {"scheduled", "waiting_supplier_quotes", "waiting_approval"} \subseteq InquiryStatus
      /\ "waiting_approval" \in QuoteStatus
  BY StagesAre DEF Results, InquiryStatus, QuoteStatus
<1>1. CASE Parse(r) \/ Rates(r) \/ ReuseRfq(r) \/ RefuseRfq(r) \/ SupplierQuotesStage(r) \/ RefuseOptimize(r)
  <2>1. UNCHANGED <<dbVars, worldVars, losses>>
    BY <1>1 DEF Parse, Rates, ReuseRfq, RefuseRfq, SupplierQuotesStage, RefuseOptimize
  <2>2. run' \in [Runs -> RunRow]
    <3>1. CASE End(r, "failed") \/ End(r, "waiting_approval")
      BY <3>1, <1>n, EndRuns
    <3>2. CASE Proceed(r) /\ \E stage \in Stages \ {"vessel_tracking"} : At(r, stage)
      BY <3>2, AtStage, ProceedRuns
    <3>3. (End(r, "failed") \/ End(r, "waiting_approval"))
          \/ (Proceed(r) /\ \E stage \in Stages \ {"vessel_tracking"} : At(r, stage))
      BY <1>1, <1>n DEF Parse, Rates, ReuseRfq, RefuseRfq, SupplierQuotesStage, RefuseOptimize
    <3> QED BY <3>1, <3>2, <3>3
  <2> QED BY <2>1, <2>2, OnlyRun
<1>2. CASE Schedules(r)
  <2>1. run' \in [Runs -> RunRow] /\ inquiry' \in InquiryRow
    <3>1. CASE AdvanceOrFail(r, "scheduled")
      BY <1>2, <3>1, <1>n, AtStage, AdvanceRuns DEF Schedules
    <3>2. CASE End(r, "failed") /\ UNCHANGED inquiry
      BY <3>2, <1>n, <1>t, EndRuns, RowsHave
    <3> QED BY <1>2, <3>1, <3>2 DEF Schedules
  <2>2. UNCHANGED <<rfq, supplierQuote, quote, approvals, bookings, rfqMailed, mailed, ordered, losses>>
    BY <1>2 DEF Schedules, worldVars
  <2>3. DBTypeOK'
    BY <1>t, <2>1, <2>2, RowsHave, RowParts
  <2> QED BY <1>t, <2>1, <2>2, <2>3, TypeParts
<1>3. ASSUME NEW x \in Rfqs, CreateRfq(r, x) PROVE TypeOK'
  <2>1. run' \in [Runs -> RunRow] /\ inquiry' \in InquiryRow
    BY <1>3, <1>n, AtStage, AdvanceRuns DEF CreateRfq
  <2>2. UNCHANGED <<supplierQuote, quote, approvals, bookings, mailed, ordered, losses>> /\ InsertRfq(x)
        /\ rfqMailed' = rfqMailed \cup {x}
    BY <1>3 DEF CreateRfq
  <2>3. DBTypeOK'
    BY <1>t, <2>1, <2>2, InsertRfqType, RowsHave, RowParts
  <2> QED BY <1>t, <2>1, <2>2, <2>3, TypeParts
<1>4. ASSUME NEW o \in SupplierQuotes, Seed(r, o) PROVE TypeOK'
  <2>1. PICK p \in ToSeed(r) : InsertSupplierQuote(o, LastRfq, p)
    BY <1>4 DEF Seed
  <2>2. p \in Suppliers
    BY <2>1, RunBounds DEF ToSeed
  <2>3. LastRfq \in Rfqs
    BY <1>4, LatestInTable DEF Seed
  <2>4. CountAnswer(LastRfq, rfq[LastRfq].received)
        /\ UNCHANGED <<inquiry, quote, approvals, bookings, rfqMailed, mailed, ordered, run, losses>>
    BY <1>4 DEF Seed, worldVars
  <2>5. DBTypeOK'
    BY <1>t, <2>1, <2>2, <2>3, <2>4, AnswerType, RowsHave, RowParts
  <2>6. run' \in [Runs -> RunRow]
    BY <2>4 DEF TypeOK, RunRow, Results
  <2> QED BY <1>t, <2>4, <2>5, <2>6, TypeParts
<1>5. ASSUME NEW q \in Quotes, Optimize(r, q) PROVE TypeOK'
  <2>1. run' \in [Runs -> RunRow] /\ inquiry' \in InquiryRow
    BY <1>5, <1>n, AtStage, AdvanceRuns DEF Optimize
  <2>2. UNCHANGED <<rfq, supplierQuote, approvals, bookings, rfqMailed, mailed, ordered, losses>>
        /\ SetQuote(q, "waiting_approval")
    BY <1>5 DEF Optimize, worldVars
  <2>3. DBTypeOK'
    BY <1>t, <1>n, <2>1, <2>2, SetQuoteType, RowsHave, RowParts
  <2> QED BY <1>t, <2>1, <2>2, <2>3, TypeParts
<1> QED BY <1>1, <1>2, <1>3, <1>4, <1>5 DEF Quoting

LEMMA ClosingType ==
    ASSUME TypeOK, UNCHANGED production, NEW r \in Runs, Gating(r) \/ Closing(r)
    PROVE  TypeOK'
<1>t. DBTypeOK /\ losses \in 0..MaxLosses
  BY DEF TypeOK
<1>n. /\ {"hitl_review", "quote_send", "booking"} \subseteq Stages
      /\ {"failed", "waiting_approval", "completed"} \subseteq Results
      /\ {"approved", "sent", "booked"} \subseteq InquiryStatus
      /\ {"approved", "sent"} \subseteq QuoteStatus
  BY StagesAre DEF Results, InquiryStatus, QuoteStatus
<1>1. CASE \/ PassApproved(r) \/ WaitForReviewer(r) \/ RefuseAutoApprove(r)
           \/ SkipSend(r) \/ StopSend(r) \/ StopBooking(r) \/ ReuseBooking(r) \/ Track(r)
  <2>1. UNCHANGED <<dbVars, worldVars, losses>>
    BY <1>1 DEF PassApproved, WaitForReviewer, RefuseAutoApprove, SkipSend, StopSend, StopBooking,
                ReuseBooking, Track
  <2>2. run' \in [Runs -> RunRow]
    <3>1. CASE \E result \in {"failed", "waiting_approval", "completed"} : End(r, result)
      BY <3>1, <1>n, EndRuns
    <3>2. CASE Proceed(r) /\ \E stage \in Stages \ {"vessel_tracking"} : At(r, stage)
      BY <3>2, AtStage, ProceedRuns
    <3>3. (\E result \in {"failed", "waiting_approval", "completed"} : End(r, result))
          \/ (Proceed(r) /\ \E stage \in Stages \ {"vessel_tracking"} : At(r, stage))
      BY <1>1, <1>n DEF PassApproved, WaitForReviewer, RefuseAutoApprove, SkipSend, StopSend, StopBooking,
                        ReuseBooking, Track
    <3> QED BY <3>1, <3>2, <3>3
  <2> QED BY <2>1, <2>2, OnlyRun
<1>2. CASE AutoApprove(r)
  <2>1. run' \in [Runs -> RunRow] /\ inquiry' \in InquiryRow
    BY <1>2, <1>n, AtStage, AdvanceRuns DEF AutoApprove
  <2>2. UNCHANGED <<rfq, supplierQuote, bookings, rfqMailed, mailed, ordered, losses>>
        /\ SetQuote(LatestQuote, "approved") /\ RecordVerdict(LatestQuote, "approve")
    BY <1>2 DEF AutoApprove, worldVars
  <2>3. LatestQuote \in Quotes
    BY <1>2, LatestInTable DEF AutoApprove
  <2>4. DBTypeOK'
    BY <1>t, <1>n, <2>1, <2>2, <2>3, SetQuoteType, VerdictType, RowsHave, RowParts
  <2> QED BY <1>t, <2>1, <2>2, <2>4, TypeParts
<1>3. CASE Send(r)
  <2>1. run' \in [Runs -> RunRow] /\ inquiry' \in InquiryRow
    BY <1>3, <1>n, AtStage, AdvanceRuns DEF Send, MayMail
  <2>2. UNCHANGED <<rfq, supplierQuote, approvals, bookings, rfqMailed, ordered, losses>>
        /\ SetQuote(LatestQuote, "sent") /\ mailed' = [mailed EXCEPT ![LatestQuote] = @ + 1]
    BY <1>3 DEF Send
  <2>3. LatestQuote \in Quotes
    BY <1>3, LatestInTable DEF Send, MayMail
  <2>4. mailed' \in [Quotes -> Nat]
    BY <1>t, <2>2, <2>3 DEF DBTypeOK
  <2>5. DBTypeOK'
    BY <1>t, <1>n, <2>1, <2>2, <2>4, SetQuoteType, RowsHave, RowParts
  <2> QED BY <1>t, <2>1, <2>2, <2>5, TypeParts
<1>4. CASE Book(r)
  <2>1. run' \in [Runs -> RunRow] /\ inquiry' \in InquiryRow
    BY <1>4, <1>n, AtStage, AdvanceRuns DEF Book, MayOrder
  <2>2. UNCHANGED <<rfq, supplierQuote, quote, approvals, rfqMailed, mailed, losses>>
        /\ InsertBooking(LatestQuote) /\ ordered' = [ordered EXCEPT ![LatestQuote] = @ + 1]
    BY <1>4 DEF Book
  <2>3. LatestQuote \in Quotes
    BY <1>4, LatestInTable DEF Book, MayOrder
  <2>4. ordered' \in [Quotes -> Nat]
    BY <1>t, <2>2, <2>3 DEF DBTypeOK
  <2>5. DBTypeOK'
    BY <1>t, <2>1, <2>2, <2>3, <2>4, BookingType, RowsHave, RowParts
  <2> QED BY <1>t, <2>1, <2>2, <2>5, TypeParts
<1> QED BY <1>1, <1>2, <1>3, <1>4 DEF Gating, Closing

LEMMA LosingType ==
    ASSUME TypeOK, UNCHANGED production, NEW r \in Runs, Losing(r)
    PROVE  TypeOK'
<1>t. DBTypeOK /\ losses \in 0..MaxLosses /\ MaxLosses \in Nat
  BY RunBounds DEF TypeOK
<1>n. "none" \in Results
  BY DEF Results
<1>l. ASSUME Lose(r) PROVE losses' \in 0..MaxLosses /\ run' \in [Runs -> RunRow]
  BY <1>l, <1>t, <1>n, EndRuns DEF Lose
<1>1. CASE Die(r)
  BY <1>1, <1>n, EndRuns, OnlyRun DEF Die
<1>2. CASE LoseSend(r)
  <2>1. LatestQuote \in Quotes
    BY <1>2, LatestInTable DEF LoseSend, MayMail
  <2>2. mailed' \in [Quotes -> Nat]
    BY <1>2, <1>t, <2>1 DEF LoseSend, DBTypeOK
  <2>3. UNCHANGED <<inquiry, rfq, supplierQuote, quote, approvals, bookings, rfqMailed, ordered>> /\ Lose(r)
    BY <1>2 DEF LoseSend, dbVars
  <2>4. DBTypeOK'
    BY <1>t, <2>2, <2>3, RowsHave, RowParts
  <2> QED BY <1>l, <2>3, <2>4, TypeParts
<1>3. CASE LoseOrder(r)
  <2>1. LatestQuote \in Quotes
    BY <1>3, LatestInTable DEF LoseOrder, MayOrder
  <2>2. ordered' \in [Quotes -> Nat]
    BY <1>3, <1>t, <2>1 DEF LoseOrder, DBTypeOK
  <2>3. UNCHANGED <<inquiry, rfq, supplierQuote, quote, approvals, bookings, rfqMailed, mailed>> /\ Lose(r)
    BY <1>3 DEF LoseOrder, dbVars
  <2>4. DBTypeOK'
    BY <1>t, <2>2, <2>3, RowsHave, RowParts
  <2> QED BY <1>l, <2>3, <2>4, TypeParts
<1>4. ASSUME NEW x \in Rfqs, LoseRfq(r, x) PROVE TypeOK'
  <2>1. UNCHANGED <<inquiry, supplierQuote, quote, approvals, bookings, mailed, ordered>> /\ Lose(r)
        /\ InsertRfq(x) /\ rfqMailed' \in {rfqMailed, rfqMailed \cup {x}}
    BY <1>4 DEF LoseRfq
  <2>2. rfqMailed' \subseteq Rfqs
    BY <1>t, <2>1, RowsHave
  <2>3. DBTypeOK'
    BY <1>t, <2>1, <2>2, InsertRfqType, RowsHave, RowParts
  <2> QED BY <1>l, <2>1, <2>3, TypeParts
<1> QED BY <1>1, <1>2, <1>3, <1>4 DEF Losing

LEMMA OthersType ==
    ASSUME TypeOK, UNCHANGED production,
           \/ \E complete \in BOOLEAN : Patch(complete)
           \/ \E q \in Quotes, action \in {"approve", "reject"} : Review(q, action)
           \/ \E x \in Rfqs, p \in Suppliers, o \in SupplierQuotes : Answer(x, p, o)
    PROVE  TypeOK'
<1>t. DBTypeOK /\ inquiry \in InquiryRow /\ run \in [Runs -> RunRow] /\ losses \in 0..MaxLosses
  BY RowsHave DEF TypeOK, RunRow, Results
<1>1. ASSUME NEW complete \in BOOLEAN, Patch(complete) PROVE TypeOK'
  <2>1. inquiry' \in InquiryRow
    BY <1>1, <1>t, PatchType DEF Patch
  <2>2. UNCHANGED <<rfq, supplierQuote, quote, approvals, bookings, rfqMailed, mailed, ordered, run, losses>>
    BY <1>1 DEF Patch, worldVars
  <2>3. DBTypeOK'
    BY <1>t, <2>1, <2>2, RowsHave, RowParts
  <2> QED BY <1>t, <2>2, <2>3, TypeParts
<1>2. ASSUME NEW q \in Quotes, NEW action \in {"approve", "reject"}, Review(q, action) PROVE TypeOK'
  <2> DEFINE status == IF action = "approve" THEN "approved" ELSE "rejected"
  <2>1. status \in QuoteStatus /\ status \in InquiryStatus
    BY DEF QuoteStatus, InquiryStatus
  <2>2. SetQuote(q, status) /\ inquiry' = Advanced(inquiry.status, status) /\ RecordVerdict(q, action)
    BY <1>2 DEF Review
  <2>3. UNCHANGED <<rfq, supplierQuote, bookings, rfqMailed, mailed, ordered, run, losses>>
    BY <1>2 DEF Review, worldVars
  <2> HIDE DEF status
  <2>4. DBTypeOK'
    BY <1>t, <2>1, <2>2, <2>3, AdvancedType, SetQuoteType, VerdictType, RowsHave, RowParts
  <2> QED BY <1>t, <2>3, <2>4, TypeParts
<1>3. ASSUME NEW x \in Rfqs, NEW p \in Suppliers, NEW o \in SupplierQuotes, Answer(x, p, o) PROVE TypeOK'
  <2>1. UNCHANGED <<inquiry, quote, approvals, bookings, rfqMailed, mailed, ordered, run, losses>>
    BY <1>3 DEF Answer, worldVars
  <2>2. DBTypeOK'
    BY <1>3, <1>t, <2>1, AnswerType, RowsHave, RowParts DEF Answer
  <2> QED BY <1>t, <2>1, <2>2, TypeParts
<1> QED BY <1>1, <1>2, <1>3

LEMMA StepType == TypeOK /\ [Next]_vars => TypeOK'
<1> SUFFICES ASSUME TypeOK, [Next]_vars PROVE TypeOK'
  OBVIOUS
<1>1. CASE UNCHANGED vars
  <2>1. UNCHANGED <<dbVars, worldVars, losses, production, run>>
    BY <1>1 DEF vars, dbVars, worldVars
  <2>2. run' \in [Runs -> RunRow]
    BY <2>1 DEF TypeOK, RunRow, Results
  <2> QED BY <2>1, <2>2, OnlyRun
<1> QED BY <1>1, StartingType, QuotingType, ClosingType, LosingType, OthersType DEF Next

LEMMA InitType == Init => TypeOK
<1> SUFFICES ASSUME Init PROVE TypeOK
  OBVIOUS
<1>1. DBTypeOK
  BY InitRows DEF Init
<1>2. run \in [Runs -> RunRow]
  BY DEF Init, NoRun, RunRow, QuoteStatus, Results
<1>3. production \in BOOLEAN
  BY DEF Init
<1>4. losses \in 0..MaxLosses
  BY RunBounds DEF Init
<1> QED BY <1>1, <1>2, <1>3, <1>4 DEF TypeOK, RunRow, Results

\* Rows and runs keep their shapes: a run that gets as far as an effect of
\* app/services/orchestrator.py acts on a quotation or RFQ that exists.
THEOREM OrchestratorTypes == Spec => []TypeOK
  BY InitType, StepType, PTL DEF Spec

-----------------------------------------------------------------------------
(* What the rows and the runs rest on *)

Booked == \E q \in Quotes : bookings[q] > 0

\* Each fact about a quotation was preceded by the one before it.
RowsBacked ==
    \A q \in Quotes :
        /\ quote[q] \in {"approved", "sent"} => Approved(q)
        /\ quote[q] = "sent" => mailed[q] > 0
        /\ mailed[q] > 0 => Approved(q)
        /\ ordered[q] > 0 => mailed[q] > 0
        /\ bookings[q] > 0 => ordered[q] > 0

\* The quotation a run continues from may be older than the newest one, and
\* then what the run believes of it is never asked for; while it is the newest,
\* the belief is true.
HeldBacked(held, status) ==
    held # 0 =>
        /\ quote[held] # "absent"
        /\ held = LatestQuote =>
              /\ status \in {"approved", "sent"} => Approved(held)
              /\ status = "sent" => mailed[held] > 0

RunBacked(r) ==
    /\ HeldBacked(run[r].held, run[r].heldStatus)
    /\ run[r].result = "completed" => Booked

Backed == RowsBacked /\ \A r \in Runs : RunBacked(r)

\* Nothing that happened is undone.
Grows ==
    /\ approvals \subseteq approvals'
    /\ \A q \in Quotes : /\ mailed[q] > 0 => mailed'[q] > 0
                         /\ bookings[q] > 0 => bookings'[q] > 0
                         /\ quote[q] # "absent" => quote'[q] # "absent"

\* A row that was there and is the newest was the newest before.
LEMMA LatestStays ==
    ASSUME Grows, NEW q \in Quotes, quote[q] # "absent", q = LatestQuote'
    PROVE  q = LatestQuote
<1>1. KnownQuotes' \in SUBSET (1..MaxQuotes) /\ MaxQuotes \in Nat
  BY RowBounds DEF KnownQuotes, Quotes
<1>2. KnownQuotes' # {} => \A p \in KnownQuotes' : p <= Max(KnownQuotes')
  BY <1>1, MaxIsMember
<1>3. KnownQuotes \subseteq KnownQuotes' /\ q \in KnownQuotes
  BY DEF Grows, KnownQuotes
<1>4. \A p \in KnownQuotes : p <= LatestQuote'
  BY <1>2, <1>3 DEF LatestQuote
<1>5. LatestQuote \in KnownQuotes /\ q <= LatestQuote
  BY <1>3, LatestIsThere
<1>6. LatestQuote <= q
  BY <1>4, <1>5
<1>7. q \in Nat /\ LatestQuote \in Nat
  BY <1>5, RowBounds DEF KnownQuotes, Quotes
<1> QED BY <1>5, <1>6, <1>7

LEMMA HeldStays ==
    ASSUME Grows, NEW r \in Runs, HeldBacked(run[r].held, run[r].heldStatus),
           run[r].held \in Quotes \cup {0},
           run'[r].held = run[r].held, run'[r].heldStatus = run[r].heldStatus
    PROVE  HeldBacked(run[r].held, run[r].heldStatus)'
<1> DEFINE h == run[r].held
<1> SUFFICES ASSUME h # 0 PROVE HeldBacked(run[r].held, run[r].heldStatus)'
  BY DEF HeldBacked
<1>1. h \in Quotes /\ quote[h] # "absent" /\ quote'[h] # "absent"
  BY DEF HeldBacked, Grows
<1>2. h = LatestQuote' => h = LatestQuote
  BY <1>1, LatestStays
<1>3. (Approved(h) => Approved(run[r].held)') /\ (mailed[h] > 0 => mailed'[h] > 0)
  BY <1>1 DEF Grows, Approved
<1> QED BY <1>1, <1>2, <1>3 DEF HeldBacked

LEMMA BackedParts ==
    ASSUME TypeOK, Backed, Grows, RowsBacked', \A r \in Runs : run'[r] = run[r] \/ RunBacked(r)'
    PROVE  Backed'
<1>1. ASSUME NEW r \in Runs, run'[r] = run[r] PROVE RunBacked(r)'
  <2>1. RunBacked(r) /\ run[r].held \in Quotes \cup {0}
    BY RowOf DEF Backed, RunRow
  <2>2. HeldBacked(run[r].held, run[r].heldStatus)'
    BY <1>1, <2>1, HeldStays DEF RunBacked
  <2>3. (run[r].result = "completed" => Booked)'
    BY <1>1, <2>1 DEF RunBacked, Booked, Grows
  <2> QED BY <2>2, <2>3 DEF RunBacked
<1> QED BY <1>1 DEF Backed

\* Steps that write none of these rows.
LEMMA RowsRest ==
    ASSUME Backed, UNCHANGED <<quote, approvals, bookings, mailed, ordered>>
    PROVE  Grows /\ RowsBacked'
  BY DEF Grows, Backed, RowsBacked, Approved

LEMMA Moved ==
    ASSUME TypeOK, NEW r \in Runs, NEW new, run' = [run EXCEPT ![r] = new]
    PROVE  run'[r] = new /\ \A s \in Runs : s # r => run'[s] = run[s]
  BY DEF TypeOK

LEMMA ProceedBacked ==
    ASSUME TypeOK, Backed, Grows, NEW r \in Runs, Proceed(r)
    PROVE  \A s \in Runs : run'[s] = run[s] \/ RunBacked(s)'
<1> DEFINE new == [run[r] EXCEPT !.at = After(run[r].at)]
<1>1. run[r] \in RunRow /\ RunBacked(r)
  BY RowOf DEF Backed
<1>2. new.held = run[r].held /\ new.heldStatus = run[r].heldStatus /\ new.result = run[r].result
  BY <1>1 DEF RunRow
<1>3. run' = [run EXCEPT ![r] = new]
  BY DEF Proceed
<1> HIDE DEF new
<1>4. run'[r] = new /\ \A s \in Runs : s # r => run'[s] = run[s]
  BY <1>3, Moved
<1>5. HeldBacked(run[r].held, run[r].heldStatus)'
  BY <1>1, <1>2, <1>4, HeldStays DEF RunBacked, RunRow
<1>6. (run[r].result = "completed" => Booked)'
  BY <1>1, <1>2, <1>4 DEF RunBacked, Booked, Grows
<1> QED BY <1>4, <1>5, <1>6 DEF RunBacked

LEMMA EndBacked ==
    ASSUME TypeOK, NEW r \in Runs, NEW result, End(r, result), result = "completed" => Booked'
    PROVE  \A s \in Runs : run'[s] = run[s] \/ RunBacked(s)'
<1> DEFINE new == [NoRun EXCEPT !.result = result]
<1>1. new.held = 0 /\ new.result = result
  BY DEF NoRun
<1>2. run' = [run EXCEPT ![r] = new]
  BY DEF End
<1> HIDE DEF new
<1>3. run'[r] = new /\ \A s \in Runs : s # r => run'[s] = run[s]
  BY <1>2, Moved
<1>4. RunBacked(r)'
  BY <1>1, <1>3 DEF RunBacked, HeldBacked
<1> QED BY <1>3, <1>4

\* A run that believes its quotation sent has just sent the newest one.
LEMMA AdvanceBacked ==
    ASSUME TypeOK, Backed, Grows, NEW r \in Runs, NEW target, AdvanceOrFail(r, target),
           target = "sent" /\ run[r].held # 0 /\ run[r].held = LatestQuote'
             => Approved(run[r].held) /\ mailed'[run[r].held] > 0
    PROVE  \A s \in Runs : run'[s] = run[s] \/ RunBacked(s)'
<1>1. CASE ~CanTransition(run[r].seen, target)
  <2>1. End(r, "failed")
    BY <1>1 DEF AdvanceOrFail
  <2> QED BY <2>1, EndBacked
<1>2. CASE CanTransition(run[r].seen, target)
  <2> DEFINE new == [run[r] EXCEPT !.at = After(run[r].at), !.seen = target,
                         !.heldStatus = IF target = "sent" THEN "sent" ELSE run[r].heldStatus]
             h == run[r].held
  <2>1. run[r] \in RunRow /\ RunBacked(r) /\ run \in [Runs -> RunRow]
    BY RowOf DEF Backed, TypeOK, RunRow, Results
  <2>2. new.held = h /\ new.result = run[r].result
        /\ new.heldStatus = IF target = "sent" THEN "sent" ELSE run[r].heldStatus
    BY <2>1 DEF RunRow
  <2>3. run' = [run EXCEPT ![r] = new]
    BY <1>2, <2>1 DEF AdvanceOrFail
  <2> HIDE DEF new
  <2>4. run'[r] = new /\ \A s \in Runs : s # r => run'[s] = run[s]
    BY <2>3, Moved
  <2>5. HeldBacked(run[r].held, run[r].heldStatus)'
    <3>1. CASE target # "sent"
      BY <2>1, <2>2, <2>4, <3>1, HeldStays DEF RunBacked, RunRow
    <3>2. CASE target = "sent"
      <4>1. h # 0 => h \in Quotes /\ quote'[h] # "absent"
        BY <2>1 DEF RunBacked, HeldBacked, Grows, RunRow
      <4>2. h # 0 /\ h = LatestQuote' => Approved(run[r].held)' /\ mailed'[h] > 0
        BY <3>2, <4>1, <2>2, <2>4 DEF Grows, Approved
      <4> QED BY <2>2, <2>4, <4>1, <4>2 DEF HeldBacked
    <3> QED BY <3>1, <3>2
  <2>6. (run[r].result = "completed" => Booked)'
    BY <2>1, <2>2, <2>4 DEF RunBacked, Booked, Grows
  <2> QED BY <2>4, <2>5, <2>6 DEF RunBacked
<1> QED BY <1>1, <1>2

\* A run acts on a verdict or on a sending that happened.
LEMMA StatusIsBacked ==
    ASSUME TypeOK, Backed, NEW r \in Runs
    PROVE  /\ LatestStatus(r) # "absent" => LatestQuote \in Quotes
           /\ LatestStatus(r) \in {"approved", "sent"} => Approved(LatestQuote)
           /\ LatestStatus(r) = "sent" => mailed[LatestQuote] > 0
<1>1. RowsBacked /\ HeldBacked(run[r].held, run[r].heldStatus)
  BY DEF Backed, RunBacked
<1>2. LatestStatus(r) # "absent" => LatestQuote \in Quotes
  BY LatestInTable
<1>3. CASE LatestQuote = run[r].held
  BY <1>1, <1>2, <1>3 DEF LatestStatus, HeldBacked
<1>4. CASE LatestQuote # run[r].held
  BY <1>1, <1>2, <1>4 DEF LatestStatus, RowsBacked
<1> QED BY <1>2, <1>3, <1>4

LEMMA StartingBacked ==
    ASSUME TypeOK, Backed, NEW r \in Runs, Starting(r)
    PROVE  Backed'
<1>1. ASSUME NEW stage \in Stages, NEW auto \in BOOLEAN, NEW seed \in BOOLEAN, StartRun(r, stage, auto, seed)
      PROVE  Backed'
  <2> DEFINE new == [NoRun EXCEPT
                 !.at = stage, !.seen = inquiry.status, !.complete = inquiry.complete,
                 !.auto = auto, !.seed = seed]
  <2>1. new.held = 0 /\ new.result = "none"
    BY DEF NoRun
  <2>2. run' = [run EXCEPT ![r] = new] /\ UNCHANGED <<quote, approvals, bookings, mailed, ordered>>
    BY <1>1 DEF StartRun, dbVars, worldVars
  <2> HIDE DEF new
  <2>3. run'[r] = new /\ \A s \in Runs : s # r => run'[s] = run[s]
    BY <2>2, Moved
  <2>4. RunBacked(r)'
    BY <2>1, <2>3 DEF RunBacked, HeldBacked
  <2> QED BY <2>2, <2>3, <2>4, RowsRest, BackedParts
<1>2. ASSUME NEW q \in Quotes, Continue(r, q) PROVE Backed'
  <2> DEFINE new == [NoRun EXCEPT
                 !.at = "hitl_review", !.seen = inquiry.status, !.complete = inquiry.complete,
                 !.held = q, !.heldStatus = quote[q]]
  <2>1. new.held = q /\ new.heldStatus = quote[q] /\ new.result = "none"
    BY DEF NoRun
  <2>2. run' = [run EXCEPT ![r] = new] /\ UNCHANGED <<quote, approvals, bookings, mailed, ordered>>
        /\ quote[q] # "absent"
    BY <1>2 DEF Continue, dbVars, worldVars
  <2> HIDE DEF new
  <2>3. run'[r] = new /\ \A s \in Runs : s # r => run'[s] = run[s]
    BY <2>2, Moved
  <2>4. RowsBacked
    BY DEF Backed
  <2>5. HeldBacked(q, quote[q])
    BY <2>2, <2>4 DEF HeldBacked, RowsBacked
  <2>6. RowsBacked' /\ Grows
    BY <2>2, RowsRest
  <2>7. RunBacked(r)'
    BY <2>1, <2>2, <2>3, <2>6 DEF RunBacked, HeldBacked, RowsBacked
  <2> QED BY <2>2, <2>3, <2>6, <2>7, BackedParts
<1> QED BY <1>1, <1>2 DEF Starting

LEMMA QuotingBacked ==
    ASSUME TypeOK, Backed, NEW r \in Runs, Quoting(r)
    PROVE  Backed'
<1>1. ASSUME NEW q \in Quotes, Optimize(r, q) PROVE Backed'
  <2>1. UNCHANGED <<approvals, bookings, mailed, ordered>> /\ quote[q] = "absent"
        /\ quote' = [quote EXCEPT ![q] = "waiting_approval"]
    BY <1>1 DEF Optimize, worldVars, NextQuote, SetQuote
  <2>2. quote \in [Quotes -> QuoteStatus] /\ RowsBacked
    BY RowsHave DEF TypeOK, Backed
  <2>3. Grows /\ RowsBacked'
    BY <2>1, <2>2 DEF Grows, RowsBacked, Approved
  <2>4. AdvanceOrFail(r, "waiting_approval")
    BY <1>1 DEF Optimize
  <2> QED BY <2>3, <2>4, AdvanceBacked, BackedParts
<1>2. CASE ~\E q \in Quotes : Optimize(r, q)
  <2>1. UNCHANGED <<quote, approvals, bookings, mailed, ordered>>
    BY <1>2 DEF Quoting, Parse, Schedules, Rates, ReuseRfq, RefuseRfq, CreateRfq, SupplierQuotesStage, Seed,
                RefuseOptimize, dbVars, worldVars
  <2>2. \/ Proceed(r) \/ End(r, "failed") \/ End(r, "waiting_approval") \/ UNCHANGED run
        \/ AdvanceOrFail(r, "scheduled") \/ AdvanceOrFail(r, "waiting_supplier_quotes")
    BY <1>2 DEF Quoting, Parse, Schedules, Rates, ReuseRfq, RefuseRfq, CreateRfq, SupplierQuotesStage, Seed,
                RefuseOptimize
  <2>3. Grows /\ RowsBacked'
    BY <2>1, RowsRest
  <2>4. \A s \in Runs : run'[s] = run[s] \/ RunBacked(s)'
    BY <2>2, <2>3, ProceedBacked, EndBacked, AdvanceBacked
  <2> QED BY <2>3, <2>4, BackedParts
<1> QED BY <1>1, <1>2

LEMMA ClosingBacked ==
    ASSUME TypeOK, Backed, NEW r \in Runs, Gating(r) \/ Closing(r)
    PROVE  Backed'
<1>t. /\ quote \in [Quotes -> QuoteStatus] /\ mailed \in [Quotes -> Nat] /\ ordered \in [Quotes -> Nat]
      /\ bookings \in [Quotes -> Nat] /\ RowsBacked
  BY RowsHave DEF TypeOK, Backed
<1>1. CASE AutoApprove(r)
  <2> DEFINE q == LatestQuote
  <2>1. UNCHANGED <<bookings, mailed, ordered>> /\ quote' = [quote EXCEPT ![q] = "approved"]
        /\ approvals' = approvals \cup {[quote |-> q, action |-> "approve"]}
        /\ AdvanceOrFail(r, "approved")
    BY <1>1 DEF AutoApprove, worldVars, SetQuote, RecordVerdict
  <2> HIDE DEF q
  <2>2. Grows /\ RowsBacked'
    BY <1>t, <2>1 DEF Grows, RowsBacked, Approved
  <2> QED BY <2>1, <2>2, AdvanceBacked, BackedParts
<1>2. CASE Send(r)
  <2> DEFINE q == LatestQuote
  <2>1. q \in Quotes /\ Approved(q)
    BY <1>2, StatusIsBacked DEF Send, MayMail
  <2>2. UNCHANGED <<approvals, bookings, ordered>> /\ quote' = [quote EXCEPT ![q] = "sent"]
        /\ mailed' = [mailed EXCEPT ![q] = @ + 1] /\ AdvanceOrFail(r, "sent")
    BY <1>2 DEF Send, SetQuote
  <2>3. ASSUME NEW h \in Quotes, quote[h] # "absent", h = LatestQuote', Grows PROVE h = q
    BY <2>3, LatestStays
  <2> HIDE DEF q
  <2>4. \A p \in Quotes : (mailed[p] > 0 => mailed'[p] > 0) /\ (mailed'[p] > 0 => mailed[p] > 0 \/ p = q)
        /\ mailed'[q] > 0
    BY <1>t, <2>1, <2>2
  <2>5. Grows /\ RowsBacked'
    BY <1>t, <2>1, <2>2, <2>4 DEF Grows, RowsBacked, Approved
  <2>6. run[r].held # 0 => run[r].held \in Quotes /\ quote[run[r].held] # "absent"
    BY RowOf DEF Backed, RunBacked, HeldBacked, RunRow
  <2>7. run[r].held # 0 /\ run[r].held = LatestQuote' => Approved(run[r].held) /\ mailed'[run[r].held] > 0
    BY <2>1, <2>3, <2>4, <2>5, <2>6
  <2> QED BY <2>2, <2>5, <2>7, AdvanceBacked, BackedParts
<1>3. CASE Book(r)
  <2> DEFINE q == LatestQuote
  <2>1. q \in Quotes /\ mailed[q] > 0
    BY <1>3, StatusIsBacked DEF Book, MayOrder
  <2>2. UNCHANGED <<quote, approvals, mailed>> /\ ordered' = [ordered EXCEPT ![q] = @ + 1]
        /\ bookings' = [bookings EXCEPT ![q] = @ + 1] /\ AdvanceOrFail(r, "booked")
    BY <1>3 DEF Book, InsertBooking
  <2> HIDE DEF q
  <2>3. \A p \in Quotes : /\ ordered'[p] > 0 <=> ordered[p] > 0 \/ p = q
                          /\ bookings'[p] > 0 <=> bookings[p] > 0 \/ p = q
    BY <1>t, <2>1, <2>2
  <2>4. Grows /\ RowsBacked'
    BY <1>t, <2>1, <2>2, <2>3 DEF Grows, RowsBacked, Approved
  <2> QED BY <2>2, <2>4, AdvanceBacked, BackedParts
<1>4. CASE ~AutoApprove(r) /\ ~Send(r) /\ ~Book(r)
  <2>1. UNCHANGED <<quote, approvals, bookings, mailed, ordered>>
    BY <1>4 DEF Gating, Closing, PassApproved, WaitForReviewer, RefuseAutoApprove, SkipSend, StopSend, StopBooking,
                ReuseBooking, Track, dbVars, worldVars
  <2>2. \/ Proceed(r) \/ End(r, "failed") \/ End(r, "waiting_approval")
        \/ End(r, "completed") /\ Booked
    BY <1>4 DEF Gating, Closing, PassApproved, WaitForReviewer, RefuseAutoApprove, SkipSend, StopSend, StopBooking,
                ReuseBooking, Track, Booked
  <2>3. Grows /\ RowsBacked'
    BY <2>1, RowsRest
  <2>4. \A s \in Runs : run'[s] = run[s] \/ RunBacked(s)'
    BY <2>1, <2>2, <2>3, ProceedBacked, EndBacked DEF Booked
  <2> QED BY <2>3, <2>4, BackedParts
<1> QED BY <1>1, <1>2, <1>3, <1>4

LEMMA LosingBacked ==
    ASSUME TypeOK, Backed, NEW r \in Runs, Losing(r)
    PROVE  Backed'
<1>t. /\ mailed \in [Quotes -> Nat] /\ ordered \in [Quotes -> Nat] /\ RowsBacked
  BY RowsHave DEF TypeOK, Backed
<1>e. End(r, "none")
  BY DEF Losing, Die, Lose, LoseSend, LoseOrder, LoseRfq
<1>r. \A s \in Runs : run'[s] = run[s] \/ RunBacked(s)'
  BY <1>e, EndBacked
<1>1. CASE LoseSend(r)
  <2> DEFINE q == LatestQuote
  <2>1. q \in Quotes /\ Approved(q)
    BY <1>1, StatusIsBacked DEF LoseSend, MayMail
  <2>2. UNCHANGED <<quote, approvals, bookings, ordered>> /\ mailed' = [mailed EXCEPT ![q] = @ + 1]
    BY <1>1 DEF LoseSend, dbVars
  <2> HIDE DEF q
  <2>3. \A p \in Quotes : mailed'[p] > 0 <=> mailed[p] > 0 \/ p = q
    BY <1>t, <2>1, <2>2
  <2>4. Grows /\ RowsBacked'
    BY <1>t, <2>1, <2>2, <2>3 DEF Grows, RowsBacked, Approved
  <2> QED BY <1>r, <2>4, BackedParts
<1>2. CASE LoseOrder(r)
  <2> DEFINE q == LatestQuote
  <2>1. q \in Quotes /\ mailed[q] > 0
    BY <1>2, StatusIsBacked DEF LoseOrder, MayOrder
  <2>2. UNCHANGED <<quote, approvals, bookings, mailed>> /\ ordered' = [ordered EXCEPT ![q] = @ + 1]
    BY <1>2 DEF LoseOrder, dbVars
  <2> HIDE DEF q
  <2>3. \A p \in Quotes : ordered'[p] > 0 <=> ordered[p] > 0 \/ p = q
    BY <1>t, <2>1, <2>2
  <2>4. Grows /\ RowsBacked'
    BY <1>t, <2>1, <2>2, <2>3 DEF Grows, RowsBacked, Approved
  <2> QED BY <1>r, <2>4, BackedParts
<1>3. CASE Die(r) \/ \E x \in Rfqs : LoseRfq(r, x)
  <2>1. UNCHANGED <<quote, approvals, bookings, mailed, ordered>>
    BY <1>3 DEF Die, LoseRfq, dbVars, worldVars
  <2> QED BY <1>r, <2>1, RowsRest, BackedParts
<1> QED BY <1>1, <1>2, <1>3 DEF Losing

LEMMA OthersBacked ==
    ASSUME TypeOK, Backed,
           \/ \E complete \in BOOLEAN : Patch(complete)
           \/ \E q \in Quotes, action \in {"approve", "reject"} : Review(q, action)
           \/ \E x \in Rfqs, p \in Suppliers, o \in SupplierQuotes : Answer(x, p, o)
    PROVE  Backed'
<1>1. ASSUME NEW q \in Quotes, NEW action \in {"approve", "reject"}, Review(q, action) PROVE Backed'
  <2>1. UNCHANGED <<bookings, mailed, ordered, run>>
        /\ quote' = [quote EXCEPT ![q] = IF action = "approve" THEN "approved" ELSE "rejected"]
        /\ approvals' = approvals \cup {[quote |-> q, action |-> action]}
        /\ quote[q] = "waiting_approval"
    BY <1>1 DEF Review, worldVars, SetQuote, RecordVerdict
  <2>2. quote \in [Quotes -> QuoteStatus] /\ RowsBacked
    BY RowsHave DEF TypeOK, Backed
  <2>3. Grows /\ RowsBacked'
    BY <2>1, <2>2 DEF Grows, RowsBacked, Approved
  <2> QED BY <2>1, <2>3, BackedParts
<1>2. CASE \/ \E complete \in BOOLEAN : Patch(complete)
           \/ \E x \in Rfqs, p \in Suppliers, o \in SupplierQuotes : Answer(x, p, o)
  <2>1. UNCHANGED <<quote, approvals, bookings, mailed, ordered, run>>
    BY <1>2 DEF Patch, Answer, worldVars
  <2> QED BY <2>1, RowsRest, BackedParts
<1> QED BY <1>1, <1>2

LEMMA StepBacked == TypeOK /\ Backed /\ [Next]_vars => Backed'
<1> SUFFICES ASSUME TypeOK, Backed, [Next]_vars PROVE Backed'
  OBVIOUS
<1>1. CASE UNCHANGED vars
  <2>1. UNCHANGED <<quote, approvals, bookings, mailed, ordered, run>>
    BY <1>1 DEF vars
  <2> QED BY <2>1, RowsRest, BackedParts
<1> QED BY <1>1, StartingBacked, QuotingBacked, ClosingBacked, LosingBacked, OthersBacked DEF Next

LEMMA InitBacked == Init => Backed
  BY DEF Init, DBInit, NoRun, Backed, RowsBacked, RunBacked, HeldBacked

\* A run of run_pipeline that answers "completed" leaves behind a quotation
\* that was approved, mailed, ordered and booked.
THEOREM CompletionIsBooked == Spec => []CompletedIsBooked
<1>1. Backed => CompletedIsBooked
  BY DEF Backed, RowsBacked, RunBacked, Booked, CompletedIsBooked
<1> QED BY <1>1, InitType, StepType, InitBacked, StepBacked, PTL DEF Spec

-----------------------------------------------------------------------------
(* The human gate *)

LEMMA GateStep ==
    ASSUME TypeOK, Backed, [Next]_vars
    PROVE  [Gate!Next]_(Gate!gateVars)
<1>t. mailed \in [Quotes -> Nat] /\ ordered \in [Quotes -> Nat] /\ RowsBacked
  BY DEF TypeOK, DBTypeOK, Backed
<1> USE DEF Gate!gateVars
<1>u. ASSUME UNCHANGED <<approvals, mailed, ordered>> PROVE [Gate!Next]_(Gate!gateVars)
  BY <1>u DEF Approved
<1>a. ASSUME NEW q \in Quotes, RecordVerdict(q, "approve"), UNCHANGED <<mailed, ordered>>
      PROVE  [Gate!Next]_(Gate!gateVars)
  <2>1. {p \in Quotes : Approved(p)'} = {p \in Quotes : Approved(p)} \cup {q}
    BY <1>a DEF RecordVerdict, Approved
  <2>2. Gate!Approve(q)
    BY <2>1, <1>a DEF Gate!Approve
  <2> QED BY <2>2 DEF Gate!Next
<1>m. ASSUME NEW q \in Quotes, Approved(q), UNCHANGED <<approvals, ordered>>,
             mailed' = [mailed EXCEPT ![q] = @ + 1]
      PROVE  [Gate!Next]_(Gate!gateVars)
  <2>1. \A p \in Quotes : mailed'[p] > 0 <=> mailed[p] > 0 \/ p = q
    BY <1>m, <1>t
  <2>2. {p \in Quotes : mailed'[p] > 0} = {p \in Quotes : mailed[p] > 0} \cup {q}
    BY <1>m, <2>1
  <2>3. Gate!Mail(q)
    BY <1>m, <2>2 DEF Gate!Mail, Approved
  <2>4. Gate!Next
    BY <2>3 DEF Gate!Next, Gate!Mail, Gate!Order, Gate!Approve
  <2> QED BY <2>4
<1>o. ASSUME NEW q \in Quotes, mailed[q] > 0, UNCHANGED <<approvals, mailed>>,
             ordered' = [ordered EXCEPT ![q] = @ + 1]
      PROVE  [Gate!Next]_(Gate!gateVars)
  <2>1. \A p \in Quotes : ordered'[p] > 0 <=> ordered[p] > 0 \/ p = q
    BY <1>o, <1>t
  <2>2. {p \in Quotes : ordered'[p] > 0} = {p \in Quotes : ordered[p] > 0} \cup {q}
    BY <1>o, <2>1
  <2>3. Gate!Order(q)
    BY <1>o, <2>2 DEF Gate!Order, Approved
  <2>4. Gate!Next
    BY <2>3 DEF Gate!Next, Gate!Mail, Gate!Order, Gate!Approve
  <2> QED BY <2>4
<1>1. ASSUME NEW q \in Quotes, NEW action \in {"approve", "reject"}, Review(q, action)
      PROVE  [Gate!Next]_(Gate!gateVars)
  <2>1. UNCHANGED <<mailed, ordered>> /\ RecordVerdict(q, action)
    BY <1>1 DEF Review, worldVars
  <2>2. CASE action = "approve"
    BY <2>1, <2>2, <1>a
  <2>3. CASE action = "reject"
    <3>1. {p \in Quotes : Approved(p)'} = {p \in Quotes : Approved(p)}
      BY <2>1, <2>3 DEF RecordVerdict, Approved
    <3> QED BY <2>1, <3>1
  <2> QED BY <2>2, <2>3
<1>2. ASSUME NEW r \in Runs, AutoApprove(r) PROVE [Gate!Next]_(Gate!gateVars)
  <2>1. LatestQuote \in Quotes
    BY <1>2, StatusIsBacked DEF AutoApprove
  <2> QED BY <1>2, <2>1, <1>a DEF AutoApprove, worldVars
<1>3. ASSUME NEW r \in Runs, Send(r) \/ LoseSend(r) PROVE [Gate!Next]_(Gate!gateVars)
  <2>1. LatestQuote \in Quotes /\ Approved(LatestQuote)
    BY <1>3, StatusIsBacked DEF Send, LoseSend, MayMail
  <2>2. UNCHANGED <<approvals, ordered>> /\ mailed' = [mailed EXCEPT ![LatestQuote] = @ + 1]
    BY <1>3 DEF Send, LoseSend, dbVars
  <2> QED BY <2>1, <2>2, <1>m
<1>4. ASSUME NEW r \in Runs, Book(r) \/ LoseOrder(r) PROVE [Gate!Next]_(Gate!gateVars)
  <2>1. LatestQuote \in Quotes /\ mailed[LatestQuote] > 0
    BY <1>4, StatusIsBacked DEF Book, LoseOrder, MayOrder
  <2>2. UNCHANGED <<approvals, mailed>> /\ ordered' = [ordered EXCEPT ![LatestQuote] = @ + 1]
    BY <1>4 DEF Book, LoseOrder, dbVars
  <2> QED BY <2>1, <2>2, <1>o
<1>5. ASSUME NEW r \in Runs, Starting(r) \/ Quoting(r) PROVE [Gate!Next]_(Gate!gateVars)
  <2>1. UNCHANGED <<approvals, mailed, ordered>>
    BY <1>5 DEF Starting, StartRun, Continue, Quoting, Parse, Schedules, Rates, ReuseRfq, RefuseRfq, CreateRfq,
                SupplierQuotesStage, Seed, RefuseOptimize, Optimize, dbVars, worldVars
  <2> QED BY <2>1, <1>u
<1>6. ASSUME NEW r \in Runs, Gating(r) \/ Closing(r), ~AutoApprove(r), ~Send(r), ~Book(r)
      PROVE  [Gate!Next]_(Gate!gateVars)
  <2>1. UNCHANGED <<approvals, mailed, ordered>>
    BY <1>6 DEF Gating, Closing, PassApproved, WaitForReviewer, RefuseAutoApprove, SkipSend, StopSend,
                StopBooking, ReuseBooking, Track, dbVars, worldVars
  <2> QED BY <2>1, <1>u
<1>7. ASSUME NEW r \in Runs, Losing(r), ~LoseSend(r), ~LoseOrder(r) PROVE [Gate!Next]_(Gate!gateVars)
  <2>1. UNCHANGED <<approvals, mailed, ordered>>
    BY <1>7 DEF Losing, Die, LoseRfq, dbVars, worldVars
  <2> QED BY <2>1, <1>u
<1>8. ASSUME NEW complete \in BOOLEAN, Patch(complete) PROVE [Gate!Next]_(Gate!gateVars)
  BY <1>8, <1>u DEF Patch, worldVars
<1>9. ASSUME NEW x \in Rfqs, NEW p \in Suppliers, NEW o \in SupplierQuotes, Answer(x, p, o)
      PROVE  [Gate!Next]_(Gate!gateVars)
  BY <1>9, <1>u DEF Answer, worldVars
<1>10. CASE UNCHANGED vars
  BY <1>10, <1>u DEF vars
<1> QED BY <1>1, <1>2, <1>3, <1>4, <1>5, <1>6, <1>7, <1>8, <1>9, <1>10 DEF Next

\* The one-button pipeline implements the human gate, for any number of runs at
\* a time: started, continued or repeated at whatever stage, a run mails a
\* quotation after its approval and orders space after the quotation
\* (app/services/orchestrator.py, _quote_send_stage and _booking_stage).
THEOREM PipelineKeepsGate == Spec => Gated
<1>1. Init => Gate!Init
  BY DEF Init, DBInit, Gate!Init, Approved
<1> QED
  BY <1>1, InitType, StepType, InitBacked, StepBacked, GateStep, PTL DEF Spec, Gated, Gate!Spec

-----------------------------------------------------------------------------
(* One RFQ *)

\* An RFQ is created only where the look-up finds none, in the same step.
RfqAlone == \A x, y \in SentRfqs : x = y

LEMMA StepAlone == TypeOK /\ RfqAlone /\ [Next]_vars => RfqAlone'
<1> SUFFICES ASSUME TypeOK, RfqAlone, [Next]_vars PROVE RfqAlone'
  OBVIOUS
<1>t. rfq \in RfqRows
  BY RowsHave DEF TypeOK
<1>u. ASSUME UNCHANGED rfq PROVE RfqAlone'
  BY <1>u DEF RfqAlone, SentRfqs
<1>1. ASSUME NEW x \in Rfqs, ~HasRfq, InsertRfq(x) PROVE RfqAlone'
  BY <1>1, <1>t DEF RfqAlone, SentRfqs, HasRfq, InsertRfq, RfqRows
<1>2. ASSUME NEW x \in Rfqs, rfq[x].status # "absent", CountAnswer(x, rfq[x].received)
      PROVE  RfqAlone'
  <2>1. \A y \in Rfqs : rfq'[y].status # "absent" => rfq[y].status # "absent"
    BY <1>2, <1>t DEF CountAnswer, RfqRows
  <2> QED BY <2>1 DEF RfqAlone, SentRfqs
<1>3. ASSUME NEW r \in Runs, NEW x \in Rfqs, CreateRfq(r, x) \/ LoseRfq(r, x) PROVE RfqAlone'
  BY <1>3, <1>1 DEF CreateRfq, LoseRfq
<1>4. ASSUME NEW r \in Runs, NEW o \in SupplierQuotes, Seed(r, o) PROVE RfqAlone'
  BY <1>4, <1>2, LatestIsThere DEF Seed, SentRfqs
<1>5. ASSUME NEW x \in Rfqs, NEW p \in Suppliers, NEW o \in SupplierQuotes, Answer(x, p, o) PROVE RfqAlone'
  BY <1>5, <1>2 DEF Answer
<1>6. ASSUME NEW r \in Runs, Starting(r) \/ Quoting(r) \/ Gating(r) \/ Closing(r) \/ Losing(r),
             ~\E x \in Rfqs : CreateRfq(r, x) \/ LoseRfq(r, x), ~\E o \in SupplierQuotes : Seed(r, o)
      PROVE  RfqAlone'
  <2>1. UNCHANGED rfq
    BY <1>6 DEF Starting, StartRun, Continue, Quoting, Parse, Schedules, Rates, ReuseRfq, RefuseRfq,
                SupplierQuotesStage, RefuseOptimize, Optimize, Gating, PassApproved, WaitForReviewer, AutoApprove,
                RefuseAutoApprove, Closing, SkipSend, StopSend, Send, StopBooking, ReuseBooking, Book, Track,
                Losing, Die, LoseSend, LoseOrder, dbVars
  <2> QED BY <2>1, <1>u
<1>7. ASSUME NEW complete \in BOOLEAN, Patch(complete) PROVE RfqAlone'
  BY <1>7, <1>u DEF Patch
<1>8. ASSUME NEW q \in Quotes, NEW action \in {"approve", "reject"}, Review(q, action) PROVE RfqAlone'
  BY <1>8, <1>u DEF Review
<1>9. CASE UNCHANGED vars
  BY <1>9, <1>u DEF vars
<1> QED BY <1>3, <1>4, <1>5, <1>6, <1>7, <1>8, <1>9 DEF Next

\* One inquiry has one RFQ, wherever a run died and whatever stage the next one
\* started at (_rfq_stage), for runs that follow one another: a stage in one step
\* keeps the look-up and the insertion together, and two runs at once do not.
THEOREM RfqIsAlone == ASSUME \A s, t \in Runs : s = t PROVE Spec => []OneRfq
<1>1. Init => RfqAlone
  BY DEF Init, DBInit, RfqAlone, SentRfqs
<1>2. RfqAlone => OneRfq
  <2> SUFFICES ASSUME RfqAlone PROVE Cardinality(SentRfqs) <= 1
    BY DEF OneRfq
  <2>1. CASE SentRfqs = {}
    BY <2>1, FS_EmptySet
  <2>2. CASE SentRfqs # {}
    <3>1. PICK x \in SentRfqs : SentRfqs = {x}
      BY <2>2 DEF RfqAlone
    <3>2. Cardinality({x}) = 1
      BY FS_Singleton
    <3> QED BY <3>1, <3>2
  <2> QED BY <2>1, <2>2
<1> QED BY <1>1, <1>2, InitType, StepType, StepAlone, PTL DEF Spec

-----------------------------------------------------------------------------
(* One run at a time repeats no effect *)

\* Of each quotation: an e-mail for the row that says so, an order for the
\* booking, and one more of either for each crash.
Counted ==
    \A q \in Quotes :
        /\ mailed[q] <= (IF quote[q] = "sent" THEN 1 ELSE 0) + losses
        /\ ordered[q] <= bookings[q] + losses
        /\ bookings[q] <= 1

\* What a run believes of the newest quotation is not behind a sending, and the
\* runs that approve believe nothing.
RunFresh(r) ==
    /\ run[r].held # 0 =>
          /\ quote[run[r].held] # "absent"
          /\ run[r].held = LatestQuote /\ run[r].heldStatus = "approved" => quote[run[r].held] # "sent"
    /\ run[r].auto => run[r].held = 0

Once == Counted /\ \A r \in Runs : RunFresh(r)

\* Steps that send nothing, create quotations and let runs go on.
LEMMA FreshStays ==
    ASSUME TypeOK, NEW r \in Runs, RunFresh(r), Grows,
           \A q \in Quotes : quote'[q] = "sent" => quote[q] = "sent",
           run'[r].held = run[r].held, run'[r].heldStatus = run[r].heldStatus, run'[r].auto = run[r].auto
    PROVE  RunFresh(r)'
<1>1. run[r].held # 0 => run[r].held \in Quotes
  BY RowOf DEF RunRow
<1>2. ASSUME run[r].held # 0, run[r].held = LatestQuote' PROVE run[r].held = LatestQuote
  BY <1>1, <1>2, LatestStays DEF RunFresh
<1> QED BY <1>1, <1>2 DEF RunFresh, Grows

\* The rest of a step that a run takes and that sends nothing.
LEMMA RunGoesOn ==
    ASSUME TypeOK, \A s \in Runs : RunFresh(s), Grows, NEW r \in Runs, NEW target, target # "sent",
           \A q \in Quotes : quote'[q] = "sent" => quote[q] = "sent",
           Proceed(r) \/ (\E result : End(r, result)) \/ AdvanceOrFail(r, target)
    PROVE  \A s \in Runs : RunFresh(s)'
<1>1. run \in [Runs -> RunRow] /\ run[r] \in RunRow
  BY RowOf DEF TypeOK, RunRow, Results
<1>e. ASSUME NEW result, End(r, result) PROVE \A s \in Runs : RunFresh(s)'
  <2> DEFINE new == [NoRun EXCEPT !.result = result]
  <2>1. new.held = 0 /\ ~new.auto
    BY DEF NoRun
  <2>2. run' = [run EXCEPT ![r] = new]
    BY <1>e DEF End
  <2> HIDE DEF new
  <2>3. run'[r] = new /\ \A s \in Runs : s # r => run'[s] = run[s]
    BY <2>2, Moved
  <2>4. RunFresh(r)'
    BY <2>1, <2>3 DEF RunFresh
  <2>5. \A s \in Runs : s # r => RunFresh(s)'
    BY <2>3, FreshStays
  <2> QED BY <2>4, <2>5
<1>p. CASE Proceed(r) \/ (AdvanceOrFail(r, target) /\ CanTransition(run[r].seen, target))
  <2>1. \E at, seen, status : /\ run' = [run EXCEPT ![r].at = at, ![r].seen = seen, ![r].heldStatus = status]
                              /\ status = run[r].heldStatus
    <3>1. CASE Proceed(r)
      <4>1. [run EXCEPT ![r].at = After(run[r].at)]
              = [run EXCEPT ![r].at = After(run[r].at), ![r].seen = run[r].seen, ![r].heldStatus = run[r].heldStatus]
        BY <1>1 DEF RunRow
      <4>2. run' = [run EXCEPT ![r].at = After(run[r].at)]
        BY <3>1, <1>1 DEF Proceed
      <4> QED BY <4>1, <4>2
    <3>2. CASE AdvanceOrFail(r, target) /\ CanTransition(run[r].seen, target)
      <4>1. run' = [run EXCEPT ![r].at = After(run[r].at), ![r].seen = target, ![r].heldStatus = run[r].heldStatus]
        BY <3>2, <1>1 DEF AdvanceOrFail
      <4> QED BY <4>1
    <3> QED BY <1>p, <3>1, <3>2
  <2>2. PICK at, seen : run' = [run EXCEPT ![r].at = at, ![r].seen = seen, ![r].heldStatus = run[r].heldStatus]
    BY <2>1
  <2>3. \A s \in Runs : /\ run'[s].held = run[s].held /\ run'[s].heldStatus = run[s].heldStatus
                        /\ run'[s].auto = run[s].auto
    BY <2>2, <1>1 DEF RunRow
  <2> QED BY <2>3, FreshStays
<1> QED BY <1>e, <1>p DEF AdvanceOrFail

\* With a run at a time there is no other run to be behind.
LEMMA RunEnds ==
    ASSUME TypeOK, \A s, t \in Runs : s = t, NEW r \in Runs, NEW result, End(r, result)
    PROVE  \A s \in Runs : RunFresh(s)'
<1> DEFINE new == [NoRun EXCEPT !.result = result]
<1>1. new.held = 0 /\ ~new.auto
  BY DEF NoRun
<1>2. run' = [run EXCEPT ![r] = new]
  BY DEF End
<1> HIDE DEF new
<1>3. run'[r] = new
  BY <1>2, Moved
<1>4. RunFresh(r)'
  BY <1>1, <1>3 DEF RunFresh
<1> QED BY <1>4

LEMMA SendOnce ==
    ASSUME TypeOK, Backed, Once, \A s, t \in Runs : s = t, NEW r \in Runs, Send(r)
    PROVE  Once'
<1>t. mailed \in [Quotes -> Nat] /\ quote \in [Quotes -> QuoteStatus] /\ losses \in Nat
      /\ run \in [Runs -> RunRow] /\ run[r] \in RunRow
  BY RowsHave, RowOf, RunBounds DEF TypeOK, RunRow, Results
<1>1. LatestQuote \in Quotes /\ quote[LatestQuote] # "sent"
  BY StatusIsBacked DEF Send, MayMail, LatestStatus, Once, RunFresh
<1> DEFINE q == LatestQuote
<1>2. UNCHANGED <<bookings, ordered, losses>> /\ quote' = [quote EXCEPT ![q] = "sent"]
      /\ mailed' = [mailed EXCEPT ![q] = @ + 1] /\ AdvanceOrFail(r, "sent")
  BY DEF Send, SetQuote
<1> HIDE DEF q
<1>3. Counted'
  <2>1. ASSUME NEW p \in Quotes PROVE mailed'[p] <= (IF quote'[p] = "sent" THEN 1 ELSE 0) + losses'
    <3>1. mailed[p] <= (IF quote[p] = "sent" THEN 1 ELSE 0) + losses
      BY DEF Once, Counted
    <3>2. CASE p = q
      <4>1. mailed[q] <= losses /\ mailed'[q] = mailed[q] + 1 /\ quote'[q] = "sent"
        BY <1>t, <1>1, <1>2, <3>1, <3>2 DEF q
      <4> QED BY <1>t, <1>1, <1>2, <3>2, <4>1 DEF q
    <3>3. CASE p # q
      BY <1>t, <1>2, <3>1, <3>3
    <3> QED BY <3>2, <3>3
  <2> QED BY <1>2, <2>1 DEF Once, Counted
<1>4. \A s \in Runs : RunFresh(s)'
  <2>1. CASE ~CanTransition(run[r].seen, "sent")
    BY <1>2, <2>1, RunEnds DEF AdvanceOrFail
  <2>2. CASE CanTransition(run[r].seen, "sent")
    <3> DEFINE new == [run[r] EXCEPT !.at = After(run[r].at), !.seen = "sent", !.heldStatus = "sent"]
    <3>1. new.held = run[r].held /\ new.heldStatus = "sent" /\ new.auto = run[r].auto
      BY <1>t DEF RunRow
    <3>2. run' = [run EXCEPT ![r] = new]
      BY <1>t, <1>2, <2>2 DEF AdvanceOrFail
    <3> HIDE DEF new
    <3>3. run'[r] = new
      BY <3>2, Moved
    <3>4. run[r].held # 0 => quote'[run[r].held] # "absent"
      BY <1>t, <1>2 DEF Once, RunFresh, RunRow
    <3>5. RunFresh(r)'
      BY <3>1, <3>3, <3>4 DEF Once, RunFresh
    <3> QED BY <3>5
  <2> QED BY <2>1, <2>2
<1> QED BY <1>3, <1>4 DEF Once

\* Effects that are not committed are counted as losses.
LEMMA LoseOnce ==
    ASSUME TypeOK, Backed, Once, \A s, t \in Runs : s = t, NEW r \in Runs, Losing(r)
    PROVE  Once'
<1>t. mailed \in [Quotes -> Nat] /\ ordered \in [Quotes -> Nat] /\ bookings \in [Quotes -> Nat] /\ losses \in Nat
  BY RowsHave, RunBounds DEF TypeOK
<1>1. End(r, "none") /\ UNCHANGED <<quote, bookings>>
  BY DEF Losing, Die, Lose, LoseSend, LoseOrder, LoseRfq, dbVars
<1>2. \/ UNCHANGED <<mailed, ordered, losses>>
      \/ /\ losses' = losses + 1
         /\ \E q : mailed' = [mailed EXCEPT ![q] = @ + 1] \/ UNCHANGED mailed
         /\ \E q : ordered' = [ordered EXCEPT ![q] = @ + 1] \/ UNCHANGED ordered
  BY DEF Losing, Die, Lose, LoseSend, LoseOrder, LoseRfq, worldVars
<1>3. Counted'
  <2>1. CASE UNCHANGED <<mailed, ordered, losses>>
    BY <1>1, <2>1 DEF Once, Counted
  <2>2. ASSUME losses' = losses + 1, NEW q \in Quotes,
               mailed'[q] \in {mailed[q], mailed[q] + 1}, ordered'[q] \in {ordered[q], ordered[q] + 1}
        PROVE  /\ mailed'[q] <= (IF quote'[q] = "sent" THEN 1 ELSE 0) + losses'
               /\ ordered'[q] <= bookings'[q] + losses'
    <3>1. mailed[q] <= (IF quote[q] = "sent" THEN 1 ELSE 0) + losses /\ ordered[q] <= bookings[q] + losses
      BY DEF Once, Counted
    <3>2. mailed[q] \in Nat /\ ordered[q] \in Nat /\ bookings[q] \in Nat
      BY <1>t
    <3> QED BY <1>t, <1>1, <2>2, <3>1, <3>2
  <2>3. CASE /\ losses' = losses + 1
             /\ \E q : mailed' = [mailed EXCEPT ![q] = @ + 1] \/ UNCHANGED mailed
             /\ \E q : ordered' = [ordered EXCEPT ![q] = @ + 1] \/ UNCHANGED ordered
    <3>1. \A q \in Quotes : mailed'[q] \in {mailed[q], mailed[q] + 1} /\ ordered'[q] \in {ordered[q], ordered[q] + 1}
      BY <2>3, <1>t
    <3>2. \A q \in Quotes : bookings'[q] <= 1
      BY <1>1 DEF Once, Counted
    <3> QED BY <2>2, <2>3, <3>1, <3>2 DEF Counted
  <2> QED BY <1>2, <2>1, <2>3
<1>4. \A s \in Runs : RunFresh(s)'
  BY <1>1, RunEnds
<1> QED BY <1>3, <1>4 DEF Once

LEMMA ClosingOnce ==
    ASSUME TypeOK, Backed, Once, \A s, t \in Runs : s = t, NEW r \in Runs, Gating(r) \/ Closing(r)
    PROVE  Once'
<1>t. /\ mailed \in [Quotes -> Nat] /\ ordered \in [Quotes -> Nat] /\ bookings \in [Quotes -> Nat]
      /\ quote \in [Quotes -> QuoteStatus] /\ losses \in Nat
      /\ Counted /\ \A s \in Runs : RunFresh(s)
  BY RowsHave, RunBounds DEF TypeOK, Once
<1>1. CASE AutoApprove(r)
  <2> DEFINE q == LatestQuote
  <2>1. q \in Quotes /\ quote[q] = "waiting_approval"
    <3>1. LatestQuote \in Quotes /\ LatestQuote # run[r].held
      BY <1>1, <1>t, StatusIsBacked, RowBounds DEF AutoApprove, RunFresh, Quotes
    <3> QED BY <1>1, <3>1 DEF AutoApprove, LatestStatus
  <2>2. UNCHANGED <<bookings, mailed, ordered, losses>> /\ quote' = [quote EXCEPT ![q] = "approved"]
        /\ approvals' = approvals \cup {[quote |-> q, action |-> "approve"]} /\ AdvanceOrFail(r, "approved")
    BY <1>1 DEF AutoApprove, worldVars, SetQuote, RecordVerdict
  <2> HIDE DEF q
  <2>3. Grows /\ \A p \in Quotes : quote'[p] = "sent" <=> quote[p] = "sent"
    BY <1>t, <2>1, <2>2 DEF Grows
  <2>4. Counted'
    BY <1>t, <2>2, <2>3 DEF Counted
  <2>5. \A s \in Runs : RunFresh(s)'
    BY <1>t, <2>2, <2>3, RunGoesOn
  <2> QED BY <2>4, <2>5 DEF Once
<1>2. CASE Book(r)
  <2> DEFINE q == LatestQuote
  <2>1. q \in Quotes /\ bookings[q] = 0
    BY <1>2, StatusIsBacked DEF Book, MayOrder
  <2>2. UNCHANGED <<quote, approvals, mailed, losses>> /\ ordered' = [ordered EXCEPT ![q] = @ + 1]
        /\ bookings' = [bookings EXCEPT ![q] = @ + 1] /\ AdvanceOrFail(r, "booked")
    BY <1>2 DEF Book, InsertBooking
  <2> HIDE DEF q
  <2>3. ASSUME NEW p \in Quotes PROVE ordered'[p] <= bookings'[p] + losses' /\ bookings'[p] <= 1
    <3>1. ordered[p] <= bookings[p] + losses /\ bookings[p] <= 1
      BY <1>t DEF Counted
    <3>2. ordered[p] \in Nat /\ bookings[p] \in Nat
      BY <1>t
    <3>3. CASE p = q
      <4>1. ordered'[p] = ordered[p] + 1 /\ bookings[p] = 0 /\ bookings'[p] = 1 /\ losses' = losses
        BY <1>t, <2>1, <2>2, <3>3
      <4> QED BY <1>t, <3>1, <3>2, <4>1
    <3>4. CASE p # q
      BY <1>t, <2>2, <3>1, <3>4
    <3> QED BY <3>3, <3>4
  <2>4. Counted'
    BY <1>t, <2>2, <2>3 DEF Counted
  <2>5. Grows /\ \A p \in Quotes : quote'[p] = "sent" => quote[p] = "sent"
    BY <1>t, <2>1, <2>2 DEF Grows
  <2>6. \A s \in Runs : RunFresh(s)'
    BY <1>t, <2>2, <2>5, RunGoesOn
  <2> QED BY <2>4, <2>6 DEF Once
<1>3. CASE ~AutoApprove(r) /\ ~Send(r) /\ ~Book(r)
  <2>1. UNCHANGED <<quote, approvals, bookings, mailed, ordered, losses>>
    BY <1>3 DEF Gating, Closing, PassApproved, WaitForReviewer, RefuseAutoApprove, SkipSend, StopSend, StopBooking,
                ReuseBooking, Track, dbVars, worldVars
  <2>2. Proceed(r) \/ \E result : End(r, result)
    BY <1>3 DEF Gating, Closing, PassApproved, WaitForReviewer, RefuseAutoApprove, SkipSend, StopSend, StopBooking,
                ReuseBooking, Track
  <2>3. Counted' /\ Grows
    BY <1>t, <2>1 DEF Counted, Grows
  <2>4. \A s \in Runs : RunFresh(s)'
    <3>1. CASE Proceed(r)
      <4> DEFINE target == "booked"
      <4>1. target # "sent"
        OBVIOUS
      <4> HIDE DEF target
      <4> QED BY <1>t, <2>1, <2>3, <3>1, <4>1, RunGoesOn
    <3>2. CASE \E result : End(r, result)
      BY <3>2, RunEnds
    <3> QED BY <2>2, <3>1, <3>2
  <2> QED BY <2>3, <2>4 DEF Once
<1> QED BY <1>1, <1>2, <1>3, SendOnce

LEMMA QuotingOnce ==
    ASSUME TypeOK, Backed, Once, \A s, t \in Runs : s = t, NEW r \in Runs, Quoting(r)
    PROVE  Once'
<1>t. quote \in [Quotes -> QuoteStatus] /\ Counted /\ \A s \in Runs : RunFresh(s)
  BY RowsHave DEF TypeOK, Once
<1>1. UNCHANGED <<approvals, bookings, mailed, ordered, losses>>
      /\ (UNCHANGED quote \/ \E q \in Quotes : quote[q] = "absent" /\ quote' = [quote EXCEPT ![q] = "waiting_approval"])
  BY DEF Quoting, Parse, Schedules, Rates, ReuseRfq, RefuseRfq, CreateRfq, SupplierQuotesStage, Seed,
         RefuseOptimize, Optimize, NextQuote, SetQuote, dbVars, worldVars
<1>2. \A q \in Quotes : (quote'[q] = "sent" <=> quote[q] = "sent") /\ (quote[q] # "absent" => quote'[q] # "absent")
  BY <1>t, <1>1
<1>3. Grows /\ Counted'
  BY <1>t, <1>1, <1>2 DEF Grows, Counted
<1>4. \A s \in Runs : RunFresh(s)'
  <2>1. \/ UNCHANGED run
        \/ \E target \in {"scheduled", "waiting_supplier_quotes", "waiting_approval"} :
              Proceed(r) \/ (\E result : End(r, result)) \/ AdvanceOrFail(r, target)
    BY DEF Quoting, Parse, Schedules, Rates, ReuseRfq, RefuseRfq, CreateRfq, SupplierQuotesStage, Seed,
           RefuseOptimize, Optimize
  <2>2. CASE UNCHANGED run
    BY <1>t, <1>2, <1>3, <2>2, FreshStays
  <2>3. ASSUME NEW target \in {"scheduled", "waiting_supplier_quotes", "waiting_approval"},
               Proceed(r) \/ (\E result : End(r, result)) \/ AdvanceOrFail(r, target)
        PROVE  \A s \in Runs : RunFresh(s)'
    <3>1. target # "sent"
      OBVIOUS
    <3> QED BY <1>t, <1>2, <1>3, <2>3, <3>1, RunGoesOn
  <2> QED BY <2>1, <2>2, <2>3
<1> QED BY <1>3, <1>4 DEF Once

LEMMA OthersOnce ==
    ASSUME TypeOK, Once,
           \/ \E complete \in BOOLEAN : Patch(complete)
           \/ \E q \in Quotes, action \in {"approve", "reject"} : Review(q, action)
           \/ \E x \in Rfqs, p \in Suppliers, o \in SupplierQuotes : Answer(x, p, o)
           \/ UNCHANGED vars
    PROVE  Once'
<1>t. quote \in [Quotes -> QuoteStatus] /\ Counted /\ \A s \in Runs : RunFresh(s)
  BY RowsHave DEF TypeOK, Once
<1>1. UNCHANGED <<bookings, mailed, ordered, losses, run>> /\ approvals \subseteq approvals'
      /\ (UNCHANGED quote \/ \E q \in Quotes, status \in {"approved", "rejected"} :
                                quote[q] = "waiting_approval" /\ quote' = [quote EXCEPT ![q] = status])
  BY DEF Patch, Review, Answer, SetQuote, RecordVerdict, worldVars, vars
<1>2. \A q \in Quotes : (quote'[q] = "sent" <=> quote[q] = "sent") /\ (quote[q] # "absent" => quote'[q] # "absent")
  BY <1>t, <1>1
<1>3. Grows /\ Counted'
  BY <1>t, <1>1, <1>2 DEF Grows, Counted
<1>4. \A s \in Runs : RunFresh(s)'
  BY <1>t, <1>1, <1>2, <1>3, FreshStays
<1> QED BY <1>3, <1>4 DEF Once

LEMMA StartingOnce ==
    ASSUME TypeOK, Once, \A s, t \in Runs : s = t, NEW r \in Runs, Starting(r)
    PROVE  Once'
<1>1. Counted' /\ UNCHANGED quote
  BY DEF Starting, StartRun, Continue, dbVars, worldVars, Once, Counted
<1>2. ASSUME NEW stage \in Stages, NEW auto \in BOOLEAN, NEW seed \in BOOLEAN, StartRun(r, stage, auto, seed)
      PROVE  RunFresh(r)'
  <2> DEFINE new == [NoRun EXCEPT
                 !.at = stage, !.seen = inquiry.status, !.complete = inquiry.complete,
                 !.auto = auto, !.seed = seed]
  <2>1. new.held = 0
    BY DEF NoRun
  <2>2. run' = [run EXCEPT ![r] = new]
    BY <1>2 DEF StartRun
  <2> HIDE DEF new
  <2>3. run'[r] = new
    BY <2>2, Moved
  <2> QED BY <2>1, <2>3 DEF RunFresh
<1>3. ASSUME NEW q \in Quotes, Continue(r, q) PROVE RunFresh(r)'
  <2> DEFINE new == [NoRun EXCEPT
                 !.at = "hitl_review", !.seen = inquiry.status, !.complete = inquiry.complete,
                 !.held = q, !.heldStatus = quote[q]]
  <2>1. new.held = q /\ new.heldStatus = quote[q] /\ ~new.auto
    BY DEF NoRun
  <2>2. run' = [run EXCEPT ![r] = new] /\ quote[q] # "absent"
    BY <1>3 DEF Continue
  <2> HIDE DEF new
  <2>3. run'[r] = new
    BY <2>2, Moved
  <2> QED BY <1>1, <2>1, <2>2, <2>3 DEF RunFresh
<1>4. RunFresh(r)'
  BY <1>2, <1>3 DEF Starting
<1> QED BY <1>1, <1>4 DEF Once

\* When the runs of an inquiry follow one another, no quotation is mailed or
\* ordered a second time except after a crash between the effect and its commit,
\* and none has two bookings (run_pipeline may be repeated).
THEOREM EffectsAreCounted == ASSUME \A s, t \in Runs : s = t PROVE Spec => []EffectsOnce
<1>1. Init => Once
  BY DEF Init, DBInit, NoRun, Once, Counted, RunFresh
<1>2. TypeOK /\ Backed /\ Once /\ [Next]_vars => Once'
  <2> SUFFICES ASSUME TypeOK, Backed, Once, [Next]_vars PROVE Once'
    OBVIOUS
  <2> QED BY StartingOnce, QuotingOnce, ClosingOnce, LoseOnce, OthersOnce DEF Next
<1>3. TypeOK /\ Once => EffectsOnce
  <2> SUFFICES ASSUME TypeOK, Once, NEW q \in Quotes
               PROVE  mailed[q] <= 1 + losses /\ ordered[q] <= 1 + losses /\ bookings[q] <= 1
    BY DEF EffectsOnce
  <2>1. /\ mailed[q] <= (IF quote[q] = "sent" THEN 1 ELSE 0) + losses
        /\ ordered[q] <= bookings[q] + losses /\ bookings[q] <= 1
    BY DEF Once, Counted
  <2>2. mailed[q] \in Nat /\ ordered[q] \in Nat /\ bookings[q] \in Nat /\ losses \in Nat
    BY RowsHave, RunBounds DEF TypeOK
  <2> QED BY <2>1, <2>2
<1> QED BY <1>1, <1>2, <1>3, InitType, StepType, InitBacked, StepBacked, PTL DEF Spec

-----------------------------------------------------------------------------
(* In production one run at a time never moves an inquiry back *)

\* The statuses of an inquiry one of whose quotations may leave.
Committed == {"approved", "sent", "booked"}

\* What a run has seen of an inquiry that only reviewers and customers have
\* moved since.
Sees(seen, status) ==
    \/ seen = status
    \/ seen \in CONTENT_EDITABLE /\ status \in CONTENT_EDITABLE
    \/ seen = "waiting_approval" /\ status \in {"approved", "rejected"}

RunSees(r) ==
    /\ ~run[r].auto
    /\ run[r].at # "idle" => Sees(run[r].seen, inquiry.status)
    /\ run[r].heldStatus \in {"approved", "sent"} => inquiry.status \in Committed

\* A quotation with a verdict or an effect that only an approved inquiry has.
Decided(q) == quote[q] \in {"approved", "sent"} \/ mailed[q] > 0 \/ ordered[q] > 0

Guarded ==
    production => /\ \A r \in Runs : RunSees(r)
                  /\ \A q \in Quotes : Decided(q) => inquiry.status \in Committed

\* The moves of an inquiry in production.
Moves(a, b) ==
    \/ a = b
    \/ a \in CONTENT_EDITABLE /\ b \in CONTENT_EDITABLE \cup {"scheduled"}
    \/ a = "scheduled" /\ b = "waiting_supplier_quotes"
    \/ a \in {"waiting_supplier_quotes", "quote_ready"} /\ b = "waiting_approval"
    \/ a = "waiting_approval" /\ b \in {"approved", "rejected"}
    \/ a = "approved" /\ b = "sent"
    \/ a = "sent" /\ b = "booked"

LEMMA MovesForward ==
    ASSUME NEW a, NEW b, Moves(a, b)
    PROVE  /\ a \in Committed => b \in Committed
           /\ \A i, j \in DOMAIN HAPPY_PATH : a = HAPPY_PATH[i] /\ b = HAPPY_PATH[j] => i <= j
           /\ a \in {"rejected", "booked"} => b = a
<1>1. DOMAIN HAPPY_PATH = 1..7
  BY DEF HAPPY_PATH
<1>2. \A i, j \in 1..7 : a = HAPPY_PATH[i] /\ b = HAPPY_PATH[j] => i <= j
  BY DEF Moves, HAPPY_PATH, CONTENT_EDITABLE
<1>3. (a \in Committed => b \in Committed) /\ (a \in {"rejected", "booked"} => b = a)
  BY DEF Moves, Committed, CONTENT_EDITABLE
<1> QED BY <1>1, <1>2, <1>3

\* A run acts on a quotation of an inquiry that is approved.
LEMMA LatestDecided ==
    ASSUME TypeOK, production, Guarded, NEW r \in Runs, LatestStatus(r) \in {"approved", "sent"}
    PROVE  inquiry.status \in Committed
<1>1. LatestQuote \in Quotes
  BY LatestInTable
<1>2. RunSees(r) /\ (Decided(LatestQuote) => inquiry.status \in Committed)
  BY <1>1 DEF Guarded
<1>3. run[r].heldStatus \in {"approved", "sent"} \/ quote[LatestQuote] \in {"approved", "sent"}
  BY DEF LatestStatus
<1> QED BY <1>2, <1>3 DEF RunSees, Decided

\* A run at the end of its stage, going on, and ended.
LEMMA SeesOn ==
    ASSUME TypeOK, NEW r \in Runs, RunSees(r), inquiry' = inquiry,
           run[r].at # "idle",
           Proceed(r) \/ \E result : End(r, result)
    PROVE  RunSees(r)'
<1>t. run \in [Runs -> RunRow] /\ run[r] \in RunRow
  BY RowOf DEF TypeOK, RunRow, Results
<1>1. CASE Proceed(r)
  <2>1. run'[r].auto = run[r].auto /\ run'[r].seen = run[r].seen /\ run'[r].heldStatus = run[r].heldStatus
    BY <1>1, <1>t DEF Proceed, RunRow
  <2> QED BY <2>1 DEF RunSees
<1>2. ASSUME NEW result, End(r, result) PROVE RunSees(r)'
  <2>1. ~run'[r].auto /\ run'[r].at = "idle" /\ run'[r].heldStatus = "absent"
    BY <1>2, <1>t DEF End, NoRun
  <2> QED BY <2>1 DEF RunSees
<1> QED BY <1>1, <1>2

\* A stage that moves the inquiry moves it from where it is, although the run
\* goes by what it has seen.
LEMMA SeesMoved ==
    ASSUME TypeOK, NEW r \in Runs, RunSees(r), run[r].at # "idle",
           NEW target \in {"scheduled", "waiting_supplier_quotes", "waiting_approval", "sent", "booked"},
           AdvanceOrFail(r, target)
    PROVE  RunSees(r)' /\ Moves(inquiry.status, inquiry'.status)
<1>t. run \in [Runs -> RunRow] /\ run[r] \in RunRow /\ inquiry \in InquiryRow
  BY RowsHave, RowOf DEF TypeOK, RunRow, Results
<1>1. CASE ~CanTransition(run[r].seen, target)
  <2>1. inquiry' = inquiry /\ End(r, "failed")
    BY <1>1 DEF AdvanceOrFail
  <2> QED BY <2>1, SeesOn DEF Moves
<1>2. CASE CanTransition(run[r].seen, target)
  <2>1. /\ run'[r].auto = run[r].auto /\ run'[r].seen = target
        /\ run'[r].heldStatus = IF target = "sent" THEN "sent" ELSE run[r].heldStatus
        /\ inquiry' = Advanced(run[r].seen, target)
    BY <1>2, <1>t DEF AdvanceOrFail, RunRow
  <2>2. Sees(run[r].seen, inquiry.status)
    BY DEF RunSees
  <2>3. CASE run[r].seen = target
    <3>1. inquiry' = inquiry
      BY <2>1, <2>3 DEF Advanced
    <3>2. target = "sent" => inquiry.status = "sent"
      BY <2>2, <2>3 DEF Sees, CONTENT_EDITABLE
    <3> QED BY <2>1, <2>2, <2>3, <3>1, <3>2 DEF RunSees, Moves, Committed
  <2>4. CASE run[r].seen # target
    <3>1. inquiry'.status = target
      BY <2>1, <2>4, <1>t DEF Advanced, InquiryRow
    <3>2. run[r].seen \in InquiryStatus
      <4>1. run[r].seen \in InquiryStatus \cup {"none"} /\ inquiry.status \in InquiryStatus
        BY <1>t DEF RunRow, InquiryRow
      <4> QED BY <2>2, <4>1 DEF Sees, CONTENT_EDITABLE, InquiryStatus
    <3>3. \/ run[r].seen = "ready" /\ target = "scheduled"
          \/ run[r].seen = "scheduled" /\ target = "waiting_supplier_quotes"
          \/ run[r].seen \in {"waiting_supplier_quotes", "quote_ready"} /\ target = "waiting_approval"
          \/ run[r].seen = "approved" /\ target = "sent"
          \/ run[r].seen = "sent" /\ target = "booked"
      BY <1>2, <2>4, <3>2, Legal
    <3>4. Moves(inquiry.status, target)
      BY <2>2, <3>3 DEF Sees, Moves, CONTENT_EDITABLE
    <3>5. Sees(target, target) /\ (inquiry.status \in Committed => target \in Committed)
          /\ (target = "sent" => target \in Committed)
      BY <3>4, MovesForward DEF Sees, Committed
    <3> QED BY <2>1, <3>1, <3>4, <3>5 DEF RunSees
  <2> QED BY <2>3, <2>4
<1> QED BY <1>1, <1>2

LEMMA StartingGuarded ==
    ASSUME TypeOK, production, Guarded, NEW r \in Runs, Starting(r)
    PROVE  /\ RunSees(r)' /\ Moves(inquiry.status, inquiry'.status)
           /\ \A q \in Quotes : Decided(q)' => Decided(q)
<1>t. run \in [Runs -> RunRow]
  BY DEF TypeOK, RunRow, Results
<1>1. UNCHANGED <<dbVars, worldVars>>
  BY DEF Starting, StartRun, Continue
<1>2. ASSUME NEW stage \in Stages, NEW auto \in BOOLEAN, NEW seed \in BOOLEAN, StartRun(r, stage, auto, seed)
      PROVE  RunSees(r)'
  <2> DEFINE new == [NoRun EXCEPT
                 !.at = stage, !.seen = inquiry.status, !.complete = inquiry.complete,
                 !.auto = auto, !.seed = seed]
  <2>1. new.auto = auto /\ new.seen = inquiry.status /\ new.heldStatus = "absent"
    BY DEF NoRun
  <2>2. run' = [run EXCEPT ![r] = new] /\ ~auto
    BY <1>2 DEF StartRun
  <2> HIDE DEF new
  <2>3. run'[r] = new
    BY <2>2, Moved
  <2> QED BY <2>1, <2>2, <2>3, <1>1 DEF RunSees, Sees, dbVars
<1>3. ASSUME NEW q \in Quotes, Continue(r, q) PROVE RunSees(r)'
  <2> DEFINE new == [NoRun EXCEPT
                 !.at = "hitl_review", !.seen = inquiry.status, !.complete = inquiry.complete,
                 !.held = q, !.heldStatus = quote[q]]
  <2>1. new.auto = FALSE /\ new.seen = inquiry.status /\ new.heldStatus = quote[q]
    BY DEF NoRun
  <2>2. run' = [run EXCEPT ![r] = new]
    BY <1>3 DEF Continue
  <2> HIDE DEF new
  <2>3. run'[r] = new
    BY <2>2, Moved
  <2>4. quote[q] \in {"approved", "sent"} => inquiry.status \in Committed
    BY DEF Guarded, Decided
  <2> QED BY <2>1, <2>3, <2>4, <1>1 DEF RunSees, Sees, dbVars
<1> QED BY <1>1, <1>2, <1>3 DEF Starting, Moves, Decided, dbVars, worldVars

LEMMA QuotingGuarded ==
    ASSUME TypeOK, production, Guarded, NEW r \in Runs, Quoting(r)
    PROVE  /\ RunSees(r)' /\ Moves(inquiry.status, inquiry'.status)
           /\ \A q \in Quotes : Decided(q)' => Decided(q)
<1>t. quote \in [Quotes -> QuoteStatus] /\ RunSees(r) /\ run[r].at # "idle"
  BY RowsHave DEF TypeOK, Guarded, Quoting, Parse, Schedules, Rates, ReuseRfq, RefuseRfq, CreateRfq,
                  SupplierQuotesStage, Seed, RefuseOptimize, Optimize, At
<1>1. UNCHANGED <<mailed, ordered>>
      /\ (UNCHANGED quote \/ \E q \in Quotes : quote' = [quote EXCEPT ![q] = "waiting_approval"])
  BY DEF Quoting, Parse, Schedules, Rates, ReuseRfq, RefuseRfq, CreateRfq, SupplierQuotesStage, Seed,
         RefuseOptimize, Optimize, SetQuote, dbVars, worldVars
<1>2. \A q \in Quotes : Decided(q)' => Decided(q)
  BY <1>t, <1>1 DEF Decided
<1>3. \/ UNCHANGED <<run, inquiry>>
      \/ UNCHANGED inquiry /\ (Proceed(r) \/ \E result : End(r, result))
      \/ \E target \in {"scheduled", "waiting_supplier_quotes", "waiting_approval"} : AdvanceOrFail(r, target)
  BY DEF Quoting, Parse, Schedules, Rates, ReuseRfq, RefuseRfq, CreateRfq, SupplierQuotesStage, Seed,
         RefuseOptimize, Optimize, dbVars
<1>4. CASE UNCHANGED <<run, inquiry>>
  BY <1>t, <1>2, <1>4 DEF RunSees, Moves
<1>5. CASE UNCHANGED inquiry /\ (Proceed(r) \/ \E result : End(r, result))
  BY <1>t, <1>2, <1>5, SeesOn DEF Moves
<1>6. CASE \E target \in {"scheduled", "waiting_supplier_quotes", "waiting_approval"} : AdvanceOrFail(r, target)
  BY <1>t, <1>2, <1>6, SeesMoved
<1> QED BY <1>3, <1>4, <1>5, <1>6

\* In production nobody but a reviewer approves; what a run sends or orders is
\* a quotation of an approved inquiry.
LEMMA ClosingGuarded ==
    ASSUME TypeOK, production, Guarded, NEW r \in Runs, Gating(r) \/ Closing(r) \/ Losing(r)
    PROVE  /\ RunSees(r)' /\ Moves(inquiry.status, inquiry'.status)
           /\ \A q \in Quotes : Decided(q)' => Decided(q) \/ inquiry.status \in Committed
<1>t. RunSees(r) /\ run[r].at # "idle" /\ ~AutoApprove(r)
  BY DEF Guarded, RunSees, Gating, PassApproved, WaitForReviewer, AutoApprove, RefuseAutoApprove,
         Closing, SkipSend, StopSend, Send, MayMail, StopBooking, ReuseBooking, Book, MayOrder, Track,
         Losing, Die, LoseSend, LoseOrder, LoseRfq, At
<1>1. CASE Send(r) \/ Book(r)
  <2>1. inquiry.status \in Committed
    BY <1>1, LatestDecided DEF Send, MayMail, Book, MayOrder
  <2>2. AdvanceOrFail(r, "sent") \/ AdvanceOrFail(r, "booked")
    BY <1>1 DEF Send, Book
  <2> QED BY <1>t, <2>1, <2>2, SeesMoved
<1>2. CASE LoseSend(r) \/ LoseOrder(r)
  <2>1. inquiry.status \in Committed
    BY <1>2, LatestDecided DEF LoseSend, MayMail, LoseOrder, MayOrder
  <2>2. inquiry' = inquiry /\ End(r, "none")
    BY <1>2 DEF LoseSend, LoseOrder, Lose, dbVars
  <2> QED BY <1>t, <2>1, <2>2, SeesOn DEF Moves
<1>3. CASE ~Send(r) /\ ~Book(r) /\ ~LoseSend(r) /\ ~LoseOrder(r)
  <2>1. UNCHANGED <<inquiry, quote, mailed, ordered>> /\ (Proceed(r) \/ \E result : End(r, result))
    BY <1>t, <1>3 DEF Gating, PassApproved, WaitForReviewer, RefuseAutoApprove,
           Closing, SkipSend, StopSend, StopBooking, ReuseBooking, Track,
           Losing, Die, LoseRfq, Lose, dbVars, worldVars
  <2> QED BY <1>t, <2>1, SeesOn DEF Moves, Decided
<1> QED BY <1>1, <1>2, <1>3

LEMMA OthersGuarded ==
    ASSUME TypeOK, production, Guarded,
           \/ \E complete \in BOOLEAN : Patch(complete)
           \/ \E q \in Quotes, action \in {"approve", "reject"} : Review(q, action)
           \/ \E x \in Rfqs, p \in Suppliers, o \in SupplierQuotes : Answer(x, p, o)
           \/ UNCHANGED vars
    PROVE  /\ (\A r \in Runs : RunSees(r)') /\ Moves(inquiry.status, inquiry'.status)
           /\ \A q \in Quotes : Decided(q)' => Decided(q) \/ inquiry'.status \in Committed
<1>t. /\ inquiry \in InquiryRow /\ quote \in [Quotes -> QuoteStatus] /\ inquiry.status \in InquiryStatus
      /\ \A r \in Runs : RunSees(r)
  BY RowsHave DEF TypeOK, Guarded, InquiryRow
<1>u. UNCHANGED <<run, mailed, ordered>>
  BY DEF Patch, Review, Answer, vars, worldVars
<1>1. ASSUME NEW complete \in BOOLEAN, Patch(complete)
      PROVE  /\ (\A r \in Runs : RunSees(r)') /\ Moves(inquiry.status, inquiry'.status)
             /\ \A q \in Quotes : Decided(q)' => Decided(q)
  <2>1. \/ inquiry'.status = inquiry.status
        \/ inquiry.status \in CONTENT_EDITABLE /\ inquiry'.status \in CONTENT_EDITABLE
    BY <1>1 DEF Patch, DerivedInquiryStatus, CONTENT_EDITABLE
  <2>2. quote' = quote
    BY <1>1 DEF Patch
  <2>3. Moves(inquiry.status, inquiry'.status)
    BY <2>1 DEF Moves
  <2>4. \A r \in Runs : RunSees(r)'
    BY <1>t, <1>u, <2>1 DEF RunSees, Sees, Committed, CONTENT_EDITABLE
  <2> QED BY <1>u, <2>2, <2>3, <2>4 DEF Decided
<1>2. ASSUME NEW x \in Quotes, NEW action \in {"approve", "reject"}, Review(x, action)
      PROVE  /\ (\A r \in Runs : RunSees(r)') /\ Moves(inquiry.status, inquiry'.status)
             /\ \A q \in Quotes : Decided(q)' => Decided(q) \/ inquiry'.status \in Committed
  <2>1. PICK status \in {"approved", "rejected"} :
           /\ quote' = [quote EXCEPT ![x] = status]
           /\ CanTransition(inquiry.status, status)
           /\ inquiry' = Advanced(inquiry.status, status)
    BY <1>2 DEF Review, SetQuote
  <2>2. inquiry'.status = status /\ inquiry.status \in {status, "waiting_approval"}
    <3>1. inquiry.status \in {status, "waiting_approval"}
      BY <1>t, <2>1, Legal
    <3> QED BY <3>1, <2>1, <1>t DEF Advanced, InquiryRow
  <2>3. Moves(inquiry.status, inquiry'.status)
    BY <2>2 DEF Moves
  <2>4. inquiry.status \in Committed => inquiry'.status \in Committed
    BY <2>3, MovesForward
  <2>5. \A seen : Sees(seen, inquiry.status) => Sees(seen, inquiry'.status)
    BY <2>2 DEF Sees, CONTENT_EDITABLE
  <2>6. \A r \in Runs : RunSees(r)'
    BY <1>t, <1>u, <2>4, <2>5 DEF RunSees
  <2>7. \A q \in Quotes : quote'[q] \in {quote[q], status}
    BY <1>t, <2>1
  <2> QED BY <1>u, <2>2, <2>3, <2>6, <2>7 DEF Decided, Committed
<1>3. CASE UNCHANGED <<inquiry, quote>>
  BY <1>t, <1>u, <1>3 DEF RunSees, Moves, Decided
<1> QED BY <1>1, <1>2, <1>3 DEF Answer, vars

LEMMA StepGuarded ==
    ASSUME TypeOK, Guarded, production, \A s, t \in Runs : s = t, [Next]_vars
    PROVE  Guarded' /\ Moves(inquiry.status, inquiry'.status)
<1>1. ASSUME NEW r \in Runs, Starting(r) \/ Quoting(r) \/ Gating(r) \/ Closing(r) \/ Losing(r)
      PROVE  Guarded' /\ Moves(inquiry.status, inquiry'.status)
  <2>1. /\ RunSees(r)' /\ Moves(inquiry.status, inquiry'.status)
        /\ \A q \in Quotes : Decided(q)' => Decided(q) \/ inquiry.status \in Committed
    BY <1>1, StartingGuarded, QuotingGuarded, ClosingGuarded
  <2>2. inquiry.status \in Committed => inquiry'.status \in Committed
    BY <2>1, MovesForward
  <2>3. \A s \in Runs : RunSees(s)'
    BY <2>1
  <2> QED BY <2>1, <2>2, <2>3 DEF Guarded
<1>2. CASE \/ \E complete \in BOOLEAN : Patch(complete)
           \/ \E q \in Quotes, action \in {"approve", "reject"} : Review(q, action)
           \/ \E x \in Rfqs, p \in Suppliers, o \in SupplierQuotes : Answer(x, p, o)
           \/ UNCHANGED vars
  <2>1. /\ (\A r \in Runs : RunSees(r)') /\ Moves(inquiry.status, inquiry'.status)
        /\ \A q \in Quotes : Decided(q)' => Decided(q) \/ inquiry'.status \in Committed
    BY <1>2, OthersGuarded
  <2>2. inquiry.status \in Committed => inquiry'.status \in Committed
    BY <2>1, MovesForward
  <2> QED BY <2>1, <2>2 DEF Guarded
<1> QED BY <1>1, <1>2 DEF Next

LEMMA GuardedForever ==
    ASSUME \A s, t \in Runs : s = t
    PROVE  Spec => []Guarded
<1>1. Init => Guarded
  <2> SUFFICES ASSUME Init PROVE Guarded
    OBVIOUS
  <2>1. ASSUME NEW r \in Runs PROVE RunSees(r)
    BY DEF Init, NoRun, RunSees
  <2>2. \A q \in Quotes : ~Decided(q)
    BY DEF Init, DBInit, Decided
  <2> QED BY <2>1, <2>2 DEF Guarded
<1>2. TypeOK /\ Guarded /\ [Next]_vars => Guarded'
  <2> SUFFICES ASSUME TypeOK, Guarded, [Next]_vars, production' PROVE Guarded'
    BY DEF Guarded
  <2>1. production
    BY DEF Next, vars
  <2> QED BY <2>1, StepGuarded
<1> QED BY <1>1, <1>2, OrchestratorTypes, PTL DEF Spec

\* In production, with one run at a time, an inquiry never moves back on the
\* happy path and never leaves rejection or booking, although a run goes by the
\* status it read when it started while customers and reviewers move on.
THEOREM ProductionMovesForward ==
    ASSUME \A s, t \in Runs : s = t
    PROVE  Spec => NeverRewinds
<1> DEFINE Act == production =>
             /\ \A i, j \in DOMAIN HAPPY_PATH :
                   inquiry.status = HAPPY_PATH[i] /\ inquiry'.status = HAPPY_PATH[j] => i <= j
             /\ inquiry.status \in {"rejected", "booked"} => inquiry'.status = inquiry.status
<1>1. TypeOK /\ Guarded /\ [Next]_vars => [Act]_inquiry
  <2> SUFFICES ASSUME TypeOK, Guarded, [Next]_vars, production
               PROVE  /\ \A i, j \in DOMAIN HAPPY_PATH :
                            inquiry.status = HAPPY_PATH[i] /\ inquiry'.status = HAPPY_PATH[j] => i <= j
                      /\ inquiry.status \in {"rejected", "booked"} => inquiry'.status = inquiry.status
    OBVIOUS
  <2>1. Moves(inquiry.status, inquiry'.status)
    BY StepGuarded
  <2> QED BY <2>1, MovesForward
<1> QED BY <1>1, OrchestratorTypes, GuardedForever, PTL DEF Spec, NeverRewinds

\* Under the same conditions a rejection is final: no quotation of the inquiry
\* reached the customer or the carrier, nor will one.
THEOREM RejectionIsFinal ==
    ASSUME \A s, t \in Runs : s = t
    PROVE  Spec => []RejectedIsFinal
<1>1. TypeOK /\ Guarded => RejectedIsFinal
  <2> SUFFICES ASSUME TypeOK, Guarded, production, inquiry.status = "rejected", NEW q \in Quotes
               PROVE  mailed[q] = 0 /\ ordered[q] = 0
    BY DEF RejectedIsFinal
  <2>1. ~Decided(q)
    BY DEF Guarded, Committed
  <2>2. mailed[q] \in Nat /\ ordered[q] \in Nat
    BY RowsHave DEF TypeOK
  <2> QED BY <2>1, <2>2 DEF Decided
<1> QED BY <1>1, OrchestratorTypes, GuardedForever, PTL

=============================================================================
