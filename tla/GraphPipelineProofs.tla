-------------------------- MODULE GraphPipelineProofs --------------------------
(***************************************************************************)
(* Theorems of GraphPipeline, for any requests, suppliers, rows and bounds: *)
(* however the runs of an inquiry overlap, stop and resume, its rows and    *)
(* cursor keep their shape and are true of each other, the gate of          *)
(* ApprovalGate holds and effects are repeated a bounded number of times;   *)
(* while runs follow one another, a verdict given in between is of use and  *)
(* nothing leads back to a gate that has been passed.                       *)
(***************************************************************************)
EXTENDS GraphPipeline, FreightDBProofs, FiniteSetTheorems

-----------------------------------------------------------------------------
(* Shapes *)

Places == NODES \cup Awaiting \cup {"idle", "end"}

RunRow == [at : Places, seen : InquiryStatus \cup {"none"}, rfq : Rfqs \cup {0},
           quote : Quotes \cup {0}, synth : BOOLEAN, tracksOnly : BOOLEAN,
           node : NODES \cup {"none"}, result : HALT_STATUSES \cup {"completed", "none"}]

\* A run that failed did so at a node a request may start at, and one about to
\* mail, or past an effect, knows the row it is for.
Sound(row) ==
    /\ row.result = "failed" => row.node \in ENTRY_NODES
    /\ row.at = "mailing_rfq" => row.rfq # 0
    /\ row.at \in {"quote_mailed", "ordered"} => row.quote # 0

RunsOK == run \in [Runs -> RunRow] /\ \A r \in Runs : Sound(run[r])

Typed == GraphTypeOK /\ RunsOK

LEMMA NewestInTable ==
    ASSUME GraphTypeOK
    PROVE  /\ NewestRfq \in Rfqs \cup {0} /\ NewestQuote \in Quotes \cup {0}
           /\ \A r \in Runs : RunsOK => RfqId(r) \in Rfqs \cup {0} /\ QuoteId(r) \in Quotes \cup {0}
<1>1. NewestRfq \in Rfqs \cup {0}
  <2>1. Known \in SUBSET (1..MaxRfqs) /\ MaxRfqs \in Nat
    BY RowBounds DEF Known, Rfqs
  <2>2. Known # {} => Max(Known) \in Known
    BY <2>1, MaxIsMember
  <2> QED BY <2>1, <2>2 DEF NewestRfq, Rfqs
<1>2. NewestQuote \in Quotes \cup {0}
  <2>1. Priced \in SUBSET (1..MaxQuotes) /\ MaxQuotes \in Nat
    BY RowBounds DEF Priced, Quotes
  <2>2. Priced # {} => Max(Priced) \in Priced
    BY <2>1, MaxIsMember
  <2> QED BY <2>1, <2>2 DEF NewestQuote, Quotes
<1>3. ASSUME NEW r \in Runs, RunsOK PROVE run[r].rfq \in Rfqs \cup {0} /\ run[r].quote \in Quotes \cup {0}
  BY <1>3 DEF RunsOK, RunRow
<1> QED BY <1>1, <1>2, <1>3 DEF RfqId, QuoteId

LEMMA NoRunRow == NoRun \in RunRow /\ Sound(NoRun)
  BY DEF NoRun, RunRow, Places, Awaiting, NODES, Sound

\* A run becomes something else of its type, and the others stay.
LEMMA RunMoves ==
    ASSUME RunsOK, NEW r \in Runs, NEW new \in RunRow, Sound(new),
           run' = [run EXCEPT ![r] = new]
    PROVE  RunsOK'
  BY DEF RunsOK

LEMMA GotoRuns ==
    ASSUME RunsOK, NEW r \in Runs, NEW place \in NODES, Goto(r, place)
    PROVE  RunsOK'
<1> DEFINE new == [run[r] EXCEPT !.at = place, !.seen = "none",
                       !.quote = IF place = "vessel_tracking" THEN 0 ELSE run[r].quote]
<1>1. run[r] \in RunRow /\ Sound(run[r])
  BY DEF RunsOK
<1>2. new \in RunRow /\ Sound(new)
  <2>1. place \in Places /\ place \notin {"mailing_rfq", "quote_mailed", "ordered"}
    BY DEF Places, NODES
  <2> QED BY <1>1, <2>1 DEF RunRow, Sound
<1>3. run' = [run EXCEPT ![r] = new]
  BY DEF Goto, RunsOK
<1> HIDE DEF new
<1> QED BY <1>1, <1>2, <1>3, RunMoves

LEMMA HaltRuns ==
    ASSUME RunsOK, NEW r \in Runs, NEW node \in NODES, NEW result \in HALT_STATUSES \cup {"completed"},
           Halt(r, node, result), result = "failed" => node \in ENTRY_NODES
    PROVE  RunsOK'
<1> DEFINE new == [NoRun EXCEPT !.at = "end", !.tracksOnly = run[r].tracksOnly, !.node = node,
                                !.result = result]
<1>1. run[r].tracksOnly \in BOOLEAN
  BY DEF RunsOK, RunRow
<1>2. new \in RunRow /\ Sound(new)
  BY <1>1 DEF RunRow, NoRun, Places, NODES, Sound
<1>3. run' = [run EXCEPT ![r] = new]
  BY DEF Halt
<1> HIDE DEF new
<1> QED BY <1>2, <1>3, RunMoves

LEMMA AdvanceRuns ==
    ASSUME Typed, NEW r \in Runs, NEW seen, NEW target \in InquiryStatus,
           NEW node \in ENTRY_NODES, NEW next \in NODES, AdvanceOrFail(r, seen, target, node, next)
    PROVE  RunsOK' /\ inquiry' \in InquiryRow
<1>1. inquiry \in InquiryRow
  BY RowsHave DEF Typed, GraphTypeOK
<1>2. node \in NODES /\ "failed" \in HALT_STATUSES
  BY DEF ENTRY_NODES, HALT_STATUSES
<1>3. CASE CanTransition(seen, target)
  BY <1>1, <1>3, AdvancedType, GotoRuns DEF AdvanceOrFail, Typed
<1>4. CASE ~CanTransition(seen, target)
  BY <1>1, <1>2, <1>4, HaltRuns DEF AdvanceOrFail, Typed
<1> QED BY <1>3, <1>4

LEMMA IdleRuns ==
    ASSUME RunsOK, NEW r \in Runs, run' = [run EXCEPT ![r] = NoRun]
    PROVE  RunsOK'
  BY NoRunRow, RunMoves

CursorRow == [status : HALT_STATUSES \cup {"completed", "none"},
              node : ENTRY_NODES \cup {"none"}, booked : BOOLEAN]

LEMMA TypedParts ==
    ASSUME DBTypeOK', RunsOK', cursor' \in CursorRow, crashes' \in 0..MaxFailures,
           faults' \in 0..MaxFailures, overlapped' \in BOOLEAN
    PROVE  Typed'
  BY DEF Typed, GraphTypeOK, RunsOK, RunRow, Places, CursorRow

\* Steps after which the cursor, and what it counts, is what it was.
LEMMA TypedRest ==
    ASSUME Typed, UNCHANGED graphRest, DBTypeOK', RunsOK'
    PROVE  Typed'
<1>1. cursor' = cursor /\ crashes' = crashes /\ faults' = faults
  BY DEF graphRest
<1>2. overlapped' \in BOOLEAN
  BY Zenon DEF graphRest, Typed, GraphTypeOK
<1> QED BY <1>1, <1>2, TypedParts DEF Typed, GraphTypeOK, CursorRow

\* What a node awaits raises: the run ends at that node, and no row has changed.
LEMMA RaisedHalt ==
    ASSUME Typed, NEW r \in Runs, ProviderRaises(r)
    PROVE  /\ UNCHANGED <<dbVars, worldVars, cursor, crashes, overlapped>>
           /\ faults' = faults + 1 /\ faults' \in 0..MaxFailures
           /\ run[r].at \in {"searching", "mailing_rfq", "ordered"} \cup ENTRY_NODES
           /\ Awaited[run[r].at] \in ENTRY_NODES
           /\ Halt(r, Awaited[run[r].at], "failed")
<1>1. crashes \in 0..MaxFailures /\ faults \in 0..MaxFailures /\ MaxFailures \in Nat
  BY GraphBounds DEF Typed, GraphTypeOK
<1>2. \A at \in DOMAIN Awaited : at \in {"searching", "mailing_rfq", "ordered"} \cup ENTRY_NODES
                                /\ Awaited[at] \in ENTRY_NODES
  BY DEF Awaited, ENTRY_NODES, NODES
<1>3. crashes + faults < MaxFailures => faults + 1 \in 0..MaxFailures
  BY <1>1
<1>4. faults' = faults + 1 /\ crashes + faults < MaxFailures /\ run[r].at \in DOMAIN Awaited
  BY DEF ProviderRaises
<1>5. UNCHANGED <<dbVars, worldVars, cursor, crashes, overlapped>> /\ Halt(r, Awaited[run[r].at], "failed")
  BY DEF ProviderRaises
<1> QED BY <1>2, <1>3, <1>4, <1>5

LEMMA LaunchTyped ==
    ASSUME Typed, NEW r \in Runs, NEW node \in ENTRY_NODES, NEW requested, Launch(r, node, requested)
    PROVE  Typed'
<1> DEFINE new == [NoRun EXCEPT
            !.at = node, !.synth = (node \in Seeding /\ EffectiveShortcuts(requested)),
            !.tracksOnly = (node = "vessel_tracking")]
<1>1. new \in RunRow /\ Sound(new)
  <2>1. (node \in Seeding /\ EffectiveShortcuts(requested)) \in BOOLEAN
    OBVIOUS
  <2>2. (node = "vessel_tracking") \in BOOLEAN
    OBVIOUS
  <2> QED BY <2>1, <2>2 DEF RunRow, NoRun, Places, ENTRY_NODES, NODES, Sound
<1>2. run' = [run EXCEPT ![r] = new]
  BY DEF Launch
<1> HIDE DEF new
<1>3. RunsOK'
  BY <1>1, <1>2, RunMoves DEF Typed
<1>4. overlapped' \in BOOLEAN
  BY Zenon DEF Launch, Together
<1>5. DBTypeOK'
  BY RowsStay DEF Launch, Typed, GraphTypeOK
<1> QED BY <1>3, <1>4, <1>5, TypedParts DEF Launch, Typed, GraphTypeOK, CursorRow

LEMMA ResumeNodeType ==
    ASSUME NEW result \in HALT_STATUSES \cup {"completed", "none"}, NEW node,
           result = "failed" => node \in ENTRY_NODES
    PROVE  ResumeNode(result, node) \in ENTRY_NODES \cup {"none"}
<1>1. DOMAIN RESUME_POINTS = {"waiting_clarification", "waiting_supplier_quotes", "waiting_approval"}
  BY DEF RESUME_POINTS
<1>2. \A x \in DOMAIN RESUME_POINTS : RESUME_POINTS[x] \in ENTRY_NODES
  BY <1>1 DEF RESUME_POINTS, ENTRY_NODES, NODES
<1>3. CASE result \in DOMAIN RESUME_POINTS
  BY <1>2, <1>3 DEF ResumeNode
<1>4. CASE result = "failed"
  BY <1>1, <1>4 DEF ResumeNode
<1>5. CASE result \notin DOMAIN RESUME_POINTS /\ result # "failed"
  BY <1>5 DEF ResumeNode
<1> QED BY <1>3, <1>4, <1>5

\* A run begins or ends.
LEMMA RequestTyped ==
    ASSUME Typed, NEW r \in Runs, Requesting(r) \/ Ending(r)
    PROVE  Typed'
<1>t. /\ cursor \in CursorRow /\ crashes \in 0..MaxFailures /\ DBTypeOK /\ MaxFailures \in Nat
      /\ RunsOK /\ faults \in 0..MaxFailures
  BY GraphBounds DEF Typed, GraphTypeOK, CursorRow
<1>b. overlapped \in BOOLEAN
  BY DEF Typed, GraphTypeOK
<1>1. CASE ResumeGraph(r)
  <2>1. cursor.node \in ENTRY_NODES
    BY <1>1, <1>t DEF ResumeGraph, CursorRow
  <2> QED BY <1>1, <2>1, LaunchTyped DEF ResumeGraph
<1>2. ASSUME NEW node \in ENTRY_NODES, NEW requested \in {"unset", "yes", "no"},
             RunGraph(r, node, requested)
      PROVE  Typed'
  BY <1>2, LaunchTyped DEF RunGraph
<1>3. CASE Track(r)
  <2>1. "vessel_tracking" \in NODES
    BY DEF NODES
  <2> QED BY <1>3, <1>t, <2>1, HaltRuns, RowsStay, TypedRest DEF Track
<1>4. CASE TrackVessel(r) \/ Die(r)
  <2>1. crashes' \in 0..MaxFailures
    <3>1. crashes' = crashes + 1 /\ crashes + faults < MaxFailures
      BY <1>4 DEF TrackVessel, Die
    <3> QED BY <3>1, <1>t
  <2>2. run' = [run EXCEPT ![r] = NoRun] /\ cursor' = cursor /\ overlapped' = overlapped /\ faults' = faults
        /\ UNCHANGED <<dbVars, worldVars>>
    BY <1>4 DEF TrackVessel, Die
  <2>3. overlapped' \in BOOLEAN
    BY <1>b, <2>2
  <2> QED BY <1>t, <2>1, <2>2, <2>3, IdleRuns, RowsStay, TypedParts
<1>5. CASE Record(r)
  <2>1. run[r] \in RunRow /\ (run[r].result = "failed" => run[r].node \in ENTRY_NODES)
    BY <1>t DEF RunsOK, Sound
  <2>2. ResumeNode(run[r].result, run[r].node) \in ENTRY_NODES \cup {"none"}
    BY <2>1, ResumeNodeType DEF RunRow
  <2>3. (~run[r].tracksOnly) \in BOOLEAN
    OBVIOUS
  <2>4. cursor' \in CursorRow
    <3>1. cursor' = [status |-> run[r].result, node |-> ResumeNode(run[r].result, run[r].node),
                     booked |-> ~run[r].tracksOnly]
      BY <1>5 DEF Record
    <3> QED BY <2>1, <2>2, <2>3, <3>1 DEF CursorRow, RunRow
  <2>5. run' = [run EXCEPT ![r] = NoRun] /\ crashes' = crashes /\ overlapped' = overlapped /\ faults' = faults
        /\ UNCHANGED <<dbVars, worldVars>>
    BY <1>5 DEF Record
  <2>6. overlapped' \in BOOLEAN
    BY <1>b, <2>5
  <2> QED BY <1>t, <2>4, <2>5, <2>6, IdleRuns, RowsStay, TypedParts
<1>6. CASE ProviderRaises(r)
  <2>1. Awaited[run[r].at] \in NODES /\ "failed" \in HALT_STATUSES
    BY <1>6, RaisedHalt DEF ENTRY_NODES, HALT_STATUSES
  <2>2. RunsOK'
    BY <1>6, <1>t, <2>1, RaisedHalt, HaltRuns
  <2>3. DBTypeOK'
    BY <1>6, <1>t, RaisedHalt, RowsStay
  <2> QED BY <1>6, <1>t, <1>b, <2>2, <2>3, RaisedHalt, TypedParts
<1> QED BY <1>1, <1>2, <1>3, <1>4, <1>5, <1>6 DEF Requesting, Ending

\* The demo answers, as many as are new.
LEMMA SeedType ==
    ASSUME DBTypeOK, NEW x \in Rfqs, NEW seeded \in SUBSET Suppliers, SeedAnswers(x, seeded)
    PROVE  rfq' \in RfqRows /\ supplierQuote' \in AnswerRows
<1> DEFINE new == CASE seeded = {}      -> <<>>
                    [] seeded = {SeedA} -> <<SeedA>>
                    [] seeded = {SeedB} -> <<SeedB>>
                    [] OTHER            -> Seeds
           have == Cardinality({o \in SupplierQuotes : supplierQuote[o].rfq # 0})
<1>1. SeedA \in Suppliers /\ SeedB \in Suppliers
  BY GraphBounds
<1>2. Len(new) \in Nat /\ \A i \in DOMAIN new : new[i] \in Suppliers
  <2>1. CASE seeded = {}
    BY <2>1
  <2>2. CASE seeded # {} /\ seeded = {SeedA}
    BY <1>1, <2>2
  <2>3. CASE seeded # {} /\ seeded # {SeedA} /\ seeded = {SeedB}
    BY <1>1, <2>3
  <2>4. CASE seeded # {} /\ seeded # {SeedA} /\ seeded # {SeedB}
    BY <1>1, <2>4 DEF Seeds
  <2> QED BY <2>1, <2>2, <2>3, <2>4
<1>3. /\ supplierQuote' = [o \in SupplierQuotes |->
             IF o - have \in DOMAIN new THEN [rfq |-> x, from |-> new[o - have]] ELSE supplierQuote[o]]
      /\ rfq' = [rfq EXCEPT ![x] =
             [status   |-> IF new # <<>> /\ @.received + Len(new) >= Expected THEN "complete" ELSE @.status,
              received |-> @.received + Len(new)]]
  BY DEF SeedAnswers
<1> HIDE DEF new, have
<1>4. rfq' \in RfqRows
  BY <1>2, <1>3 DEF DBTypeOK, RfqRows, RfqStatus
<1>5. supplierQuote' \in AnswerRows
  <2>1. ASSUME NEW o \in SupplierQuotes
        PROVE  supplierQuote'[o] \in [rfq : Rfqs \cup {0}, from : Suppliers \cup {None}]
    <3>1. CASE o - have \in DOMAIN new
      <4>1. supplierQuote'[o] = [rfq |-> x, from |-> new[o - have]]
        BY <1>3, <3>1
      <4> QED BY <1>2, <3>1, <4>1
    <3>2. CASE o - have \notin DOMAIN new
      BY <1>3, <3>2 DEF DBTypeOK
    <3> QED BY <3>1, <3>2
  <2> QED BY <1>3, <2>1 DEF AnswerRows
<1> QED BY <1>4, <1>5

\* The nodes up to the supplier quotes.
LEMMA SourcingTyped ==
    ASSUME Typed, NEW r \in Runs, Sourcing(r)
    PROVE  Typed'
<1>t. /\ DBTypeOK /\ RunsOK /\ run[r] \in RunRow /\ inquiry \in InquiryRow
      /\ Sound(run[r])
  BY RowsHave DEF Typed, GraphTypeOK, RunsOK
<1>n. /\ NODES \cup Awaiting \subseteq Places
      /\ {"schedules", "rates", "rfq", "supplier_quotes", "optimize"} \subseteq ENTRY_NODES
      /\ {"searching", "drafting", "rfq_mailed"} \cap {"mailing_rfq", "quote_mailed", "ordered"} = {}
      /\ ENTRY_NODES \subseteq NODES /\ "clarify" \in NODES
      /\ {"waiting_clarification", "waiting_supplier_quotes", "failed"} \subseteq HALT_STATUSES
      /\ {"searching", "drafting", "mailing_rfq", "rfq_mailed"} \subseteq Awaiting
      /\ {"scheduled", "waiting_supplier_quotes"} \subseteq InquiryStatus
  BY DEF Places, ENTRY_NODES, NODES, HALT_STATUSES, Awaiting, InquiryStatus
<1>w. inquiry.status \in InquiryStatus
  BY <1>t DEF InquiryRow
<1>1. CASE Understand(r)
  <2>1. RunsOK'
    BY <1>1, <1>t, <1>n, GotoRuns DEF Understand
  <2> QED BY <1>1, <1>t, <2>1, RowsStay, TypedRest DEF Understand
<1>2. CASE Clarify(r)
  <2>1. RunsOK'
    BY <1>2, <1>t, <1>n, HaltRuns DEF Clarify
  <2> QED BY <1>2, <1>t, <2>1, RowsStay, TypedRest DEF Clarify
<1>3. CASE Schedules(r)
  <2>1. RunsOK'
    <3>1. CASE run' = [run EXCEPT ![r].at = "searching", ![r].seen = inquiry.status]
      <4> DEFINE new == [run[r] EXCEPT !.at = "searching", !.seen = inquiry.status]
      <4>1. new \in RunRow /\ Sound(new)
        BY <1>t, <1>n, <1>w DEF RunRow, Sound
      <4>2. run' = [run EXCEPT ![r] = new]
        BY <3>1, <1>t DEF RunsOK
      <4> HIDE DEF new
      <4> QED BY <1>t, <4>1, <4>2, RunMoves
    <3>2. CASE Halt(r, "schedules", "failed")
      BY <3>2, <1>t, <1>n, HaltRuns
    <3> QED BY <1>3, <3>1, <3>2 DEF Schedules
  <2> QED BY <1>3, <1>t, <2>1, RowsStay, TypedRest DEF Schedules
<1>4. CASE SaveSchedules(r)
  <2>1. RunsOK' /\ inquiry' \in InquiryRow
    BY <1>4, <1>n, AdvanceRuns DEF SaveSchedules
  <2>2. UNCHANGED <<rfq, supplierQuote, quote, approvals, bookings, rfqMailed, mailed, ordered>>
    BY <1>4 DEF SaveSchedules, rowsButInquiry, worldVars
  <2>3. DBTypeOK'
    BY <1>t, <2>1, <2>2, RowsHave, RowParts
  <2> QED BY <1>4, <2>1, <2>3, TypedRest DEF SaveSchedules
<1>5. CASE Rates(r)
  <2>1. RunsOK'
    BY <1>5, <1>t, <1>n, GotoRuns, HaltRuns DEF Rates
  <2> QED BY <1>5, <1>t, <2>1, RowsStay, TypedRest DEF Rates
<1>6. CASE ReuseRfq(r)
  <2> DEFINE new == [run[r] EXCEPT !.at = "supplier_quotes", !.rfq = NewestRfq]
  <2>1. new \in RunRow /\ Sound(new)
    BY <1>t, <1>n, NewestInTable DEF Typed, RunRow, Sound
  <2>2. run' = [run EXCEPT ![r] = new]
    BY <1>6, <1>t DEF ReuseRfq, RunsOK
  <2> HIDE DEF new
  <2>3. RunsOK'
    BY <1>t, <2>1, <2>2, RunMoves
  <2> QED BY <1>6, <1>t, <2>3, RowsStay, TypedRest DEF ReuseRfq
<1>7. CASE DraftRfq(r)
  <2>1. RunsOK'
    <3>1. CASE run' = [run EXCEPT ![r].at = "drafting", ![r].seen = inquiry.status]
      <4> DEFINE new == [run[r] EXCEPT !.at = "drafting", !.seen = inquiry.status]
      <4>1. new \in RunRow /\ Sound(new)
        BY <1>t, <1>n, <1>w DEF RunRow, Sound
      <4>2. run' = [run EXCEPT ![r] = new]
        BY <3>1, <1>t DEF RunsOK
      <4> HIDE DEF new
      <4> QED BY <1>t, <4>1, <4>2, RunMoves
    <3>2. CASE Halt(r, "rfq", "failed")
      BY <3>2, <1>t, <1>n, HaltRuns
    <3> QED BY <1>7, <3>1, <3>2 DEF DraftRfq
  <2> QED BY <1>7, <1>t, <2>1, RowsStay, TypedRest DEF DraftRfq
<1>8. ASSUME NEW x \in Rfqs, OpenRfq(r, x) PROVE Typed'
  <2> DEFINE new == [run[r] EXCEPT !.at = "mailing_rfq", !.rfq = x]
  <2>1. new \in RunRow /\ Sound(new)
    <3>1. x # 0
      BY DEF Rfqs
    <3> QED BY <1>t, <1>n, <3>1 DEF RunRow, Sound
  <2>2. run' = [run EXCEPT ![r] = new]
    BY <1>8, <1>t DEF OpenRfq, RunsOK
  <2> HIDE DEF new
  <2>3. RunsOK'
    BY <1>t, <2>1, <2>2, RunMoves
  <2>4. UNCHANGED <<inquiry, supplierQuote, quote, approvals, bookings, rfqMailed, mailed, ordered>>
    BY <1>8 DEF OpenRfq, worldVars
  <2>5. DBTypeOK'
    BY <1>8, <1>t, <2>4, InsertRfqType, RowsHave, RowParts DEF OpenRfq
  <2> QED BY <1>8, <2>3, <2>5, TypedRest DEF OpenRfq
<1>9. CASE MailRfq(r)
  <2> DEFINE new == [run[r] EXCEPT !.at = "rfq_mailed"]
  <2>1. new \in RunRow /\ Sound(new)
    BY <1>t, <1>n DEF RunRow, Sound
  <2>2. run' = [run EXCEPT ![r] = new]
    BY <1>9, <1>t DEF MailRfq, RunsOK
  <2> HIDE DEF new
  <2>3. RunsOK'
    BY <1>t, <2>1, <2>2, RunMoves
  <2>4. UNCHANGED <<inquiry, rfq, supplierQuote, quote, approvals, bookings, mailed, ordered>>
    BY <1>9 DEF MailRfq, dbVars
  <2>5. rfqMailed' \subseteq Rfqs
    <3>1. run[r].rfq \in Rfqs
      BY <1>9, <1>t DEF MailRfq, At, Sound, RunRow
    <3> QED BY <1>9, <1>t, <3>1, RowsHave DEF MailRfq
  <2>6. DBTypeOK'
    BY <1>t, <2>4, <2>5, RowsHave, RowParts
  <2> QED BY <1>9, <2>3, <2>6, TypedRest DEF MailRfq
<1>10. CASE CommitRfq(r)
  <2>1. RunsOK' /\ inquiry' \in InquiryRow
    BY <1>10, <1>n, AdvanceRuns DEF CommitRfq
  <2>2. UNCHANGED <<rfq, supplierQuote, quote, approvals, bookings, rfqMailed, mailed, ordered>>
    BY <1>10 DEF CommitRfq, rowsButInquiry, worldVars
  <2>3. DBTypeOK'
    BY <1>t, <2>1, <2>2, RowsHave, RowParts
  <2> QED BY <1>10, <2>1, <2>3, TypedRest DEF CommitRfq
<1>11. CASE SupplierQuotesNode(r)
  <2> DEFINE x == RfqId(r)
  <2>1. UNCHANGED <<inquiry, quote, approvals, bookings, rfqMailed, mailed, ordered>>
    BY <1>11 DEF SupplierQuotesNode, worldVars
  <2>2. x \in Rfqs \cup {0}
    BY <1>t, NewestInTable DEF Typed
  <2>3. ToSeed(r) \in SUBSET Suppliers
    BY GraphBounds DEF ToSeed
  <2>4. rfq' \in RfqRows /\ supplierQuote' \in AnswerRows
    <3>1. CASE x = 0
      BY <1>11, <1>t, <3>1, RowsHave DEF SupplierQuotesNode
    <3>2. CASE x # 0
      BY <1>11, <1>t, <2>2, <2>3, <3>2, SeedType DEF SupplierQuotesNode
    <3> QED BY <3>1, <3>2
  <2>5. RunsOK'
    <3>1. CASE run' = [run EXCEPT ![r].at = "optimize", ![r].synth = FALSE]
      <4> DEFINE new == [run[r] EXCEPT !.at = "optimize", !.synth = FALSE]
      <4>1. new \in RunRow /\ Sound(new)
        BY <1>t, <1>n DEF RunRow, Sound
      <4>2. run' = [run EXCEPT ![r] = new]
        BY <3>1, <1>t DEF RunsOK
      <4> HIDE DEF new
      <4> QED BY <1>t, <4>1, <4>2, RunMoves
    <3>2. CASE Halt(r, "supplier_quotes", "failed") \/ Halt(r, "supplier_quotes", "waiting_supplier_quotes")
      BY <3>2, <1>t, <1>n, HaltRuns
    <3> QED BY <1>11, <3>1, <3>2 DEF SupplierQuotesNode
  <2>6. DBTypeOK'
    BY <1>t, <2>1, <2>4, RowsHave, RowParts
  <2> QED BY <1>11, <2>5, <2>6, TypedRest DEF SupplierQuotesNode
<1>12. ASSUME NEW x \in Rfqs, DraftFails(r, x) PROVE Typed'
  <2>1. RunsOK'
    BY <1>12, <1>t, <1>n, HaltRuns DEF DraftFails
  <2>2. UNCHANGED <<inquiry, supplierQuote, quote, approvals, bookings, rfqMailed, mailed, ordered>>
        /\ UNCHANGED <<cursor, crashes, overlapped>> /\ faults' = faults + 1 /\ crashes + faults < MaxFailures
    BY <1>12 DEF DraftFails, worldVars
  <2>3. DBTypeOK'
    BY <1>12, <1>t, <2>2, InsertRfqType, RowsHave, RowParts DEF DraftFails
  <2>4. cursor \in CursorRow /\ crashes \in 0..MaxFailures /\ faults \in 0..MaxFailures /\ overlapped \in BOOLEAN
    BY DEF Typed, GraphTypeOK, CursorRow
  <2>5. faults' \in 0..MaxFailures
    BY <2>2, <2>4, GraphBounds
  <2> QED BY <2>1, <2>2, <2>3, <2>4, <2>5, TypedParts
<1> QED BY <1>1, <1>2, <1>3, <1>4, <1>5, <1>6, <1>7, <1>8, <1>9, <1>10, <1>11, <1>12 DEF Sourcing

\* The nodes from the comparison to the booking.
LEMMA QuotingTyped ==
    ASSUME Typed, NEW r \in Runs, Quoting(r)
    PROVE  Typed'
<1>t. /\ DBTypeOK /\ RunsOK /\ run[r] \in RunRow /\ inquiry \in InquiryRow
      /\ Sound(run[r])
  BY RowsHave DEF Typed, GraphTypeOK, RunsOK
<1>n. /\ NODES \cup Awaiting \subseteq Places
      /\ {"optimize", "hitl_review", "quote_send", "booking"} \subseteq ENTRY_NODES
      /\ {"hitl_review", "quote_send"} \cap {"mailing_rfq", "quote_mailed", "ordered"} = {}
      /\ {"quote_mailed", "ordered"} \cap {"mailing_rfq"} = {}
      /\ ENTRY_NODES \subseteq NODES /\ "vessel_tracking" \in NODES
      /\ {"waiting_approval", "failed"} \subseteq HALT_STATUSES
      /\ {"quote_mailed", "ordered"} \subseteq Awaiting
      /\ {"waiting_approval", "sent", "booked"} \subseteq InquiryStatus
      /\ {"waiting_approval", "sent"} \subseteq QuoteStatus
  BY DEF Places, ENTRY_NODES, NODES, HALT_STATUSES, Awaiting, InquiryStatus, QuoteStatus
<1>w. inquiry.status \in InquiryStatus
  BY <1>t DEF InquiryRow
<1>q. NewestQuote \in Quotes \cup {0} /\ QuoteId(r) \in Quotes \cup {0}
  BY <1>t, NewestInTable DEF Typed
<1>1. ASSUME NEW q \in Quotes, Optimize(r, q) PROVE Typed'
  <2>1. RunsOK' /\ inquiry' \in InquiryRow
    <3>1. CASE /\ inquiry' = Advanced(inquiry.status, "waiting_approval")
               /\ run' = [run EXCEPT ![r].at = "hitl_review", ![r].rfq = 0]
      <4> DEFINE new == [run[r] EXCEPT !.at = "hitl_review", !.rfq = 0]
      <4>1. new \in RunRow /\ Sound(new)
        BY <1>t, <1>n DEF RunRow, Sound
      <4>2. run' = [run EXCEPT ![r] = new]
        BY <3>1, <1>t DEF RunsOK
      <4> HIDE DEF new
      <4> QED BY <1>t, <1>n, <3>1, <4>1, <4>2, RunMoves, AdvancedType
    <3>2. CASE UNCHANGED inquiry /\ Halt(r, "optimize", "failed")
      BY <3>2, <1>t, <1>n, HaltRuns
    <3> QED BY <1>1, <3>1, <3>2 DEF Optimize
  <2>2. UNCHANGED <<rfq, supplierQuote, approvals, bookings, rfqMailed, mailed, ordered>>
    BY <1>1 DEF Optimize, worldVars
  <2>3. DBTypeOK'
    BY <1>1, <1>t, <1>n, <2>1, <2>2, SetQuoteType, RowsHave, RowParts DEF Optimize
  <2> QED BY <1>1, <2>1, <2>3, TypedRest DEF Optimize
<1>2. CASE RefuseOptimize(r)
  <2>1. RunsOK'
    BY <1>2, <1>t, <1>n, HaltRuns DEF RefuseOptimize
  <2> QED BY <1>2, <1>t, <2>1, RowsStay, TypedRest DEF RefuseOptimize
<1>3. CASE HitlReview(r)
  <2>1. RunsOK'
    <3>1. CASE run' = [run EXCEPT ![r].at = "quote_send", ![r].quote = NewestQuote]
      <4> DEFINE new == [run[r] EXCEPT !.at = "quote_send", !.quote = NewestQuote]
      <4>1. new \in RunRow /\ Sound(new)
        BY <1>t, <1>n, <1>q DEF RunRow, Sound
      <4>2. run' = [run EXCEPT ![r] = new]
        BY <3>1, <1>t DEF RunsOK
      <4> HIDE DEF new
      <4> QED BY <1>t, <4>1, <4>2, RunMoves
    <3>2. CASE Halt(r, "hitl_review", "failed") \/ Halt(r, "hitl_review", "waiting_approval")
      BY <3>2, <1>t, <1>n, HaltRuns
    <3> QED BY <1>3, <3>1, <3>2 DEF HitlReview
  <2> QED BY <1>3, <1>t, <2>1, RowsStay, TypedRest DEF HitlReview
<1>4. CASE MailQuote(r)
  <2> DEFINE new == [run[r] EXCEPT !.at = "quote_mailed", !.seen = inquiry.status, !.quote = QuoteId(r)]
  <2>0. QuoteId(r) # 0
    BY <1>4 DEF MailQuote, MayMail
  <2>1. new \in RunRow /\ Sound(new)
    BY <1>t, <1>n, <1>q, <1>w, <2>0 DEF RunRow, Sound
  <2>2. run' = [run EXCEPT ![r] = new]
    BY <1>4, <1>t DEF MailQuote, RunsOK
  <2> HIDE DEF new
  <2>3. RunsOK'
    BY <1>t, <2>1, <2>2, RunMoves
  <2>4. UNCHANGED <<inquiry, rfq, supplierQuote, quote, approvals, bookings, rfqMailed, ordered>>
    BY <1>4 DEF MailQuote, dbVars
  <2>5. mailed' \in [Quotes -> Nat]
    BY <1>4, <1>t, <1>q, <2>0 DEF MailQuote, DBTypeOK
  <2>6. DBTypeOK'
    BY <1>t, <2>4, <2>5, RowsHave, RowParts
  <2> QED BY <1>4, <2>3, <2>6, TypedRest DEF MailQuote
<1>5. CASE RefuseSend(r)
  <2>1. RunsOK'
    BY <1>5, <1>t, <1>n, HaltRuns DEF RefuseSend
  <2> QED BY <1>5, <1>t, <2>1, RowsStay, TypedRest DEF RefuseSend
<1>6. CASE CommitSend(r)
  <2>1. RunsOK' /\ inquiry' \in InquiryRow
    BY <1>6, <1>n, AdvanceRuns DEF CommitSend
  <2>2. UNCHANGED <<rfq, supplierQuote, approvals, bookings, rfqMailed, mailed, ordered>>
    BY <1>6 DEF CommitSend, worldVars
  <2>3. DBTypeOK'
    BY <1>6, <1>t, <1>n, <2>1, <2>2, SetQuoteType, RowsHave, RowParts DEF CommitSend
  <2> QED BY <1>6, <2>1, <2>3, TypedRest DEF CommitSend
<1>7. CASE RefuseBooking(r)
  <2>1. RunsOK'
    BY <1>7, <1>t, <1>n, HaltRuns DEF RefuseBooking
  <2> QED BY <1>7, <1>t, <2>1, RowsStay, TypedRest DEF RefuseBooking
<1>8. CASE ReuseBooking(r)
  <2>1. RunsOK'
    BY <1>8, <1>t, <1>n, GotoRuns DEF ReuseBooking
  <2> QED BY <1>8, <1>t, <2>1, RowsStay, TypedRest DEF ReuseBooking
<1>9. CASE OrderSpace(r)
  <2> DEFINE new == [run[r] EXCEPT !.at = "ordered", !.quote = QuoteId(r)]
  <2>0. QuoteId(r) # 0
    BY <1>9 DEF OrderSpace, MayOrder
  <2>1. new \in RunRow /\ Sound(new)
    BY <1>t, <1>n, <1>q, <2>0 DEF RunRow, Sound
  <2>2. run' = [run EXCEPT ![r] = new]
    BY <1>9, <1>t DEF OrderSpace, RunsOK
  <2> HIDE DEF new
  <2>3. RunsOK'
    BY <1>t, <2>1, <2>2, RunMoves
  <2>4. UNCHANGED <<inquiry, rfq, supplierQuote, quote, approvals, bookings, rfqMailed, mailed>>
    BY <1>9 DEF OrderSpace, dbVars
  <2>5. ordered' \in [Quotes -> Nat]
    BY <1>9, <1>t, <1>q, <2>0 DEF OrderSpace, DBTypeOK
  <2>6. DBTypeOK'
    BY <1>t, <2>4, <2>5, RowsHave, RowParts
  <2> QED BY <1>9, <2>3, <2>6, TypedRest DEF OrderSpace
<1>10. CASE CommitBooking(r)
  <2>1. RunsOK' /\ inquiry' \in InquiryRow
    BY <1>10, <1>n, AdvanceRuns DEF CommitBooking
  <2>2. UNCHANGED <<rfq, supplierQuote, quote, approvals, rfqMailed, mailed, ordered>>
    BY <1>10 DEF CommitBooking, worldVars
  <2>3. run[r].quote \in Quotes
    BY <1>10, <1>t DEF CommitBooking, At, Sound, RunRow
  <2>4. DBTypeOK'
    BY <1>10, <1>t, <2>1, <2>2, <2>3, BookingType, RowsHave, RowParts DEF CommitBooking
  <2> QED BY <1>10, <2>1, <2>4, TypedRest DEF CommitBooking
<1> QED BY <1>1, <1>2, <1>3, <1>4, <1>5, <1>6, <1>7, <1>8, <1>9, <1>10 DEF Quoting

\* Edits, verdicts and answers of others.
LEMMA OthersTyped ==
    ASSUME Typed,
           \/ \E complete \in BOOLEAN : Patch(complete)
           \/ \E q \in Quotes, action \in {"approve", "reject"} : Review(q, action)
           \/ \E x \in Rfqs, p \in Suppliers, o \in SupplierQuotes : Answer(x, p, o)
    PROVE  Typed'
<1>t. DBTypeOK /\ RunsOK /\ inquiry \in InquiryRow
  BY RowsHave DEF Typed, GraphTypeOK
<1>1. ASSUME NEW complete \in BOOLEAN, Patch(complete) PROVE Typed'
  <2>1. inquiry' \in InquiryRow
    BY <1>1, <1>t, PatchType DEF Patch
  <2>2. UNCHANGED <<rfq, supplierQuote, quote, approvals, bookings, rfqMailed, mailed, ordered, run>>
        /\ UNCHANGED graphRest
    BY <1>1 DEF Patch, rowsButInquiry, worldVars
  <2>3. DBTypeOK' /\ RunsOK'
    BY <1>t, <2>1, <2>2, RowsHave, RowParts DEF RunsOK
  <2> QED BY <2>2, <2>3, TypedRest
<1>2. ASSUME NEW q \in Quotes, NEW action \in {"approve", "reject"}, Review(q, action) PROVE Typed'
  <2> DEFINE status == IF action = "approve" THEN "approved" ELSE "rejected"
  <2>1. status \in QuoteStatus /\ status \in InquiryStatus
    BY DEF QuoteStatus, InquiryStatus
  <2>2. SetQuote(q, status) /\ inquiry' = Advanced(inquiry.status, status) /\ RecordVerdict(q, action)
    BY <1>2 DEF Review
  <2>3. UNCHANGED <<rfq, supplierQuote, bookings, rfqMailed, mailed, ordered, run>> /\ UNCHANGED graphRest
    BY <1>2 DEF Review, worldVars
  <2> HIDE DEF status
  <2>4. DBTypeOK' /\ RunsOK'
    BY <1>t, <2>1, <2>2, <2>3, AdvancedType, SetQuoteType, VerdictType, RowsHave, RowParts DEF RunsOK
  <2> QED BY <2>3, <2>4, TypedRest
<1>3. ASSUME NEW x \in Rfqs, NEW p \in Suppliers, NEW o \in SupplierQuotes, Answer(x, p, o) PROVE Typed'
  <2>1. UNCHANGED <<inquiry, quote, approvals, bookings, rfqMailed, mailed, ordered, run>>
        /\ UNCHANGED graphRest
    BY <1>3 DEF Answer, worldVars
  <2>2. DBTypeOK' /\ RunsOK'
    BY <1>3, <1>t, <2>1, AnswerType, RowsHave, RowParts DEF Answer, RunsOK
  <2> QED BY <2>1, <2>2, TypedRest
<1> QED BY <1>1, <1>2, <1>3

LEMMA StepTyped == Typed /\ [GraphNext]_vars => Typed'
<1> SUFFICES ASSUME Typed, [GraphNext]_vars PROVE Typed'
  OBVIOUS
<1>1. CASE UNCHANGED vars
  <2>1. UNCHANGED <<dbVars, worldVars, run>> /\ UNCHANGED graphRest
    BY <1>1 DEF vars, dbVars, worldVars, graphRest
  <2>2. DBTypeOK' /\ RunsOK'
    BY <2>1, RowsStay DEF Typed, GraphTypeOK, RunsOK
  <2> QED BY <2>1, <2>2, TypedRest
<1> QED BY <1>1, RequestTyped, SourcingTyped, QuotingTyped, OthersTyped DEF GraphNext

LEMMA InitTyped == GraphInit => Typed
<1> SUFFICES ASSUME GraphInit PROVE Typed
  OBVIOUS
<1>1. DBTypeOK
  BY InitRows DEF GraphInit
<1>2. RunsOK
  BY NoRunRow DEF GraphInit, RunsOK
<1>3. cursor \in CursorRow
  BY DEF GraphInit, NoCursor, CursorRow
<1>4. crashes \in 0..MaxFailures /\ faults \in 0..MaxFailures
  BY GraphBounds DEF GraphInit
<1>5. overlapped \in BOOLEAN
  BY DEF GraphInit
<1> QED BY <1>1, <1>2, <1>3, <1>4, <1>5 DEF Typed, GraphTypeOK, RunsOK, RunRow, Places, CursorRow

\* Rows, runs and cursor keep their shapes; in particular a cursor always names
\* a node a request may start at (app/graph/runner.py, resume_graph), because a
\* run only fails at such a node.
THEOREM GraphTypes == GraphSpec => []GraphTypeOK
<1>1. GraphSpec => []Typed
  BY InitTyped, StepTyped, PTL DEF GraphSpec
<1>2. Typed => GraphTypeOK
  BY DEF Typed
<1> QED BY <1>1, <1>2, PTL

-----------------------------------------------------------------------------
(* What the rows, the runs and the cursor rest on *)

Booked == \E q \in Quotes : bookings[q] > 0

\* Each fact about a quotation was preceded by the one before it.
RowsBacked ==
    \A q \in Quotes :
        /\ quote[q] \in {"approved", "sent"} => Approved(q)
        /\ quote[q] = "sent" => mailed[q] > 0
        /\ mailed[q] > 0 => Approved(q)
        /\ ordered[q] > 0 => mailed[q] > 0
        /\ bookings[q] > 0 => ordered[q] > 0

\* What a run is about to commit or report has happened.
RunBacked(r) ==
    /\ run[r].rfq # 0 => rfq[run[r].rfq].status # "absent"
    /\ At(r, "quote_mailed") => Approved(run[r].quote) /\ mailed[run[r].quote] > 0
    /\ At(r, "ordered") => ordered[run[r].quote] > 0
    /\ At(r, "vessel_tracking") /\ ~run[r].tracksOnly => Booked
    /\ run[r].result = "completed" /\ ~run[r].tracksOnly => Booked
    /\ run[r].result = "waiting_approval" => Priced # {}
    /\ run[r].result = "waiting_supplier_quotes" => Known # {}

CursorRests ==
    /\ cursor.status = "completed" /\ cursor.booked => Booked
    /\ cursor.status = "waiting_approval" => Priced # {}
    /\ cursor.status = "waiting_supplier_quotes" => Known # {}

Backed == RowsBacked /\ (\A r \in Runs : RunBacked(r)) /\ CursorRests

\* Nothing that happened is undone.
Grows ==
    /\ approvals \subseteq approvals'
    /\ \A q \in Quotes : /\ mailed[q] > 0 => mailed'[q] > 0
                         /\ ordered[q] > 0 => ordered'[q] > 0
                         /\ bookings[q] > 0 => bookings'[q] > 0
                         /\ quote[q] # "absent" => quote'[q] # "absent"
    /\ \A x \in Rfqs : rfq[x].status # "absent" => rfq'[x].status # "absent"

LEMMA Monotone ==
    ASSUME Grows
    PROVE  (Booked => Booked') /\ (Priced # {} => Priced' # {}) /\ (Known # {} => Known' # {})
  BY DEF Grows, Booked, Priced, Known

LEMMA BackedParts ==
    ASSUME Typed, Backed, Grows, RowsBacked',
           \A r \in Runs : run'[r] = run[r] \/ RunBacked(r)',
           cursor' = cursor \/ CursorRests'
    PROVE  Backed'
<1>1. ASSUME NEW r \in Runs, run'[r] = run[r] PROVE RunBacked(r)'
  <2>1. RunBacked(r) /\ run[r] \in RunRow /\ Sound(run[r])
    BY DEF Backed, Typed, RunsOK
  <2>2. run[r].rfq \in Rfqs \cup {0} /\ run[r].quote \in Quotes \cup {0}
    BY <2>1 DEF RunRow
  <2>3. (run[r].rfq # 0 => rfq[run[r].rfq].status # "absent")'
    BY <1>1, <2>1, <2>2 DEF RunBacked, Grows
  <2>4. (At(r, "quote_mailed") => Approved(run[r].quote) /\ mailed[run[r].quote] > 0)'
        /\ (At(r, "ordered") => ordered[run[r].quote] > 0)'
    BY <1>1, <2>1, <2>2 DEF RunBacked, Grows, At, Approved, Sound
  <2>5. /\ (At(r, "vessel_tracking") /\ ~run[r].tracksOnly => Booked)'
        /\ (run[r].result = "completed" /\ ~run[r].tracksOnly => Booked)'
        /\ (run[r].result = "waiting_approval" => Priced # {})'
        /\ (run[r].result = "waiting_supplier_quotes" => Known # {})'
    BY <1>1, <2>1, Monotone DEF RunBacked, At
  <2> QED BY <2>3, <2>4, <2>5 DEF RunBacked
<1>2. CursorRests'
  BY Monotone DEF Backed, CursorRests
<1> QED BY <1>1, <1>2 DEF Backed

\* Steps that only move runs.
LEMMA RowsRest ==
    ASSUME Typed, Backed, UNCHANGED <<dbVars, worldVars>>
    PROVE  Grows /\ RowsBacked'
  BY DEF Grows, Backed, RowsBacked, dbVars, worldVars, Approved

LEMMA RowsRestInquiry ==
    ASSUME Typed, Backed, UNCHANGED <<rfq, supplierQuote, quote, approvals, bookings, rfqMailed, mailed, ordered>>
    PROVE  Grows /\ RowsBacked'
  BY DEF Grows, Backed, RowsBacked, Approved

LEMMA Moved ==
    ASSUME Typed, NEW r \in Runs, NEW new, run' = [run EXCEPT ![r] = new]
    PROVE  run'[r] = new /\ \A s \in Runs : s # r => run'[s] = run[s]
  BY DEF Typed, RunsOK

\* A run that moves on to a node that waits for no effect it has had.
LEMMA GoneOn ==
    ASSUME Typed, Backed, Grows, NEW r \in Runs, NEW new, run' = [run EXCEPT ![r] = new],
           new.rfq # 0 => rfq'[new.rfq].status # "absent",
           new.at \notin {"quote_mailed", "ordered"}, new.tracksOnly = run[r].tracksOnly,
           new.result = run[r].result,
           new.at = "vessel_tracking" /\ ~new.tracksOnly => Booked'
    PROVE  \A s \in Runs : run'[s] = run[s] \/ RunBacked(s)'
<1>1. run'[r] = new /\ \A s \in Runs : s # r => run'[s] = run[s]
  BY Moved
<1>2. RunBacked(r)
  BY DEF Backed
<1>3. /\ run[r].result = "completed" /\ ~run[r].tracksOnly => Booked'
      /\ run[r].result = "waiting_approval" => Priced' # {}
      /\ run[r].result = "waiting_supplier_quotes" => Known' # {}
  BY <1>2, Monotone DEF RunBacked
<1>4. RunBacked(r)'
  BY <1>1, <1>3 DEF RunBacked, At
<1> QED BY <1>1, <1>4

LEMMA GotoBacked ==
    ASSUME Typed, Backed, Grows, NEW r \in Runs, NEW place \in NODES, Goto(r, place),
           place = "vessel_tracking" /\ ~run[r].tracksOnly => Booked'
    PROVE  \A s \in Runs : run'[s] = run[s] \/ RunBacked(s)'
<1> DEFINE new == [run[r] EXCEPT !.at = place, !.seen = "none",
                       !.quote = IF place = "vessel_tracking" THEN 0 ELSE run[r].quote]
<1>1. run[r] \in RunRow /\ RunBacked(r)
  BY DEF Typed, RunsOK, Backed
<1>2. run' = [run EXCEPT ![r] = new]
  BY DEF Goto, Typed, RunsOK
<1>3. new.at = place /\ new.tracksOnly = run[r].tracksOnly /\ new.result = run[r].result
      /\ new.rfq = run[r].rfq
  BY <1>1 DEF RunRow
<1>4. place \notin {"quote_mailed", "ordered"}
  BY DEF NODES
<1>5. run[r].rfq # 0 => rfq'[run[r].rfq].status # "absent"
  BY <1>1 DEF RunBacked, Grows, RunRow
<1> HIDE DEF new
<1> QED BY <1>2, <1>3, <1>4, <1>5, GoneOn

LEMMA HaltBacked ==
    ASSUME Typed, NEW r \in Runs, NEW node, NEW result, Halt(r, node, result),
           result = "completed" /\ ~run[r].tracksOnly => Booked',
           result = "waiting_approval" => Priced' # {},
           result = "waiting_supplier_quotes" => Known' # {}
    PROVE  \A s \in Runs : run'[s] = run[s] \/ RunBacked(s)'
<1> DEFINE new == [NoRun EXCEPT !.at = "end", !.tracksOnly = run[r].tracksOnly, !.node = node,
                                !.result = result]
<1>1. new.at = "end" /\ new.tracksOnly = run[r].tracksOnly /\ new.result = result /\ new.rfq = 0
  BY DEF NoRun
<1>2. run' = [run EXCEPT ![r] = new]
  BY DEF Halt
<1> HIDE DEF new
<1>3. run'[r] = new /\ \A s \in Runs : s # r => run'[s] = run[s]
  BY <1>2, Moved
<1>4. RunBacked(r)'
  BY <1>1, <1>3 DEF RunBacked, At
<1> QED BY <1>3, <1>4

LEMMA AdvanceBacked ==
    ASSUME Typed, Backed, Grows, NEW r \in Runs, NEW seen, NEW target, NEW node, NEW next \in NODES,
           AdvanceOrFail(r, seen, target, node, next),
           next = "vessel_tracking" => Booked'
    PROVE  \A s \in Runs : run'[s] = run[s] \/ RunBacked(s)'
  BY GotoBacked, HaltBacked DEF AdvanceOrFail

LEMMA IdleBacked ==
    ASSUME Typed, NEW r \in Runs, run' = [run EXCEPT ![r] = NoRun]
    PROVE  \A s \in Runs : run'[s] = run[s] \/ RunBacked(s)'
<1>1. run'[r] = NoRun /\ \A s \in Runs : s # r => run'[s] = run[s]
  BY Moved
<1>2. RunBacked(r)'
  BY <1>1 DEF RunBacked, At, NoRun
<1> QED BY <1>1, <1>2

LEMMA NewestIsThere ==
    /\ NewestRfq # 0 => NewestRfq \in Known
    /\ NewestQuote # 0 => NewestQuote \in Priced
<1>1. Known \in SUBSET (1..MaxRfqs) /\ MaxRfqs \in Nat /\ Priced \in SUBSET (1..MaxQuotes) /\ MaxQuotes \in Nat
  BY RowBounds DEF Known, Rfqs, Priced, Quotes
<1>2. (Known # {} => Max(Known) \in Known) /\ (Priced # {} => Max(Priced) \in Priced)
  BY <1>1, MaxIsMember
<1> QED BY <1>2 DEF NewestRfq, NewestQuote

\* A run begins or ends.
LEMMA RequestBacked ==
    ASSUME Typed, Backed, NEW r \in Runs, Requesting(r) \/ Ending(r)
    PROVE  Backed'
<1>l. ASSUME NEW node \in ENTRY_NODES, NEW requested, Launch(r, node, requested) PROVE Backed'
  <2> DEFINE new == [NoRun EXCEPT
              !.at = node, !.synth = (node \in Seeding /\ EffectiveShortcuts(requested)),
              !.tracksOnly = (node = "vessel_tracking")]
  <2>1. /\ new.at = node /\ new.rfq = 0 /\ new.result = "none"
        /\ node = "vessel_tracking" => new.tracksOnly
        /\ node \notin {"quote_mailed", "ordered"}
    BY DEF NoRun, ENTRY_NODES, NODES
  <2>2. run' = [run EXCEPT ![r] = new] /\ UNCHANGED <<dbVars, worldVars>> /\ cursor' = cursor
    BY <1>l DEF Launch
  <2> HIDE DEF new
  <2>3. run'[r] = new /\ \A s \in Runs : s # r => run'[s] = run[s]
    BY <2>2, Moved
  <2>4. RunBacked(r)'
    BY <2>1, <2>3 DEF RunBacked, At
  <2> QED BY <2>2, <2>3, <2>4, RowsRest, BackedParts
<1>1. CASE ResumeGraph(r)
  <2>1. cursor.node \in ENTRY_NODES
    BY <1>1 DEF ResumeGraph, Typed, GraphTypeOK
  <2> QED BY <1>1, <2>1, <1>l DEF ResumeGraph
<1>2. ASSUME NEW node \in ENTRY_NODES, NEW requested \in {"unset", "yes", "no"},
             RunGraph(r, node, requested)
      PROVE  Backed'
  BY <1>2, <1>l DEF RunGraph
<1>3. CASE Track(r)
  <2>1. UNCHANGED <<dbVars, worldVars>> /\ cursor' = cursor /\ Halt(r, "vessel_tracking", "completed")
    BY <1>3 DEF Track, graphRest
  <2>2. Grows /\ RowsBacked'
    BY <2>1, RowsRest
  <2>3. ~run[r].tracksOnly => Booked
    BY <1>3 DEF Track, Backed, RunBacked, At
  <2>4. \A s \in Runs : run'[s] = run[s] \/ RunBacked(s)'
    BY <2>1, <2>2, <2>3, HaltBacked, Monotone
  <2> QED BY <2>1, <2>2, <2>4, BackedParts
<1>4. CASE TrackVessel(r) \/ Die(r)
  <2>1. UNCHANGED <<dbVars, worldVars>> /\ cursor' = cursor /\ run' = [run EXCEPT ![r] = NoRun]
    BY <1>4 DEF TrackVessel, Die
  <2> QED BY <2>1, RowsRest, IdleBacked, BackedParts
<1>5. CASE Record(r)
  <2>1. UNCHANGED <<dbVars, worldVars>> /\ run' = [run EXCEPT ![r] = NoRun]
    BY <1>5 DEF Record
  <2>2. Grows /\ RowsBacked'
    BY <2>1, RowsRest
  <2>3. CursorRests'
    <3>1. cursor'.status = run[r].result /\ cursor'.booked = ~run[r].tracksOnly
      BY <1>5 DEF Record
    <3>2. RunBacked(r)
      BY DEF Backed
    <3> QED BY <2>2, <3>1, <3>2, Monotone DEF RunBacked, CursorRests
  <2> QED BY <2>1, <2>2, <2>3, IdleBacked, BackedParts
<1>6. CASE ProviderRaises(r)
  <2>1. UNCHANGED <<dbVars, worldVars>> /\ cursor' = cursor
    BY <1>6, RaisedHalt
  <2>2. Grows /\ RowsBacked'
    BY <2>1, RowsRest
  <2>3. \A s \in Runs : run'[s] = run[s] \/ RunBacked(s)'
    BY <1>6, RaisedHalt, HaltBacked
  <2> QED BY <2>1, <2>2, <2>3, BackedParts
<1> QED BY <1>1, <1>2, <1>3, <1>4, <1>5, <1>6 DEF Requesting, Ending

LEMMA SourcingBacked ==
    ASSUME Typed, Backed, NEW r \in Runs, Sourcing(r)
    PROVE  Backed'
<1>t. DBTypeOK /\ RunsOK /\ run[r] \in RunRow /\ RunBacked(r)
  BY DEF Typed, GraphTypeOK, RunsOK, Backed
<1>n. {"schedules", "rates", "rfq", "supplier_quotes", "optimize", "clarify"} \subseteq NODES
  BY DEF NODES
<1>r. run[r].rfq \in Rfqs \cup {0}
  BY <1>t DEF RunRow
<1>1. CASE Understand(r)
  <2>1. UNCHANGED <<dbVars, worldVars>> /\ cursor' = cursor
    BY <1>1 DEF Understand, graphRest
  <2>2. \A s \in Runs : run'[s] = run[s] \/ RunBacked(s)'
    BY <1>1, <2>1, <1>n, RowsRest, GotoBacked DEF Understand
  <2> QED BY <2>1, <2>2, RowsRest, BackedParts
<1>2. CASE Clarify(r)
  <2>1. UNCHANGED <<dbVars, worldVars>> /\ cursor' = cursor
    BY <1>2 DEF Clarify, graphRest
  <2>2. \A s \in Runs : run'[s] = run[s] \/ RunBacked(s)'
    BY <1>2, HaltBacked DEF Clarify
  <2> QED BY <2>1, <2>2, RowsRest, BackedParts
<1>3. CASE Schedules(r) \/ DraftRfq(r)
  <2>1. UNCHANGED <<dbVars, worldVars>> /\ cursor' = cursor
    BY <1>3 DEF Schedules, DraftRfq, graphRest
  <2>2. \A s \in Runs : run'[s] = run[s] \/ RunBacked(s)'
    <3>1. CASE Halt(r, "schedules", "failed") \/ Halt(r, "rfq", "failed")
      BY <3>1, HaltBacked
    <3>2. ASSUME NEW place \in {"searching", "drafting"},
                 run' = [run EXCEPT ![r].at = place, ![r].seen = inquiry.status]
          PROVE  \A s \in Runs : run'[s] = run[s] \/ RunBacked(s)'
      <4> DEFINE new == [run[r] EXCEPT !.at = place, !.seen = inquiry.status]
      <4>1. new.at = place /\ new.rfq = run[r].rfq /\ new.tracksOnly = run[r].tracksOnly
            /\ new.result = run[r].result
        BY <1>t DEF RunRow
      <4>2. run' = [run EXCEPT ![r] = new]
        BY <3>2, <1>t DEF RunsOK
      <4>3. new.rfq # 0 => rfq'[new.rfq].status # "absent"
        BY <4>1, <2>1, <1>t DEF RunBacked, dbVars
      <4> HIDE DEF new
      <4> QED BY <2>1, <4>1, <4>2, <4>3, RowsRest, GoneOn
    <3> QED BY <1>3, <3>1, <3>2 DEF Schedules, DraftRfq
  <2> QED BY <2>1, <2>2, RowsRest, BackedParts
<1>4. CASE SaveSchedules(r) \/ CommitRfq(r)
  <2>1. UNCHANGED <<rfq, supplierQuote, quote, approvals, bookings, rfqMailed, mailed, ordered>>
        /\ cursor' = cursor
    BY <1>4 DEF SaveSchedules, CommitRfq, rowsButInquiry, worldVars, graphRest
  <2>2. Grows /\ RowsBacked'
    BY <2>1, RowsRestInquiry
  <2>3. \A s \in Runs : run'[s] = run[s] \/ RunBacked(s)'
    BY <1>4, <2>2, <1>n, AdvanceBacked DEF SaveSchedules, CommitRfq
  <2> QED BY <2>1, <2>2, <2>3, BackedParts
<1>5. CASE Rates(r)
  <2>1. UNCHANGED <<dbVars, worldVars>> /\ cursor' = cursor
    BY <1>5 DEF Rates, graphRest
  <2>2. \A s \in Runs : run'[s] = run[s] \/ RunBacked(s)'
    BY <1>5, <2>1, <1>n, RowsRest, GotoBacked, HaltBacked DEF Rates
  <2> QED BY <2>1, <2>2, RowsRest, BackedParts
<1>6. CASE ReuseRfq(r)
  <2> DEFINE new == [run[r] EXCEPT !.at = "supplier_quotes", !.rfq = NewestRfq]
  <2>1. UNCHANGED <<dbVars, worldVars>> /\ cursor' = cursor
    BY <1>6 DEF ReuseRfq, graphRest
  <2>2. new.at = "supplier_quotes" /\ new.rfq = NewestRfq /\ new.tracksOnly = run[r].tracksOnly
        /\ new.result = run[r].result
    BY <1>t DEF RunRow
  <2>3. run' = [run EXCEPT ![r] = new]
    BY <1>6, <1>t DEF ReuseRfq, RunsOK
  <2>4. rfq'[NewestRfq].status # "absent"
    BY <1>6, <2>1, NewestIsThere DEF ReuseRfq, Known, dbVars
  <2> HIDE DEF new
  <2> QED BY <2>1, <2>2, <2>3, <2>4, RowsRest, GoneOn, BackedParts
<1>7. ASSUME NEW x \in Rfqs, OpenRfq(r, x) PROVE Backed'
  <2> DEFINE new == [run[r] EXCEPT !.at = "mailing_rfq", !.rfq = x]
  <2>1. rfq' = [rfq EXCEPT ![x] = [status |-> "open", received |-> 0]]
        /\ UNCHANGED <<quote, approvals, bookings, mailed, ordered>> /\ cursor' = cursor
    BY <1>7 DEF OpenRfq, InsertRfq, worldVars, graphRest
  <2>2. Grows /\ RowsBacked'
    <3>1. \A y \in Rfqs : rfq[y].status # "absent" => rfq'[y].status # "absent"
      BY <2>1, <1>t DEF DBTypeOK
    <3> QED BY <2>1, <3>1 DEF Grows, Backed, RowsBacked, Approved
  <2>3. new.at = "mailing_rfq" /\ new.rfq = x /\ new.tracksOnly = run[r].tracksOnly
        /\ new.result = run[r].result
    BY <1>t DEF RunRow
  <2>4. run' = [run EXCEPT ![r] = new]
    BY <1>7, <1>t DEF OpenRfq, RunsOK
  <2>5. rfq'[x].status # "absent"
    BY <2>1, <1>t DEF DBTypeOK
  <2> HIDE DEF new
  <2> QED BY <2>1, <2>2, <2>3, <2>4, <2>5, GoneOn, BackedParts
<1>8. CASE MailRfq(r)
  <2> DEFINE new == [run[r] EXCEPT !.at = "rfq_mailed"]
  <2>1. UNCHANGED <<rfq, quote, approvals, bookings, mailed, ordered>> /\ cursor' = cursor
    BY <1>8 DEF MailRfq, dbVars, graphRest
  <2>2. Grows /\ RowsBacked'
    BY <2>1 DEF Grows, Backed, RowsBacked, Approved
  <2>3. new.at = "rfq_mailed" /\ new.rfq = run[r].rfq /\ new.tracksOnly = run[r].tracksOnly
        /\ new.result = run[r].result
    BY <1>t DEF RunRow
  <2>4. run' = [run EXCEPT ![r] = new]
    BY <1>8, <1>t DEF MailRfq, RunsOK
  <2>5. new.rfq # 0 => rfq'[new.rfq].status # "absent"
    BY <2>1, <2>3, <1>t DEF RunBacked
  <2> HIDE DEF new
  <2> QED BY <2>1, <2>2, <2>3, <2>4, <2>5, GoneOn, BackedParts
<1>9. CASE SupplierQuotesNode(r)
  <2> DEFINE x == RfqId(r)
  <2>1. UNCHANGED <<quote, approvals, bookings, mailed, ordered>> /\ cursor' = cursor
    BY <1>9 DEF SupplierQuotesNode, worldVars, graphRest
  <2>2. x # 0 => x \in Known
    <3>1. CASE run[r].rfq # 0
      BY <3>1, <1>t, <1>r DEF RunBacked, Known, RfqId
    <3>2. CASE run[r].rfq = 0
      BY <3>2, NewestIsThere DEF RfqId
    <3> QED BY <3>1, <3>2
  <2>3. \A y \in Rfqs : rfq[y].status # "absent" => rfq'[y].status # "absent"
    <3>1. CASE UNCHANGED rfq
      BY <3>1
    <3>2. ASSUME NEW seeded, SeedAnswers(x, seeded), x # 0
          PROVE  \A y \in Rfqs : rfq[y].status # "absent" => rfq'[y].status # "absent"
      <4>1. PICK status \in {"complete", rfq[x].status} : \E received :
                rfq' = [rfq EXCEPT ![x] = [status |-> status, received |-> received]]
        BY <3>2 DEF SeedAnswers
      <4> QED BY <4>1, <2>2, <3>2, <1>t DEF DBTypeOK, Known
    <3> QED BY <1>9, <3>1, <3>2 DEF SupplierQuotesNode
  <2>4. Grows /\ RowsBacked'
    BY <2>1, <2>3 DEF Grows, Backed, RowsBacked, Approved
  <2>5. \A s \in Runs : run'[s] = run[s] \/ RunBacked(s)'
    <3>1. CASE run' = [run EXCEPT ![r].at = "optimize", ![r].synth = FALSE]
      <4> DEFINE new == [run[r] EXCEPT !.at = "optimize", !.synth = FALSE]
      <4>1. new.at = "optimize" /\ new.rfq = run[r].rfq /\ new.tracksOnly = run[r].tracksOnly
            /\ new.result = run[r].result
        BY <1>t DEF RunRow
      <4>2. run' = [run EXCEPT ![r] = new]
        BY <3>1, <1>t DEF RunsOK
      <4>3. new.rfq # 0 => rfq'[new.rfq].status # "absent"
        BY <4>1, <2>4, <1>t, <1>r DEF RunBacked, Grows
      <4> HIDE DEF new
      <4> QED BY <2>4, <4>1, <4>2, <4>3, GoneOn
    <3>2. CASE Halt(r, "supplier_quotes", "failed")
      BY <3>2, HaltBacked
    <3>3. CASE Halt(r, "supplier_quotes", "waiting_supplier_quotes") /\ x # 0
      BY <3>3, <2>2, <2>4, HaltBacked, Monotone
    <3> QED BY <1>9, <3>1, <3>2, <3>3 DEF SupplierQuotesNode
  <2> QED BY <2>1, <2>4, <2>5, BackedParts
<1>10. ASSUME NEW x \in Rfqs, DraftFails(r, x) PROVE Backed'
  <2>1. rfq' = [rfq EXCEPT ![x] = [status |-> "open", received |-> 0]]
        /\ UNCHANGED <<quote, approvals, bookings, mailed, ordered>> /\ cursor' = cursor
    BY <1>10 DEF DraftFails, InsertRfq, worldVars
  <2>2. Grows /\ RowsBacked'
    <3>1. \A y \in Rfqs : rfq[y].status # "absent" => rfq'[y].status # "absent"
      BY <2>1, <1>t DEF DBTypeOK
    <3> QED BY <2>1, <3>1 DEF Grows, Backed, RowsBacked, Approved
  <2>3. \A s \in Runs : run'[s] = run[s] \/ RunBacked(s)'
    BY <1>10, HaltBacked DEF DraftFails
  <2> QED BY <2>1, <2>2, <2>3, BackedParts
<1> QED BY <1>1, <1>2, <1>3, <1>4, <1>5, <1>6, <1>7, <1>8, <1>9, <1>10 DEF Sourcing

LEMMA QuotingBacked ==
    ASSUME Typed, Backed, NEW r \in Runs, Quoting(r)
    PROVE  Backed'
<1>t. DBTypeOK /\ RunsOK /\ run[r] \in RunRow /\ RunBacked(r) /\ Sound(run[r])
  BY DEF Typed, GraphTypeOK, RunsOK, Backed
<1>n. {"hitl_review", "quote_send", "booking", "vessel_tracking"} \subseteq NODES
  BY DEF NODES
<1>r. run[r].rfq \in Rfqs \cup {0} /\ run[r].quote \in Quotes \cup {0} /\ QuoteId(r) \in Quotes \cup {0}
      /\ (run[r].rfq # 0 => rfq[run[r].rfq].status # "absent")
  BY <1>t, NewestInTable DEF RunRow, Typed, RunBacked
<1>b. RowsBacked /\ quote \in [Quotes -> QuoteStatus] /\ mailed \in [Quotes -> Nat]
      /\ ordered \in [Quotes -> Nat] /\ bookings \in [Quotes -> Nat]
  BY <1>t DEF Backed, DBTypeOK
<1>1. ASSUME NEW q \in Quotes, Optimize(r, q) PROVE Backed'
  <2>1. quote[q] = "absent" /\ quote' = [quote EXCEPT ![q] = "waiting_approval"]
        /\ UNCHANGED <<rfq, approvals, bookings, mailed, ordered>> /\ cursor' = cursor
    BY <1>1 DEF Optimize, NextQuote, SetQuote, worldVars, graphRest
  <2>2. Grows /\ RowsBacked'
    BY <2>1, <1>b DEF Grows, RowsBacked, Approved
  <2>3. \A s \in Runs : run'[s] = run[s] \/ RunBacked(s)'
    <3>1. CASE run' = [run EXCEPT ![r].at = "hitl_review", ![r].rfq = 0]
      <4> DEFINE new == [run[r] EXCEPT !.at = "hitl_review", !.rfq = 0]
      <4>1. new.at = "hitl_review" /\ new.rfq = 0 /\ new.tracksOnly = run[r].tracksOnly
            /\ new.result = run[r].result
        BY <1>t DEF RunRow
      <4>2. run' = [run EXCEPT ![r] = new]
        BY <3>1, <1>t DEF RunsOK
      <4> HIDE DEF new
      <4> QED BY <2>2, <4>1, <4>2, GoneOn
    <3>2. CASE Halt(r, "optimize", "failed")
      BY <3>2, HaltBacked
    <3> QED BY <1>1, <3>1, <3>2 DEF Optimize
  <2> QED BY <2>1, <2>2, <2>3, BackedParts
<1>2. CASE RefuseOptimize(r) \/ RefuseSend(r) \/ RefuseBooking(r)
  <2>1. UNCHANGED <<dbVars, worldVars>> /\ cursor' = cursor
    BY <1>2 DEF RefuseOptimize, RefuseSend, RefuseBooking, graphRest
  <2>2. \A s \in Runs : run'[s] = run[s] \/ RunBacked(s)'
    BY <1>2, HaltBacked DEF RefuseOptimize, RefuseSend, RefuseBooking
  <2> QED BY <2>1, <2>2, RowsRest, BackedParts
<1>3. CASE HitlReview(r)
  <2>1. UNCHANGED <<dbVars, worldVars>> /\ cursor' = cursor
    BY <1>3 DEF HitlReview, graphRest
  <2>2. Grows /\ RowsBacked'
    BY <2>1, RowsRest
  <2>3. \A s \in Runs : run'[s] = run[s] \/ RunBacked(s)'
    <3>1. CASE run' = [run EXCEPT ![r].at = "quote_send", ![r].quote = NewestQuote]
      <4> DEFINE new == [run[r] EXCEPT !.at = "quote_send", !.quote = NewestQuote]
      <4>1. new.at = "quote_send" /\ new.rfq = run[r].rfq /\ new.tracksOnly = run[r].tracksOnly
            /\ new.result = run[r].result
        BY <1>t DEF RunRow
      <4>2. run' = [run EXCEPT ![r] = new]
        BY <3>1, <1>t DEF RunsOK
      <4>3. new.rfq # 0 => rfq'[new.rfq].status # "absent"
        BY <4>1, <2>1, <1>r DEF dbVars
      <4> HIDE DEF new
      <4> QED BY <2>2, <4>1, <4>2, <4>3, GoneOn
    <3>2. CASE Halt(r, "hitl_review", "failed")
      BY <3>2, HaltBacked
    <3>3. CASE Halt(r, "hitl_review", "waiting_approval") /\ NewestQuote # 0
      BY <3>3, <2>2, HaltBacked, Monotone, NewestIsThere
    <3> QED BY <1>3, <3>1, <3>2, <3>3 DEF HitlReview
  <2> QED BY <2>1, <2>2, <2>3, BackedParts
<1>4. CASE MailQuote(r)
  <2> DEFINE q == QuoteId(r)
             new == [run[r] EXCEPT !.at = "quote_mailed", !.seen = inquiry.status, !.quote = q]
  <2>1. q \in Quotes /\ quote[q] = "approved" /\ Approved(q)
    BY <1>4, <1>r, <1>b DEF MailQuote, MayMail, RowsBacked
  <2>2. mailed' = [mailed EXCEPT ![q] = @ + 1] /\ UNCHANGED <<rfq, quote, approvals, bookings, ordered>>
        /\ cursor' = cursor
    BY <1>4 DEF MailQuote, dbVars, graphRest
  <2>3. run' = [run EXCEPT ![r] = new]
    BY <1>4, <1>t DEF MailQuote, RunsOK
  <2>4. new.at = "quote_mailed" /\ new.rfq = run[r].rfq /\ new.tracksOnly = run[r].tracksOnly
        /\ new.result = run[r].result /\ new.quote = q
    BY <1>t DEF RunRow
  <2> HIDE DEF q, new
  <2>5. mailed'[q] > 0 /\ \A x \in Quotes : mailed[x] > 0 => mailed'[x] > 0
    BY <2>1, <2>2, <1>b
  <2>6. \A x \in Quotes : mailed'[x] > 0 => mailed[x] > 0 \/ x = q
    BY <2>1, <2>2, <1>b
  <2>7. Grows /\ RowsBacked'
    BY <2>1, <2>2, <2>5, <2>6, <1>b DEF Grows, RowsBacked, Approved
  <2>8. run'[r] = new /\ \A s \in Runs : s # r => run'[s] = run[s]
    BY <2>3, Moved
  <2>9. RunBacked(r)'
    <3>1. (new.rfq # 0 => rfq'[new.rfq].status # "absent")
      BY <2>2, <2>4, <1>r
    <3>2. /\ run[r].result = "completed" /\ ~run[r].tracksOnly => Booked'
          /\ run[r].result = "waiting_approval" => Priced' # {}
          /\ run[r].result = "waiting_supplier_quotes" => Known' # {}
      BY <1>t, <2>7, Monotone DEF RunBacked
    <3> QED BY <2>1, <2>2, <2>4, <2>5, <2>8, <3>1, <3>2 DEF RunBacked, At, Approved
  <2> QED BY <2>2, <2>7, <2>8, <2>9, BackedParts
<1>5. CASE CommitSend(r)
  <2>1. run[r].quote \in Quotes /\ Approved(run[r].quote) /\ mailed[run[r].quote] > 0
    BY <1>5, <1>t, <1>r DEF CommitSend, RunBacked, At, Sound
  <2>2. quote' = [quote EXCEPT ![run[r].quote] = "sent"]
        /\ UNCHANGED <<rfq, approvals, bookings, mailed, ordered>> /\ cursor' = cursor
    BY <1>5 DEF CommitSend, SetQuote, worldVars, graphRest
  <2>3. Grows /\ RowsBacked'
    BY <2>1, <2>2, <1>b DEF Grows, RowsBacked, Approved
  <2>4. \A s \in Runs : run'[s] = run[s] \/ RunBacked(s)'
    BY <1>5, <1>n, <2>3, AdvanceBacked DEF CommitSend
  <2> QED BY <2>2, <2>3, <2>4, BackedParts
<1>6. CASE ReuseBooking(r)
  <2>1. UNCHANGED <<dbVars, worldVars>> /\ cursor' = cursor
    BY <1>6 DEF ReuseBooking, graphRest
  <2>2. Booked
    BY <1>6, <1>r DEF ReuseBooking, MayOrder, Booked
  <2>3. \A s \in Runs : run'[s] = run[s] \/ RunBacked(s)'
    BY <1>6, <1>n, <2>1, <2>2, RowsRest, Monotone, GotoBacked DEF ReuseBooking
  <2> QED BY <2>1, <2>3, RowsRest, BackedParts
<1>7. CASE OrderSpace(r)
  <2> DEFINE q == QuoteId(r)
             new == [run[r] EXCEPT !.at = "ordered", !.quote = q]
  <2>1. q \in Quotes /\ quote[q] = "sent" /\ mailed[q] > 0
    BY <1>7, <1>r, <1>b DEF OrderSpace, MayOrder, RowsBacked
  <2>2. ordered' = [ordered EXCEPT ![q] = @ + 1] /\ UNCHANGED <<rfq, quote, approvals, bookings, mailed>>
        /\ cursor' = cursor
    BY <1>7 DEF OrderSpace, dbVars, graphRest
  <2>3. run' = [run EXCEPT ![r] = new]
    BY <1>7, <1>t DEF OrderSpace, RunsOK
  <2>4. new.at = "ordered" /\ new.rfq = run[r].rfq /\ new.tracksOnly = run[r].tracksOnly
        /\ new.result = run[r].result /\ new.quote = q
    BY <1>t DEF RunRow
  <2> HIDE DEF q, new
  <2>5. ordered'[q] > 0 /\ \A x \in Quotes : ordered[x] > 0 => ordered'[x] > 0
    BY <2>1, <2>2, <1>b
  <2>6. \A x \in Quotes : ordered'[x] > 0 => ordered[x] > 0 \/ x = q
    BY <2>1, <2>2, <1>b
  <2>7. Grows /\ RowsBacked'
    BY <2>1, <2>2, <2>5, <2>6, <1>b DEF Grows, RowsBacked, Approved
  <2>8. run'[r] = new /\ \A s \in Runs : s # r => run'[s] = run[s]
    BY <2>3, Moved
  <2>9. RunBacked(r)'
    <3>1. (new.rfq # 0 => rfq'[new.rfq].status # "absent")
      BY <2>2, <2>4, <1>r
    <3>2. /\ run[r].result = "completed" /\ ~run[r].tracksOnly => Booked'
          /\ run[r].result = "waiting_approval" => Priced' # {}
          /\ run[r].result = "waiting_supplier_quotes" => Known' # {}
      BY <1>t, <2>7, Monotone DEF RunBacked
    <3> QED BY <2>2, <2>4, <2>5, <2>8, <3>1, <3>2 DEF RunBacked, At
  <2> QED BY <2>2, <2>7, <2>8, <2>9, BackedParts
<1>8. CASE CommitBooking(r)
  <2> DEFINE q == run[r].quote
  <2>1. q \in Quotes /\ ordered[q] > 0
    BY <1>8, <1>t, <1>r DEF CommitBooking, RunBacked, At, Sound
  <2>2. bookings' = [bookings EXCEPT ![q] = @ + 1] /\ UNCHANGED <<rfq, quote, approvals, mailed, ordered>>
        /\ cursor' = cursor
    BY <1>8 DEF CommitBooking, InsertBooking, worldVars, graphRest
  <2>3. AdvanceOrFail(r, inquiry.status, "booked", "booking", "vessel_tracking")
    BY <1>8 DEF CommitBooking
  <2> HIDE DEF q
  <2>4. bookings'[q] > 0 /\ \A x \in Quotes : bookings[x] > 0 => bookings'[x] > 0
    BY <2>1, <2>2, <1>b
  <2>5. \A x \in Quotes : bookings'[x] > 0 => bookings[x] > 0 \/ x = q
    BY <2>1, <2>2, <1>b
  <2>6. Grows /\ RowsBacked' /\ Booked'
    BY <2>1, <2>2, <2>4, <2>5, <1>b DEF Grows, RowsBacked, Approved, Booked
  <2>7. \A s \in Runs : run'[s] = run[s] \/ RunBacked(s)'
    BY <1>n, <2>3, <2>6, AdvanceBacked
  <2> QED BY <2>2, <2>6, <2>7, BackedParts
<1> QED BY <1>1, <1>2, <1>3, <1>4, <1>5, <1>6, <1>7, <1>8 DEF Quoting

LEMMA OthersBacked ==
    ASSUME Typed, Backed,
           \/ \E complete \in BOOLEAN : Patch(complete)
           \/ \E q \in Quotes, action \in {"approve", "reject"} : Review(q, action)
           \/ \E x \in Rfqs, p \in Suppliers, o \in SupplierQuotes : Answer(x, p, o)
    PROVE  Backed'
<1>t. DBTypeOK /\ RowsBacked
  BY DEF Typed, GraphTypeOK, Backed
<1>1. ASSUME NEW complete \in BOOLEAN, Patch(complete) PROVE Backed'
  <2>1. UNCHANGED <<rfq, supplierQuote, quote, approvals, bookings, rfqMailed, mailed, ordered, run>>
        /\ cursor' = cursor
    BY <1>1 DEF Patch, rowsButInquiry, worldVars, graphRest
  <2> QED BY <2>1, RowsRestInquiry, BackedParts
<1>2. ASSUME NEW q \in Quotes, NEW action \in {"approve", "reject"}, Review(q, action) PROVE Backed'
  <2>1. UNCHANGED <<rfq, bookings, mailed, ordered, run>> /\ cursor' = cursor
        /\ approvals' = approvals \cup {[quote |-> q, action |-> action]}
        /\ quote' = [quote EXCEPT ![q] = IF action = "approve" THEN "approved" ELSE "rejected"]
    BY <1>2 DEF Review, worldVars, graphRest, RecordVerdict, SetQuote
  <2>2. Grows /\ RowsBacked'
    BY <2>1, <1>t DEF Grows, RowsBacked, Approved, DBTypeOK
  <2> QED BY <2>1, <2>2, BackedParts
<1>3. ASSUME NEW x \in Rfqs, NEW p \in Suppliers, NEW o \in SupplierQuotes, Answer(x, p, o) PROVE Backed'
  <2>1. UNCHANGED <<quote, approvals, bookings, mailed, ordered, run>> /\ cursor' = cursor
    BY <1>3 DEF Answer, worldVars, graphRest
  <2>2. PICK status \in {"complete", rfq[x].status} : \E received :
            rfq' = [rfq EXCEPT ![x] = [status |-> status, received |-> received]]
    BY <1>3 DEF Answer, CountAnswer
  <2>3. \A y \in Rfqs : rfq[y].status # "absent" => rfq'[y].status # "absent"
    BY <1>t, <2>2 DEF DBTypeOK
  <2>4. Grows /\ RowsBacked'
    BY <2>1, <2>3, <1>t DEF Grows, RowsBacked, Approved
  <2> QED BY <2>1, <2>4, BackedParts
<1> QED BY <1>1, <1>2, <1>3

LEMMA StepBacked == Typed /\ Backed /\ [GraphNext]_vars => Backed'
<1> SUFFICES ASSUME Typed, Backed, [GraphNext]_vars PROVE Backed'
  OBVIOUS
<1>1. CASE UNCHANGED vars
  <2>1. UNCHANGED <<dbVars, worldVars>> /\ run' = run /\ cursor' = cursor
    BY <1>1 DEF vars, dbVars, worldVars
  <2> QED BY <2>1, RowsRest, BackedParts
<1> QED BY <1>1, RequestBacked, SourcingBacked, QuotingBacked, OthersBacked DEF GraphNext

LEMMA InitBacked == GraphInit => Backed
<1> SUFFICES ASSUME GraphInit PROVE Backed
  OBVIOUS
<1>1. RowsBacked
  BY DEF GraphInit, DBInit, RowsBacked
<1>2. \A r \in Runs : RunBacked(r)
  BY DEF GraphInit, NoRun, RunBacked, At
<1>3. CursorRests
  BY DEF GraphInit, NoCursor, CursorRests
<1> QED BY <1>1, <1>2, <1>3 DEF Backed

\* The cursor of app/graph/runner.py is written in a commit of its own, long
\* after the rows it speaks of, and is true of them all the same: those rows are
\* never taken back, whatever other runs, edits and verdicts come in between.
THEOREM CursorIsBacked == GraphSpec => []CursorBacked
<1>1. Backed => CursorBacked
  BY DEF Backed, RowsBacked, CursorRests, Booked, CursorBacked
<1> QED BY <1>1, InitTyped, StepTyped, InitBacked, StepBacked, PTL DEF GraphSpec

-----------------------------------------------------------------------------
(* The human gate *)

\* A step is a step of the gate or invisible to it.
LEMMA GateStep ==
    ASSUME Typed, Backed, [GraphNext]_vars
    PROVE  [Gate!Next]_(Gate!gateVars)
<1>t. mailed \in [Quotes -> Nat] /\ ordered \in [Quotes -> Nat] /\ RowsBacked
  BY DEF Typed, GraphTypeOK, DBTypeOK, Backed
<1> USE DEF Gate!gateVars
<1>u. ASSUME UNCHANGED <<approvals, mailed, ordered>> PROVE [Gate!Next]_(Gate!gateVars)
  BY <1>u DEF Approved
<1>1. ASSUME NEW q \in Quotes, NEW action \in {"approve", "reject"}, Review(q, action)
      PROVE  [Gate!Next]_(Gate!gateVars)
  <2>1. UNCHANGED <<mailed, ordered>>
    BY <1>1 DEF Review, worldVars
  <2>2. CASE action = "approve"
    <3>1. {p \in Quotes : Approved(p)'} = {p \in Quotes : Approved(p)} \cup {q}
      BY <2>2, <1>1 DEF Review, RecordVerdict, Approved
    <3>2. Gate!Approve(q)
      BY <3>1, <2>1 DEF Gate!Approve
    <3> QED BY <3>2 DEF Gate!Next
  <2>3. CASE action # "approve"
    <3>1. {p \in Quotes : Approved(p)'} = {p \in Quotes : Approved(p)}
      BY <2>3, <1>1 DEF Review, RecordVerdict, Approved
    <3> QED BY <3>1, <2>1
  <2> QED BY <2>2, <2>3
<1>2. ASSUME NEW r \in Runs, MailQuote(r) PROVE [Gate!Next]_(Gate!gateVars)
  <2> DEFINE q == QuoteId(r)
  <2>1. q \in Quotes /\ Approved(q)
    BY <1>2, <1>t, NewestInTable DEF MailQuote, MayMail, RowsBacked, Typed
  <2>2. UNCHANGED <<approvals, ordered>> /\ mailed' = [mailed EXCEPT ![q] = @ + 1]
    BY <1>2 DEF MailQuote, dbVars
  <2> HIDE DEF q
  <2>3. \A p \in Quotes : mailed'[p] > 0 <=> mailed[p] > 0 \/ p = q
    BY <2>1, <2>2, <1>t
  <2>4. {p \in Quotes : mailed'[p] > 0} = {p \in Quotes : mailed[p] > 0} \cup {q}
    BY <2>1, <2>3
  <2>5. Gate!Mail(q)
    BY <2>1, <2>2, <2>4 DEF Gate!Mail, Approved
  <2>6. Gate!Next
    BY <2>1, <2>5 DEF Gate!Next, Gate!Mail, Gate!Order, Gate!Approve
  <2> QED BY <2>6
<1>3. ASSUME NEW r \in Runs, OrderSpace(r) PROVE [Gate!Next]_(Gate!gateVars)
  <2> DEFINE q == QuoteId(r)
  <2>1. q \in Quotes /\ mailed[q] > 0
    BY <1>3, <1>t, NewestInTable DEF OrderSpace, MayOrder, RowsBacked, Typed
  <2>2. UNCHANGED <<approvals, mailed>> /\ ordered' = [ordered EXCEPT ![q] = @ + 1]
    BY <1>3 DEF OrderSpace, dbVars
  <2> HIDE DEF q
  <2>3. \A p \in Quotes : ordered'[p] > 0 <=> ordered[p] > 0 \/ p = q
    BY <2>1, <2>2, <1>t
  <2>4. {p \in Quotes : ordered'[p] > 0} = {p \in Quotes : ordered[p] > 0} \cup {q}
    BY <2>1, <2>3
  <2>5. Gate!Order(q)
    BY <2>1, <2>2, <2>4 DEF Gate!Order, Approved
  <2>6. Gate!Next
    BY <2>1, <2>5 DEF Gate!Next, Gate!Mail, Gate!Order, Gate!Approve
  <2> QED BY <2>6
<1>4. ASSUME NEW r \in Runs, Requesting(r) \/ Sourcing(r) \/ Ending(r)
      PROVE  [Gate!Next]_(Gate!gateVars)
  <2>1. UNCHANGED <<approvals, mailed, ordered>>
    BY <1>4
       DEF Requesting, Sourcing, Ending, ResumeGraph, RunGraph, Launch, Understand, Clarify, Schedules,
           SaveSchedules, Rates, ReuseRfq, DraftRfq, OpenRfq, DraftFails, MailRfq, CommitRfq,
           SupplierQuotesNode, Track, TrackVessel, ProviderRaises, Record, Die, dbVars, worldVars, rowsButInquiry
  <2> QED BY <2>1, <1>u
<1>5. ASSUME NEW r \in Runs, Quoting(r) PROVE [Gate!Next]_(Gate!gateVars)
  <2>1. CASE MailQuote(r)
    BY <2>1, <1>2
  <2>2. CASE OrderSpace(r)
    BY <2>2, <1>3
  <2>3. CASE ~MailQuote(r) /\ ~OrderSpace(r)
    <3>1. UNCHANGED <<approvals, mailed, ordered>>
      BY <1>5, <2>3
         DEF Quoting, Optimize, RefuseOptimize, HitlReview, RefuseSend, CommitSend, RefuseBooking,
             ReuseBooking, CommitBooking, dbVars, worldVars
    <3> QED BY <3>1, <1>u
  <2> QED BY <2>1, <2>2, <2>3
<1>6. ASSUME NEW complete \in BOOLEAN, Patch(complete) PROVE [Gate!Next]_(Gate!gateVars)
  BY <1>6, <1>u DEF Patch, rowsButInquiry, worldVars
<1>7. ASSUME NEW x \in Rfqs, NEW p \in Suppliers, NEW o \in SupplierQuotes, Answer(x, p, o)
      PROVE  [Gate!Next]_(Gate!gateVars)
  BY <1>7, <1>u DEF Answer, worldVars
<1>8. CASE UNCHANGED vars
  BY <1>8, <1>u DEF vars
<1> QED BY <1>1, <1>4, <1>5, <1>6, <1>7, <1>8 DEF GraphNext

\* The graph implements the human gate: it routes work, it grants nothing.  At
\* whatever node a run starts or resumes, and however many overlap, a quotation
\* is mailed after its approval and space is ordered after the quotation
\* (app/graph/builder.py, quote_send and booking).
THEOREM GraphKeepsGate == GraphSpec => GraphGated
<1>1. GraphInit => Gate!Init
  BY DEF GraphInit, DBInit, Gate!Init, Approved
<1>2. Typed /\ Backed /\ [GraphNext]_vars => [Gate!Next]_(Gate!gateVars)
  BY GateStep
<1> QED
  BY <1>1, <1>2, InitTyped, StepTyped, InitBacked, StepBacked, PTL DEF GraphSpec, GraphGated, Gate!Spec

-----------------------------------------------------------------------------
(* Where each step leaves a run *)

\* The run is at the place, and the quotation it carries is still the same.
Moves(r, place) == run'[r].at = place /\ run'[r].quote = run[r].quote

Halted(r, node, result) ==
    /\ run'[r].at = "end" /\ run'[r].quote = 0
    /\ run'[r].node = node /\ run'[r].result = result

LEMMA GotoMoves ==
    ASSUME Typed, NEW r \in Runs, NEW place, Goto(r, place)
    PROVE  /\ run'[r].at = place
           /\ run'[r].quote = (IF place = "vessel_tracking" THEN 0 ELSE run[r].quote)
<1> DEFINE new == [run[r] EXCEPT !.at = place, !.seen = "none",
                       !.quote = IF place = "vessel_tracking" THEN 0 ELSE run[r].quote]
<1>1. run[r] \in RunRow
  BY DEF Typed, RunsOK
<1>2. run' = [run EXCEPT ![r] = new]
  BY DEF Goto, Typed, RunsOK
<1>3. new.at = place /\ new.quote = IF place = "vessel_tracking" THEN 0 ELSE run[r].quote
  BY <1>1 DEF RunRow
<1> HIDE DEF new
<1> QED BY <1>2, <1>3, Moved

LEMMA HaltMoves ==
    ASSUME Typed, NEW r \in Runs, NEW node, NEW result, Halt(r, node, result)
    PROVE  Halted(r, node, result)
<1> DEFINE new == [NoRun EXCEPT !.at = "end", !.tracksOnly = run[r].tracksOnly, !.node = node,
                                !.result = result]
<1>1. new.at = "end" /\ new.quote = 0 /\ new.node = node /\ new.result = result
  BY DEF NoRun
<1>2. run' = [run EXCEPT ![r] = new]
  BY DEF Halt
<1> HIDE DEF new
<1> QED BY <1>1, <1>2, Moved DEF Halted

LEMMA AdvanceMoves ==
    ASSUME Typed, NEW r \in Runs, NEW seen, NEW target, NEW node, NEW next \in NODES,
           AdvanceOrFail(r, seen, target, node, next)
    PROVE  /\ CanTransition(seen, target) =>
                 /\ run'[r].at = next /\ inquiry' = Advanced(seen, target)
                 /\ run'[r].quote = (IF next = "vessel_tracking" THEN 0 ELSE run[r].quote)
           /\ ~CanTransition(seen, target) => UNCHANGED inquiry /\ Halted(r, node, "failed")
  BY GotoMoves, HaltMoves DEF AdvanceOrFail

LEMMA OthersStay ==
    ASSUME Typed, NEW r \in Runs, Requesting(r) \/ Sourcing(r) \/ Quoting(r) \/ Ending(r)
    PROVE  \A s \in Runs \ {r} : run'[s] = run[s]
<1> USE DEF Typed, RunsOK
<1>1. CASE Requesting(r) \/ Ending(r)
  BY <1>1 DEF Requesting, ResumeGraph, RunGraph, Launch, Ending, Track, TrackVessel, ProviderRaises, Record,
              Die, Halt
<1>2. CASE Sourcing(r)
  BY <1>2 DEF Sourcing, Understand, Clarify, Schedules, SaveSchedules, Rates, ReuseRfq, DraftRfq, OpenRfq,
              DraftFails, MailRfq, CommitRfq, SupplierQuotesNode, AdvanceOrFail, Goto, Halt
<1>3. CASE Quoting(r)
  BY <1>3 DEF Quoting, Optimize, RefuseOptimize, HitlReview, MailQuote, RefuseSend, CommitSend, RefuseBooking,
              ReuseBooking, OrderSpace, CommitBooking, AdvanceOrFail, Goto, Halt
<1> QED BY <1>1, <1>2, <1>3

LEMMA RequestPlaces ==
    ASSUME Typed, NEW r \in Runs
    PROVE  /\ \A node \in ENTRY_NODES : \A requested : Launch(r, node, requested) =>
                  run'[r].at = node /\ run'[r].quote = 0
           /\ Track(r) => Halted(r, "vessel_tracking", "completed")
           /\ TrackVessel(r) \/ Record(r) \/ Die(r) => run'[r].at = "idle" /\ run'[r].quote = 0
           /\ ProviderRaises(r) => Halted(r, Awaited[run[r].at], "failed")
<1>1. ASSUME NEW node \in ENTRY_NODES, NEW requested, Launch(r, node, requested)
      PROVE  run'[r].at = node /\ run'[r].quote = 0
  <2> DEFINE new == [NoRun EXCEPT
              !.at = node, !.synth = (node \in Seeding /\ EffectiveShortcuts(requested)),
              !.tracksOnly = (node = "vessel_tracking")]
  <2>1. new.at = node /\ new.quote = 0
    BY DEF NoRun
  <2>2. run' = [run EXCEPT ![r] = new]
    BY <1>1 DEF Launch
  <2> HIDE DEF new
  <2> QED BY <2>1, <2>2, Moved
<1>2. Track(r) => Halted(r, "vessel_tracking", "completed")
  BY HaltMoves DEF Track
<1>3. TrackVessel(r) \/ Record(r) \/ Die(r) => run'[r] = NoRun
  BY Moved DEF TrackVessel, Record, Die
<1>4. ProviderRaises(r) => Halted(r, Awaited[run[r].at], "failed")
  BY HaltMoves, RaisedHalt
<1> QED BY <1>1, <1>2, <1>3, <1>4 DEF NoRun

LEMMA SourcingPlaces ==
    ASSUME Typed, NEW r \in Runs
    PROVE  /\ Understand(r) => \E place \in {"schedules", "clarify"} : Moves(r, place)
           /\ Clarify(r) => Halted(r, "clarify", "waiting_clarification")
           /\ Schedules(r) => \/ Moves(r, "searching") /\ run'[r].seen = inquiry.status
                              \/ Halted(r, "schedules", "failed")
           /\ Rates(r) => Moves(r, "rfq") \/ Halted(r, "rates", "failed")
           /\ ReuseRfq(r) => Moves(r, "supplier_quotes")
           /\ DraftRfq(r) => \/ Moves(r, "drafting") /\ run'[r].seen = inquiry.status
                             \/ Halted(r, "rfq", "failed")
           /\ \A x \in Rfqs : OpenRfq(r, x) => Moves(r, "mailing_rfq") /\ run'[r].seen = run[r].seen
           /\ \A x \in Rfqs : DraftFails(r, x) => Halted(r, "rfq", "failed")
           /\ MailRfq(r) => Moves(r, "rfq_mailed") /\ run'[r].seen = run[r].seen
           /\ SupplierQuotesNode(r) =>
                 \/ Moves(r, "optimize")
                 \/ \E result \in {"failed", "waiting_supplier_quotes"} : Halted(r, "supplier_quotes", result)
<1>t. run \in [Runs -> RunRow] /\ run[r] \in RunRow
  BY DEF Typed, RunsOK
<1>1. Understand(r) => \E place \in {"schedules", "clarify"} : Moves(r, place)
  BY GotoMoves DEF Understand, Moves
<1>2. Clarify(r) => Halted(r, "clarify", "waiting_clarification")
  BY HaltMoves DEF Clarify
<1>3. ASSUME NEW place, run' = [run EXCEPT ![r].at = place, ![r].seen = inquiry.status]
      PROVE  Moves(r, place) /\ run'[r].seen = inquiry.status
  BY <1>3, <1>t DEF Moves, RunRow
<1>4. Schedules(r) => \/ Moves(r, "searching") /\ run'[r].seen = inquiry.status
                      \/ Halted(r, "schedules", "failed")
  BY <1>3, HaltMoves DEF Schedules
<1>5. Rates(r) => Moves(r, "rfq") \/ Halted(r, "rates", "failed")
  BY GotoMoves, HaltMoves DEF Rates, Moves
<1>6. ReuseRfq(r) => Moves(r, "supplier_quotes")
  BY <1>t DEF ReuseRfq, Moves, RunRow
<1>7. DraftRfq(r) => \/ Moves(r, "drafting") /\ run'[r].seen = inquiry.status
                     \/ Halted(r, "rfq", "failed")
  BY <1>3, HaltMoves DEF DraftRfq
<1>8. \A x \in Rfqs : OpenRfq(r, x) => Moves(r, "mailing_rfq") /\ run'[r].seen = run[r].seen
  BY <1>t DEF OpenRfq, Moves, RunRow
<1>9. MailRfq(r) => Moves(r, "rfq_mailed") /\ run'[r].seen = run[r].seen
  BY <1>t DEF MailRfq, Moves, RunRow
<1>10. SupplierQuotesNode(r) =>
          \/ Moves(r, "optimize")
          \/ \E result \in {"failed", "waiting_supplier_quotes"} : Halted(r, "supplier_quotes", result)
  <2>1. run' = [run EXCEPT ![r].at = "optimize", ![r].synth = FALSE] => Moves(r, "optimize")
    BY <1>t DEF Moves, RunRow
  <2> QED BY <2>1, HaltMoves DEF SupplierQuotesNode
<1>11. \A x \in Rfqs : DraftFails(r, x) => Halted(r, "rfq", "failed")
  BY HaltMoves DEF DraftFails
<1> QED BY <1>1, <1>2, <1>4, <1>5, <1>6, <1>7, <1>8, <1>9, <1>10, <1>11

LEMMA QuotingPlaces ==
    ASSUME Typed, NEW r \in Runs
    PROVE  /\ \A q \in Quotes : Optimize(r, q) => Moves(r, "hitl_review") \/ Halted(r, "optimize", "failed")
           /\ RefuseOptimize(r) => Halted(r, "optimize", "failed")
           /\ HitlReview(r) =>
                 \/ /\ run'[r].at = "quote_send" /\ run'[r].quote = NewestQuote
                    /\ NewestQuote # 0 /\ quote[NewestQuote] = "approved"
                 \/ Halted(r, "hitl_review", "failed")
                 \/ Halted(r, "hitl_review", "waiting_approval")
           /\ MailQuote(r) => /\ run'[r].at = "quote_mailed" /\ run'[r].seen = inquiry.status
                              /\ run'[r].quote = QuoteId(r)
           /\ RefuseSend(r) => Halted(r, "quote_send", "failed")
           /\ RefuseBooking(r) => Halted(r, "booking", "failed")
           /\ ReuseBooking(r) => run'[r].at = "vessel_tracking" /\ run'[r].quote = 0
           /\ OrderSpace(r) => run'[r].at = "ordered" /\ run'[r].quote = QuoteId(r)
<1>t. run \in [Runs -> RunRow] /\ run[r] \in RunRow
  BY DEF Typed, RunsOK
<1>1. \A q \in Quotes : Optimize(r, q) => Moves(r, "hitl_review") \/ Halted(r, "optimize", "failed")
  <2>1. run' = [run EXCEPT ![r].at = "hitl_review", ![r].rfq = 0] => Moves(r, "hitl_review")
    BY <1>t DEF Moves, RunRow
  <2> QED BY <2>1, HaltMoves DEF Optimize
<1>2. RefuseOptimize(r) => Halted(r, "optimize", "failed")
  BY HaltMoves DEF RefuseOptimize
<1>3. ASSUME HitlReview(r)
      PROVE  \/ /\ run'[r].at = "quote_send" /\ run'[r].quote = NewestQuote
                /\ NewestQuote # 0 /\ quote[NewestQuote] = "approved"
             \/ Halted(r, "hitl_review", "failed")
             \/ Halted(r, "hitl_review", "waiting_approval")
  <2>1. run' = [run EXCEPT ![r].at = "quote_send", ![r].quote = NewestQuote]
            => run'[r].at = "quote_send" /\ run'[r].quote = NewestQuote
    BY <1>t DEF RunRow
  <2> QED BY <1>3, <2>1, HaltMoves DEF HitlReview
<1>4. MailQuote(r) => /\ run'[r].at = "quote_mailed" /\ run'[r].seen = inquiry.status
                      /\ run'[r].quote = QuoteId(r)
  BY <1>t DEF MailQuote, RunRow
<1>5. RefuseSend(r) => Halted(r, "quote_send", "failed")
  BY HaltMoves DEF RefuseSend
<1>6. RefuseBooking(r) => Halted(r, "booking", "failed")
  BY HaltMoves DEF RefuseBooking
<1>7. ReuseBooking(r) => run'[r].at = "vessel_tracking" /\ run'[r].quote = 0
  BY GotoMoves DEF ReuseBooking
<1>8. OrderSpace(r) => run'[r].at = "ordered" /\ run'[r].quote = QuoteId(r)
  BY <1>t DEF OrderSpace, RunRow
<1> QED BY <1>1, <1>2, <1>3, <1>4, <1>5, <1>6, <1>7, <1>8

-----------------------------------------------------------------------------
(* What each effect is charged to *)

\* Unless runs have overlapped, one at most is in flight.
Alone == ~overlapped => \A r, s \in Runs : At(r, "idle") \/ At(s, "idle") \/ r = s

LEMMA AloneStep == Typed /\ Alone /\ [GraphNext]_vars => Alone'
<1> SUFFICES ASSUME Typed, Alone, [GraphNext]_vars PROVE Alone'
  OBVIOUS
<1>1. CASE UNCHANGED <<run, overlapped>>
  BY <1>1 DEF Alone, At
<1>l. ASSUME NEW r \in Runs, NEW node \in ENTRY_NODES, NEW requested, Launch(r, node, requested), ~overlapped'
      PROVE  Alone'
  <2>1. ~Together(r)
    BY <1>l DEF Launch
  <2>2. \A s \in Runs \ {r} : At(s, "idle") /\ run'[s] = run[s]
    BY <1>l, <2>1 DEF Together, Launch, Typed, RunsOK
  <2> QED BY <2>2 DEF Alone, At
<1>2. ASSUME NEW r \in Runs, Requesting(r) PROVE Alone'
  <2>1. CASE ResumeGraph(r)
    <3>1. cursor.node \in ENTRY_NODES
      BY <2>1 DEF ResumeGraph, Typed, GraphTypeOK
    <3> QED BY <2>1, <3>1, <1>l DEF ResumeGraph, Alone
  <2>2. ASSUME NEW node \in ENTRY_NODES, NEW requested \in {"unset", "yes", "no"}, RunGraph(r, node, requested)
        PROVE  Alone'
    BY <2>2, <1>l DEF RunGraph, Alone
  <2> QED BY <1>2, <2>1, <2>2 DEF Requesting
<1>3. ASSUME NEW r \in Runs, Sourcing(r) \/ Quoting(r) \/ Ending(r) PROVE Alone'
  <2>0. ProviderRaises(r) => overlapped' = overlapped /\ run[r].at # "idle"
    BY RaisedHalt DEF ENTRY_NODES, NODES
  <2>1. overlapped' = overlapped /\ ~At(r, "idle")
    BY <1>3, <2>0 DEF Sourcing, Understand, Clarify, Schedules, SaveSchedules, Rates, ReuseRfq, DraftRfq, OpenRfq,
                DraftFails, MailRfq, CommitRfq, SupplierQuotesNode, Quoting, Optimize, RefuseOptimize, HitlReview,
                MailQuote, MayMail, RefuseSend, CommitSend, RefuseBooking, ReuseBooking, MayOrder, OrderSpace,
                CommitBooking, Ending, Track, TrackVessel, Record, Die, At, graphRest
  <2>2. \A s \in Runs \ {r} : run'[s] = run[s]
    BY <1>3, OthersStay
  <2>3. ~overlapped => \A s \in Runs \ {r} : At(s, "idle")
    BY <2>1 DEF Alone
  <2> QED BY <2>1, <2>2, <2>3 DEF Alone, At
<1>4. ASSUME \/ \E complete \in BOOLEAN : Patch(complete)
             \/ \E q \in Quotes, action \in {"approve", "reject"} : Review(q, action)
             \/ \E x \in Rfqs, p \in Suppliers, o \in SupplierQuotes : Answer(x, p, o)
             \/ UNCHANGED vars
      PROVE  UNCHANGED <<run, overlapped>>
  BY <1>4 DEF Patch, Review, Answer, graphRest, vars
<1> QED BY <1>1, <1>2, <1>3, <1>4 DEF GraphNext

\* How many runs an effect may be repeated by.
InFlight == IF overlapped THEN Cardinality(Runs) ELSE 1

MailedBy(q)  == {r \in Runs : At(r, "quote_mailed") /\ run[r].quote = q}
OrderedBy(q) == {r \in Runs : At(r, "ordered") /\ run[r].quote = q}
Drafters     == {r \in Runs : At(r, "drafting")}

\* A quotation was mailed once for each run that has yet to commit that it is
\* sent and for each one that died; from the first such commit on it is not
\* mailed again.  Orders and their booking are the same, but for the runs that
\* could not read the carrier's answer, and so are the runs that found no RFQ and
\* the RFQs they open.
Account(q) ==
    /\ mailed[q] <= crashes + IF quote[q] = "sent" THEN InFlight ELSE Cardinality(MailedBy(q))
    /\ ordered[q] <= crashes + faults + IF bookings[q] > 0 THEN InFlight ELSE Cardinality(OrderedBy(q))
    /\ bookings[q] + Cardinality(OrderedBy(q)) <= InFlight

RfqAccount == Cardinality(Known) + Cardinality(Drafters) <= InFlight

Accounts == RfqAccount /\ \A q \in Quotes : Account(q)

\* The bound as it is for any rows of the runs.
LEMMA FewInFlight ==
    ASSUME NEW rows, NEW together \in BOOLEAN, NEW S \in SUBSET Runs, Runs # {},
           ~together => \A r, s \in Runs : rows[r].at = "idle" \/ rows[s].at = "idle" \/ r = s,
           \A r \in S : rows[r].at # "idle"
    PROVE  Cardinality(S) <= IF together THEN Cardinality(Runs) ELSE 1
<1>1. Cardinality(S) <= Cardinality(Runs)
  BY GraphBounds, FS_Subset
<1>2. ASSUME ~together PROVE Cardinality(S) <= 1
  <2>1. CASE S = {}
    BY <2>1, FS_EmptySet
  <2>2. ASSUME NEW r \in S PROVE S = {r}
    BY <1>2, <2>2
  <2>3. ASSUME NEW r \in S PROVE Cardinality(S) = 1
    BY <2>2, <2>3, FS_Singleton
  <2> QED BY <2>1, <2>3
<1> QED BY <1>1, <1>2

\* Any number of runs is one.
LEMMA RunsCount == \A S \in SUBSET Runs : IsFiniteSet(S) /\ Cardinality(S) \in Nat
  BY GraphBounds, FS_Subset, FS_CardinalityType

\* The parties to the accounts are in flight, now and after a step.
LEMMA Parties ==
    ASSUME Typed, Alone, NEW anyone \in Runs
    PROVE  /\ InFlight \in Nat /\ Cardinality(Drafters) <= InFlight
           /\ \A q \in Quotes : Cardinality(MailedBy(q)) <= InFlight /\ Cardinality(OrderedBy(q)) <= InFlight
<1>1. overlapped \in BOOLEAN
  BY DEF Typed, GraphTypeOK
<1>2. ASSUME NEW S \in SUBSET Runs, \A r \in S : run[r].at # "idle" PROVE Cardinality(S) <= InFlight
  BY <1>1, <1>2, FewInFlight DEF InFlight, Alone, At
<1> QED BY <1>2, RunsCount DEF InFlight, Drafters, MailedBy, OrderedBy, At

LEMMA PartiesNext ==
    ASSUME Typed', Alone', NEW anyone \in Runs
    PROVE  /\ InFlight' \in Nat /\ Cardinality(Drafters') <= InFlight'
           /\ \A q \in Quotes : Cardinality(MailedBy(q)') <= InFlight' /\ Cardinality(OrderedBy(q)') <= InFlight'
<1>1. overlapped' \in BOOLEAN
  BY DEF Typed, GraphTypeOK
<1>2. ASSUME NEW S \in SUBSET Runs, \A r \in S : run'[r].at # "idle" PROVE Cardinality(S) <= InFlight'
  BY <1>1, <1>2, FewInFlight DEF InFlight, Alone, At
<1> QED BY <1>2, RunsCount DEF InFlight, Drafters, MailedBy, OrderedBy, At

LEMMA PartySets ==
    /\ Drafters \in SUBSET Runs /\ Drafters' \in SUBSET Runs
    /\ \A q \in Quotes : /\ MailedBy(q) \in SUBSET Runs /\ MailedBy(q)' \in SUBSET Runs
                         /\ OrderedBy(q) \in SUBSET Runs /\ OrderedBy(q)' \in SUBSET Runs
  BY DEF Drafters, MailedBy, OrderedBy

\* Once runs have overlapped, they have.
LEMMA InFlightGrows ==
    ASSUME overlapped => overlapped', NEW r \in Runs
    PROVE  InFlight \in Nat /\ InFlight' \in Nat /\ InFlight <= InFlight'
<1>1. IsFiniteSet(Runs) /\ Cardinality(Runs) \in Nat
  BY GraphBounds, FS_CardinalityType
<1>2. Cardinality(Runs) # 0
  BY <1>1, FS_EmptySet
<1> QED BY <1>1, <1>2 DEF InFlight

\* A run that is not and will not be between an effect and its commit is party
\* to no account.
Bystander(place) == place \notin {"quote_mailed", "ordered", "drafting"}

LEMMA NoParty ==
    ASSUME NEW r \in Runs, \A s \in Runs \ {r} : run'[s] = run[s],
           Bystander(run[r].at), Bystander(run'[r].at)
    PROVE  Drafters' = Drafters
           /\ \A q \in Quotes : MailedBy(q)' = MailedBy(q) /\ OrderedBy(q)' = OrderedBy(q)
  BY DEF MailedBy, OrderedBy, Drafters, At, Bystander

\* Known rows are finitely many.
LEMMA KnownFinite == IsFiniteSet(Known) /\ Cardinality(Known) \in Nat
<1>1. Known \in SUBSET (1..MaxRfqs) /\ MaxRfqs \in Nat
  BY RowBounds DEF Known, Rfqs
<1>2. IsFiniteSet(1..MaxRfqs)
  BY <1>1, FS_Interval
<1> QED BY <1>1, <1>2, FS_Subset, FS_CardinalityType

\* Steps after which the accounts are what they were.
LEMMA AccountsRest ==
    ASSUME Typed, Typed', Accounts,
           UNCHANGED <<mailed, ordered, bookings>>, Known' = Known,
           \A q \in Quotes : quote'[q] = "sent" <=> quote[q] = "sent",
           crashes <= crashes', faults <= faults', InFlight \in Nat, InFlight' \in Nat, InFlight <= InFlight',
           Drafters' = Drafters,
           \A q \in Quotes : MailedBy(q)' = MailedBy(q) /\ OrderedBy(q)' = OrderedBy(q)
    PROVE  Accounts'
<1>t. /\ mailed \in [Quotes -> Nat] /\ ordered \in [Quotes -> Nat] /\ bookings \in [Quotes -> Nat]
      /\ crashes \in Nat /\ crashes' \in Nat /\ faults \in Nat /\ faults' \in Nat
  BY GraphBounds DEF Typed, GraphTypeOK, DBTypeOK
<1>1. RfqAccount'
  BY KnownFinite, PartySets, RunsCount DEF Accounts, RfqAccount
<1>2. ASSUME NEW q \in Quotes PROVE Account(q)'
  <2>1. /\ Cardinality(MailedBy(q)) \in Nat /\ Cardinality(OrderedBy(q)) \in Nat
        /\ MailedBy(q)' = MailedBy(q) /\ OrderedBy(q)' = OrderedBy(q) /\ Account(q)
    BY PartySets, RunsCount DEF Accounts
  <2>2. mailed[q] \in Nat /\ ordered[q] \in Nat /\ bookings[q] \in Nat
    BY <1>t
  <2>3. (mailed[q] <= crashes + IF quote[q] = "sent" THEN InFlight ELSE Cardinality(MailedBy(q)))'
    BY <1>t, <2>1, <2>2 DEF Account
  <2>4. (ordered[q] <= crashes + faults + IF bookings[q] > 0 THEN InFlight ELSE Cardinality(OrderedBy(q)))'
    BY <1>t, <2>1, <2>2 DEF Account
  <2>5. (bookings[q] + Cardinality(OrderedBy(q)) <= InFlight)'
    BY <1>t, <2>1, <2>2 DEF Account
  <2> QED BY <2>3, <2>4, <2>5 DEF Account
<1> QED BY <1>1, <1>2 DEF Accounts

\* Only the service that opens an RFQ adds one.
LEMMA KnownStays ==
    ASSUME Typed, Backed,
           \/ \E r \in Runs : Requesting(r) \/ Quoting(r) \/ Ending(r)
           \/ \E r \in Runs : Sourcing(r) /\ \A x \in Rfqs : ~OpenRfq(r, x) /\ ~DraftFails(r, x)
           \/ \E complete \in BOOLEAN : Patch(complete)
           \/ \E q \in Quotes, action \in {"approve", "reject"} : Review(q, action)
           \/ \E x \in Rfqs, p \in Suppliers, o \in SupplierQuotes : Answer(x, p, o)
           \/ UNCHANGED vars
    PROVE  Known' = Known
<1>t. DBTypeOK /\ \A r \in Runs : run[r] \in RunRow /\ RunBacked(r)
  BY DEF Typed, GraphTypeOK, RunsOK, Backed
<1>u. ASSUME UNCHANGED rfq PROVE Known' = Known
  BY <1>u DEF Known
\* The status of a known RFQ changes, and it stays known.
<1>c. ASSUME NEW x \in Known, NEW status \in {"complete", rfq[x].status},
             \E received : rfq' = [rfq EXCEPT ![x] = [status |-> status, received |-> received]]
      PROVE  Known' = Known
  <2>1. x \in Rfqs /\ rfq[x].status # "absent" /\ rfq \in RfqRows
    BY <1>t, RowsHave DEF Known
  <2>2. rfq'[x].status = status /\ status # "absent" /\ \A y \in Rfqs \ {x} : rfq'[y] = rfq[y]
    BY <1>c, <2>1 DEF RfqRows
  <2> QED BY <2>1, <2>2 DEF Known
<1>1. ASSUME NEW r \in Runs, SupplierQuotesNode(r) PROVE Known' = Known
  <2>1. RfqId(r) # 0 => RfqId(r) \in Known
    <3>1. CASE run[r].rfq # 0
      BY <3>1, <1>t DEF RunBacked, Known, RfqId, RunRow
    <3>2. CASE run[r].rfq = 0
      BY <3>2, NewestIsThere DEF RfqId
    <3> QED BY <3>1, <3>2
  <2>2. ASSUME NEW seeded, SeedAnswers(RfqId(r), seeded), RfqId(r) # 0 PROVE Known' = Known
    <3>1. PICK x \in Known : x = RfqId(r)
      BY <2>1, <2>2
    <3>2. PICK status \in {"complete", rfq[x].status} : \E received :
              rfq' = [rfq EXCEPT ![x] = [status |-> status, received |-> received]]
      BY <2>2, <3>1 DEF SeedAnswers
    <3> QED BY <3>2, <1>c
  <2> QED BY <1>1, <1>u, <2>2 DEF SupplierQuotesNode
<1>2. ASSUME NEW x \in Rfqs, NEW p \in Suppliers, NEW o \in SupplierQuotes, Answer(x, p, o)
      PROVE  Known' = Known
  <2>1. x \in Known
    BY <1>2 DEF Answer, Known
  <2>2. PICK status \in {"complete", rfq[x].status} : \E received :
            rfq' = [rfq EXCEPT ![x] = [status |-> status, received |-> received]]
    BY <1>2 DEF Answer, CountAnswer
  <2> QED BY <2>1, <2>2, <1>c
<1>3. ASSUME NEW r \in Runs, Requesting(r) \/ Quoting(r) \/ Ending(r) PROVE UNCHANGED rfq
  BY <1>3 DEF Requesting, ResumeGraph, RunGraph, Launch, Ending, Track, TrackVessel, ProviderRaises, Record,
              Die, Quoting,
              Optimize, RefuseOptimize, HitlReview, MailQuote, RefuseSend, CommitSend, RefuseBooking,
              ReuseBooking, OrderSpace, CommitBooking, dbVars
<1>4. ASSUME NEW r \in Runs, Sourcing(r), ~SupplierQuotesNode(r),
             \A x \in Rfqs : ~OpenRfq(r, x) /\ ~DraftFails(r, x)
      PROVE  UNCHANGED rfq
  BY <1>4 DEF Sourcing, Understand, Clarify, Schedules, SaveSchedules, Rates, ReuseRfq, DraftRfq,
              MailRfq, CommitRfq, dbVars, rowsButInquiry
<1>5. ASSUME \/ \E complete \in BOOLEAN : Patch(complete)
             \/ \E q \in Quotes, action \in {"approve", "reject"} : Review(q, action)
             \/ UNCHANGED vars
      PROVE  UNCHANGED rfq
  BY <1>5 DEF Patch, Review, rowsButInquiry, vars
<1> QED BY <1>1, <1>2, <1>3, <1>4, <1>5, <1>u

\* A request begins, or a run ends; a run that dies leaves its effects behind.
LEMMA RequestAccounts ==
    ASSUME Typed, Typed', Alone, Alone', Accounts, NEW r \in Runs, Requesting(r) \/ Ending(r)
    PROVE  Accounts'
<1>t. /\ mailed \in [Quotes -> Nat] /\ ordered \in [Quotes -> Nat] /\ bookings \in [Quotes -> Nat]
      /\ crashes \in Nat /\ crashes' \in Nat /\ faults \in Nat /\ faults' \in Nat
  BY GraphBounds DEF Typed, GraphTypeOK, DBTypeOK
<1>o. \A s \in Runs \ {r} : run'[s] = run[s]
  BY OthersStay
<1>e. "idle" \notin {"quote_mailed", "ordered", "drafting"} /\ "end" \notin {"quote_mailed", "ordered", "drafting"}
      /\ \A node \in NODES : Bystander(node)
  BY DEF Bystander, NODES
<1>l. ASSUME NEW node \in ENTRY_NODES, NEW requested, Launch(r, node, requested) PROVE Accounts'
  <2>1. /\ UNCHANGED <<rfq, quote, mailed, ordered, bookings, crashes, faults>> /\ (overlapped => overlapped')
        /\ At(r, "idle")
    BY <1>l DEF Launch, Together, dbVars, worldVars
  <2>2. Bystander(run[r].at) /\ Bystander(run'[r].at)
    BY <1>l, <1>e, <2>1, RequestPlaces DEF At, Bystander, ENTRY_NODES
  <2>3. Known' = Known
    BY <2>1 DEF Known
  <2> QED BY <1>t, <1>o, <2>1, <2>2, <2>3, InFlightGrows, NoParty, AccountsRest
<1>1. CASE ResumeGraph(r)
  <2>1. cursor.node \in ENTRY_NODES
    BY <1>1 DEF ResumeGraph, Typed, GraphTypeOK
  <2> QED BY <1>1, <2>1, <1>l DEF ResumeGraph
<1>2. ASSUME NEW node \in ENTRY_NODES, NEW requested \in {"unset", "yes", "no"}, RunGraph(r, node, requested)
      PROVE  Accounts'
  BY <1>2, <1>l DEF RunGraph
<1>3. CASE Track(r) \/ TrackVessel(r) \/ Record(r)
  <2>1. /\ UNCHANGED <<rfq, quote, mailed, ordered, bookings, overlapped, faults>> /\ crashes <= crashes'
        /\ run[r].at \in {"end", "vessel_tracking"}
    BY <1>3, <1>t DEF Track, TrackVessel, Record, dbVars, worldVars, graphRest, At
  <2>2. Bystander(run[r].at) /\ Bystander(run'[r].at)
    BY <1>3, <2>1, RequestPlaces DEF Halted, Bystander
  <2>3. Known' = Known
    BY <2>1 DEF Known
  <2> QED BY <1>t, <1>o, <2>1, <2>2, <2>3, InFlightGrows, NoParty, AccountsRest
\* The run leaves the accounts, and its effects behind.
<1>g. ASSUME UNCHANGED <<rfq, quote, mailed, ordered, bookings, overlapped>>, run'[r].at \in {"idle", "end"},
             crashes <= crashes', crashes' + faults' = crashes + faults + 1,
             At(r, "quote_mailed") => crashes' = crashes + 1
      PROVE  Accounts'
  <2>2. Known' = Known /\ InFlight' = InFlight
    BY <1>g DEF Known, InFlight
  <2>3. Drafters' = Drafters \ {r} /\ \A q \in Quotes : /\ MailedBy(q)' = MailedBy(q) \ {r}
                                                         /\ OrderedBy(q)' = OrderedBy(q) \ {r}
    BY <1>g, <1>o, <1>e DEF Drafters, MailedBy, OrderedBy, At
  <2>4. ASSUME NEW S, IsFiniteSet(S)
        PROVE  Cardinality(S \ {r}) \in {Cardinality(S), Cardinality(S) - 1}
    BY <2>4, FS_RemoveElement
  <2>5. Cardinality(Drafters') <= Cardinality(Drafters)
    BY <2>3, <2>4, PartySets, RunsCount
  <2>6. RfqAccount'
    BY <2>2, <2>5, Parties, PartySets, RunsCount, KnownFinite DEF Accounts, RfqAccount
  <2>7. ASSUME NEW q \in Quotes PROVE Account(q)'
    <3> DEFINE m == Cardinality(MailedBy(q))
               o == Cardinality(OrderedBy(q))
    <3>1. m \in Nat /\ o \in Nat /\ InFlight \in Nat /\ m' \in Nat /\ o' \in Nat
      BY Parties, PartySets, RunsCount
    <3>2. m' \in {m, m - 1} /\ o' \in {o, o - 1}
      BY <2>3, <2>4, PartySets, RunsCount
    <3>6. m' = m \/ crashes' = crashes + 1
      <4>1. ~At(r, "quote_mailed") => MailedBy(q)' = MailedBy(q)
        BY <2>3 DEF MailedBy
      <4> QED BY <4>1, <1>g
    <3>3. Account(q) /\ mailed[q] \in Nat /\ ordered[q] \in Nat /\ bookings[q] \in Nat
      BY <1>t DEF Accounts
    <3> HIDE DEF m, o
    <3>4. /\ mailed[q] <= crashes + IF quote[q] = "sent" THEN InFlight ELSE m
          /\ ordered[q] <= crashes + faults + IF bookings[q] > 0 THEN InFlight ELSE o
          /\ bookings[q] + o <= InFlight
      BY <3>3 DEF Account, m, o
    <3>5. /\ mailed'[q] <= crashes' + IF quote'[q] = "sent" THEN InFlight' ELSE m'
          /\ ordered'[q] <= crashes' + faults' + IF bookings'[q] > 0 THEN InFlight' ELSE o'
          /\ bookings'[q] + o' <= InFlight'
      BY <1>g, <1>t, <2>2, <3>1, <3>2, <3>3, <3>4, <3>6
    <3> QED BY <3>5 DEF Account, m, o
  <2> QED BY <2>6, <2>7 DEF Accounts
<1>4. CASE Die(r)
  <2>1. /\ UNCHANGED <<rfq, quote, mailed, ordered, bookings, overlapped, faults>> /\ crashes' = crashes + 1
        /\ run'[r].at = "idle"
    BY <1>4, RequestPlaces DEF Die, dbVars, worldVars
  <2> QED BY <1>t, <1>g, <2>1
<1>5. CASE ProviderRaises(r)
  <2>1. /\ UNCHANGED <<rfq, quote, mailed, ordered, bookings, overlapped, crashes>> /\ faults' = faults + 1
        /\ run'[r].at = "end" /\ ~At(r, "quote_mailed")
    BY <1>5, RaisedHalt, RequestPlaces DEF Halted, At, ENTRY_NODES, NODES, dbVars, worldVars
  <2> QED BY <1>t, <1>g, <2>1
<1> QED BY <1>1, <1>2, <1>3, <1>4, <1>5 DEF Requesting, Ending

\* A run that finds no RFQ becomes a drafter, and stops being one when its RFQ
\* is there.
LEMMA SourcingAccounts ==
    ASSUME Typed, Typed', Backed, Alone, Alone', Accounts, NEW r \in Runs, Sourcing(r)
    PROVE  Accounts'
<1>t. /\ mailed \in [Quotes -> Nat] /\ ordered \in [Quotes -> Nat] /\ bookings \in [Quotes -> Nat]
      /\ crashes \in Nat /\ faults \in Nat /\ faults' \in Nat /\ DBTypeOK /\ run[r] \in RunRow /\ RunBacked(r)
  BY GraphBounds DEF Typed, GraphTypeOK, DBTypeOK, RunsOK, Backed
<1>o. \A s \in Runs \ {r} : run'[s] = run[s]
  BY OthersStay
<1>f. UNCHANGED <<quote, mailed, ordered, bookings, crashes, overlapped>> /\ faults' \in {faults, faults + 1}
  BY DEF Sourcing, Understand, Clarify, Schedules, SaveSchedules, Rates, ReuseRfq, DraftRfq, OpenRfq,
         DraftFails, MailRfq, CommitRfq, SupplierQuotesNode, dbVars, worldVars, rowsButInquiry, graphRest
<1>i. InFlight' = InFlight
  BY <1>f DEF InFlight
<1>q. ASSUME Bystander(run[r].at), Bystander(run'[r].at), Known' = Known PROVE Accounts'
  BY <1>q, <1>t, <1>o, <1>f, InFlightGrows, NoParty, AccountsRest
\* The accounts of the quotations when a drafter comes or goes.
<1>d. ASSUME run[r].at \in {"rfq", "drafting"}, run'[r].at \in {"drafting", "mailing_rfq", "end"}, RfqAccount'
      PROVE  Accounts'
  <2>1. \A q \in Quotes : MailedBy(q)' = MailedBy(q) /\ OrderedBy(q)' = OrderedBy(q)
    BY <1>d, <1>o DEF MailedBy, OrderedBy, At
  <2>2. ASSUME NEW q \in Quotes PROVE Account(q)'
    <3>1. /\ ordered[q] \in Nat /\ faults <= faults' /\ Cardinality(OrderedBy(q)) \in Nat /\ InFlight \in Nat
          /\ Account(q)
      BY <1>t, <1>f, Parties, PartySets, RunsCount DEF Accounts
    <3> QED BY <1>t, <1>f, <1>i, <2>1, <3>1 DEF Account
  <2> QED BY <1>d, <2>2 DEF Accounts
<1>1. CASE DraftRfq(r) /\ run'[r].at = "drafting"
  <2>1. Known = {} /\ Known' = {}
    <3>1. Known = {}
      BY <1>1, RowBounds, NewestIsThere, MaxIsMember DEF DraftRfq, NewestRfq, Known, Rfqs
    <3> QED BY <1>1, <3>1 DEF DraftRfq, dbVars, Known
  <2>2. RfqAccount'
    BY <2>1, PartiesNext, PartySets, RunsCount, FS_EmptySet DEF RfqAccount
  <2> QED BY <1>1, <1>d, <2>2 DEF DraftRfq, At
<1>2. ASSUME NEW x \in Rfqs, OpenRfq(r, x) \/ DraftFails(r, x) PROVE Accounts'
  <2>1. Known' = Known \cup {x} /\ x \notin Known
    BY <1>2, <1>t DEF OpenRfq, DraftFails, NextRfq, InsertRfq, Known, DBTypeOK
  <2>2. run'[r].at \in {"mailing_rfq", "end"} /\ At(r, "drafting")
    BY <1>2, SourcingPlaces DEF OpenRfq, DraftFails, Moves, Halted
  <2>3. Drafters' = Drafters \ {r} /\ r \in Drafters
    BY <1>o, <2>2 DEF Drafters, At
  <2>4. Cardinality(Known)' = Cardinality(Known) + 1
    BY <2>1, KnownFinite, FS_AddElement
  <2>5. Cardinality(Drafters)' = Cardinality(Drafters) - 1
    BY <2>3, PartySets, RunsCount, FS_RemoveElement
  <2>6. RfqAccount'
    BY <1>i, <2>4, <2>5, Parties, PartySets, RunsCount, KnownFinite DEF Accounts, RfqAccount
  <2> QED BY <1>d, <2>2, <2>6 DEF At
<1>3. CASE ~(DraftRfq(r) /\ run'[r].at = "drafting") /\ ~\E x \in Rfqs : OpenRfq(r, x) \/ DraftFails(r, x)
  <2>1. Known' = Known
    BY <1>3, KnownStays
  <2>2. Bystander(run[r].at)
    BY <1>3 DEF Sourcing, Understand, Clarify, Schedules, SaveSchedules, Rates, ReuseRfq, DraftRfq,
         MailRfq, CommitRfq, SupplierQuotesNode, At, Bystander
  <2>3. SaveSchedules(r) \/ CommitRfq(r) => Bystander(run'[r].at)
    <3>1. "rates" \in NODES /\ "supplier_quotes" \in NODES
      BY DEF NODES
    <3> QED BY <3>1, AdvanceMoves DEF SaveSchedules, CommitRfq, Halted, Bystander
  <2>4. Bystander(run'[r].at)
    BY <1>3, <2>3, SourcingPlaces DEF Sourcing, Moves, Halted, Bystander
  <2> QED BY <1>q, <2>1, <2>2, <2>4
<1> QED BY <1>1, <1>2, <1>3

\* A run becomes a party when it mails or orders, and stops being one when it
\* commits.
LEMMA QuotingAccounts ==
    ASSUME Typed, Typed', Backed, Alone, Alone', Accounts, NEW r \in Runs, Quoting(r)
    PROVE  Accounts'
<1>t. /\ mailed \in [Quotes -> Nat] /\ ordered \in [Quotes -> Nat] /\ bookings \in [Quotes -> Nat]
      /\ quote \in [Quotes -> QuoteStatus]
      /\ crashes \in Nat /\ faults \in Nat /\ run[r] \in RunRow /\ Sound(run[r])
  BY GraphBounds DEF Typed, GraphTypeOK, DBTypeOK, RunsOK
<1>o. \A s \in Runs \ {r} : run'[s] = run[s]
  BY OthersStay
<1>f. /\ UNCHANGED <<crashes, faults, overlapped, rfq>> /\ Known' = Known /\ InFlight' = InFlight
  <2>1. UNCHANGED <<crashes, faults, overlapped, rfq>>
    BY DEF Quoting, Optimize, RefuseOptimize, HitlReview, MailQuote, RefuseSend, CommitSend, RefuseBooking,
           ReuseBooking, OrderSpace, CommitBooking, dbVars, graphRest
  <2> QED BY <2>1 DEF Known, InFlight
<1>i. InFlight \in Nat /\ \A S \in SUBSET Runs : IsFiniteSet(S) /\ Cardinality(S) \in Nat
  BY Parties, RunsCount
<1>q. \A q \in Quotes : /\ mailed[q] \in Nat /\ ordered[q] \in Nat /\ bookings[q] \in Nat /\ Account(q)
                        /\ MailedBy(q) \in SUBSET Runs /\ OrderedBy(q) \in SUBSET Runs
                        /\ MailedBy(q)' \in SUBSET Runs /\ OrderedBy(q)' \in SUBSET Runs
                        /\ Cardinality(MailedBy(q)) <= InFlight /\ Cardinality(OrderedBy(q)) <= InFlight
                        /\ Cardinality(MailedBy(q)') <= InFlight /\ Cardinality(OrderedBy(q)') <= InFlight
  BY <1>t, <1>f, PartySets, Parties, PartiesNext DEF Accounts
<1>k. RfqAccount /\ QuoteId(r) \in Quotes \cup {0}
  BY NewestInTable DEF Accounts, Typed
<1>p. ASSUME NEW q \in Quotes, Account(q)', Drafters' = Drafters,
             \A p \in Quotes \ {q} : /\ mailed'[p] = mailed[p] /\ ordered'[p] = ordered[p]
                                     /\ bookings'[p] = bookings[p] /\ quote'[p] = quote[p]
                                     /\ MailedBy(p)' = MailedBy(p) /\ OrderedBy(p)' = OrderedBy(p)
      PROVE  Accounts'
  <2>1. ASSUME NEW p \in Quotes \ {q} PROVE Account(p)'
    BY <1>p, <1>q, <1>f, <2>1 DEF Account
  <2> QED BY <1>f, <1>k, <1>p, <2>1 DEF Accounts, RfqAccount
<1>1. CASE MailQuote(r)
  <2>1. PICK q \in Quotes : q = QuoteId(r) /\ quote[q] = "approved"
    BY <1>1, <1>k DEF MailQuote, MayMail
  <2>2. mailed' = [mailed EXCEPT ![q] = @ + 1] /\ UNCHANGED <<quote, bookings, ordered>>
        /\ run[r].at = "quote_send" /\ run'[r].at = "quote_mailed" /\ run'[r].quote = q
    BY <1>1, <2>1, QuotingPlaces DEF MailQuote, MayMail, dbVars, At
  <2>3. /\ MailedBy(q)' = MailedBy(q) \cup {r} /\ r \notin MailedBy(q) /\ Drafters' = Drafters
        /\ \A p \in Quotes : OrderedBy(p)' = OrderedBy(p)
        /\ \A p \in Quotes \ {q} : MailedBy(p)' = MailedBy(p)
    BY <1>o, <2>2 DEF MailedBy, OrderedBy, Drafters, At
  <2>4. Cardinality(MailedBy(q)') = Cardinality(MailedBy(q)) + 1
    BY <1>i, <1>q, <2>1, <2>3, FS_AddElement
  <2>5. mailed'[q] = mailed[q] + 1 /\ \A p \in Quotes \ {q} : mailed'[p] = mailed[p]
    BY <1>t, <2>1, <2>2
  <2>6. Account(q)'
    <3>1. mailed[q] <= crashes + Cardinality(MailedBy(q)) /\ Account(q)
      BY <1>q, <2>1 DEF Account
    <3>2. mailed'[q] <= crashes' + Cardinality(MailedBy(q)')
      BY <1>t, <1>q, <1>i, <1>f, <2>1, <2>4, <2>5, <3>1
    <3>3. quote'[q] # "sent" /\ ordered' = ordered /\ bookings' = bookings /\ OrderedBy(q)' = OrderedBy(q)
      BY <2>1, <2>2, <2>3
    <3> QED BY <1>f, <3>1, <3>2, <3>3 DEF Account
  <2> QED BY <1>p, <2>1, <2>2, <2>3, <2>5, <2>6
<1>2. CASE CommitSend(r)
  <2>1. PICK q \in Quotes : q = run[r].quote /\ run[r].at = "quote_mailed"
    BY <1>2, <1>t DEF CommitSend, At, Sound, RunRow
  <2>2. quote' = [quote EXCEPT ![q] = "sent"] /\ UNCHANGED <<mailed, bookings, ordered>>
    BY <1>2, <2>1 DEF CommitSend, SetQuote, worldVars
  <2>3. run'[r].at \in {"booking", "end"}
    <3>1. "booking" \in NODES
      BY DEF NODES
    <3> QED BY <1>2, <3>1, AdvanceMoves DEF CommitSend, Halted
  <2>4. /\ Drafters' = Drafters
        /\ \A p \in Quotes : OrderedBy(p)' = OrderedBy(p)
        /\ \A p \in Quotes \ {q} : MailedBy(p)' = MailedBy(p)
    BY <1>o, <2>1, <2>3 DEF MailedBy, OrderedBy, Drafters, At
  <2>5. quote'[q] = "sent" /\ \A p \in Quotes \ {q} : quote'[p] = quote[p]
    BY <1>t, <2>1, <2>2
  <2>6. Account(q)'
    <3>1. mailed[q] <= crashes + InFlight /\ Account(q)
      BY <1>t, <1>i, <1>q, <2>1 DEF Account
    <3> QED BY <1>f, <2>1, <2>2, <2>4, <2>5, <3>1 DEF Account
  <2> QED BY <1>p, <2>1, <2>2, <2>4, <2>5, <2>6
<1>3. CASE OrderSpace(r)
  <2>1. PICK q \in Quotes : q = QuoteId(r) /\ bookings[q] = 0
    BY <1>3, <1>k DEF OrderSpace, MayOrder
  <2>2. ordered' = [ordered EXCEPT ![q] = @ + 1] /\ UNCHANGED <<quote, bookings, mailed>>
        /\ run[r].at = "booking" /\ run'[r].at = "ordered" /\ run'[r].quote = q
    BY <1>3, <2>1, QuotingPlaces DEF OrderSpace, MayOrder, dbVars, At
  <2>3. /\ OrderedBy(q)' = OrderedBy(q) \cup {r} /\ r \notin OrderedBy(q) /\ Drafters' = Drafters
        /\ \A p \in Quotes : MailedBy(p)' = MailedBy(p)
        /\ \A p \in Quotes \ {q} : OrderedBy(p)' = OrderedBy(p)
    BY <1>o, <2>2 DEF MailedBy, OrderedBy, Drafters, At
  <2>4. Cardinality(OrderedBy(q)') = Cardinality(OrderedBy(q)) + 1
    BY <1>i, <1>q, <2>1, <2>3, FS_AddElement
  <2>5. ordered'[q] = ordered[q] + 1 /\ \A p \in Quotes \ {q} : ordered'[p] = ordered[p]
    BY <1>t, <2>1, <2>2
  <2>6. Account(q)'
    <3>1. ordered[q] <= crashes + faults + Cardinality(OrderedBy(q)) /\ Account(q)
      BY <1>q, <2>1 DEF Account
    <3>2. ordered'[q] <= crashes' + faults' + Cardinality(OrderedBy(q)')
      BY <1>t, <1>q, <1>i, <1>f, <2>1, <2>4, <2>5, <3>1
    <3>3. bookings'[q] = 0 /\ bookings'[q] + Cardinality(OrderedBy(q)') <= InFlight'
      BY <1>q, <1>i, <1>f, <2>1, <2>2
    <3>4. mailed' = mailed /\ quote' = quote /\ MailedBy(q)' = MailedBy(q)
      BY <2>1, <2>2, <2>3
    <3> QED BY <1>f, <3>1, <3>2, <3>3, <3>4 DEF Account
  <2> QED BY <1>p, <2>1, <2>2, <2>3, <2>5, <2>6
<1>4. CASE CommitBooking(r)
  <2>1. PICK q \in Quotes : q = run[r].quote /\ run[r].at = "ordered"
    BY <1>4, <1>t DEF CommitBooking, At, Sound, RunRow
  <2>2. bookings' = [bookings EXCEPT ![q] = @ + 1] /\ UNCHANGED <<mailed, quote, ordered>>
    BY <1>4, <2>1 DEF CommitBooking, InsertBooking, worldVars
  <2>3. run'[r].at \in {"vessel_tracking", "end"}
    <3>1. "vessel_tracking" \in NODES
      BY DEF NODES
    <3> QED BY <1>4, <3>1, AdvanceMoves DEF CommitBooking, Halted
  <2>4. r \in OrderedBy(q)
    BY <2>1 DEF OrderedBy, At
  <2>5. /\ OrderedBy(q)' = OrderedBy(q) \ {r} /\ Drafters' = Drafters
        /\ \A p \in Quotes : MailedBy(p)' = MailedBy(p)
        /\ \A p \in Quotes \ {q} : OrderedBy(p)' = OrderedBy(p)
    BY <1>o, <2>1, <2>3 DEF MailedBy, OrderedBy, Drafters, At
  <2>6. Cardinality(OrderedBy(q)') = Cardinality(OrderedBy(q)) - 1
    BY <1>i, <1>q, <2>1, <2>4, <2>5, FS_RemoveElement
  <2>7. bookings'[q] = bookings[q] + 1 /\ \A p \in Quotes \ {q} : bookings'[p] = bookings[p]
    BY <1>t, <2>1, <2>2
  <2>8. Account(q)'
    <3>1. ordered[q] <= crashes + faults + InFlight /\ Account(q) /\ bookings[q] + Cardinality(OrderedBy(q)) <= InFlight
      BY <1>t, <1>i, <1>q, <2>1 DEF Account
    <3>2. bookings'[q] + Cardinality(OrderedBy(q)') <= InFlight'
      BY <1>q, <1>i, <1>f, <2>1, <2>6, <2>7, <3>1
    <3>3. bookings'[q] > 0
      BY <1>q, <2>1, <2>7
    <3> QED BY <1>f, <2>1, <2>2, <2>5, <3>1, <3>2, <3>3 DEF Account
  <2> QED BY <1>p, <2>1, <2>2, <2>5, <2>7, <2>8
<1>5. CASE ~MailQuote(r) /\ ~CommitSend(r) /\ ~OrderSpace(r) /\ ~CommitBooking(r)
  <2>1. UNCHANGED <<mailed, ordered, bookings>>
    BY <1>5 DEF Quoting, Optimize, RefuseOptimize, HitlReview, RefuseSend, RefuseBooking,
                ReuseBooking, dbVars, worldVars
  <2>2. \A q \in Quotes : quote'[q] = "sent" <=> quote[q] = "sent"
    <3>1. UNCHANGED quote \/ \E p \in Quotes : quote[p] = "absent" /\ quote' = [quote EXCEPT ![p] = "waiting_approval"]
      BY <1>5 DEF Quoting, Optimize, NextQuote, SetQuote, RefuseOptimize, HitlReview, RefuseSend, RefuseBooking,
                  ReuseBooking, dbVars
    <3> QED BY <3>1, <1>t
  <2>3. Bystander(run[r].at)
    BY <1>5 DEF Quoting, Optimize, RefuseOptimize, HitlReview, RefuseSend, RefuseBooking, ReuseBooking,
                MayOrder, At, Bystander
  <2>4. Bystander(run'[r].at)
    BY <1>5, QuotingPlaces DEF Quoting, Moves, Halted, Bystander
  <2> QED BY <1>t, <1>i, <1>f, <1>o, <2>1, <2>2, <2>3, <2>4, NoParty, AccountsRest
<1> QED BY <1>1, <1>2, <1>3, <1>4, <1>5

LEMMA OthersAccounts ==
    ASSUME Typed, Typed', Backed, Accounts,
           \/ \E complete \in BOOLEAN : Patch(complete)
           \/ \E q \in Quotes, action \in {"approve", "reject"} : Review(q, action)
           \/ \E x \in Rfqs, p \in Suppliers, o \in SupplierQuotes : Answer(x, p, o)
           \/ UNCHANGED vars
    PROVE  Accounts'
<1>t. quote \in [Quotes -> QuoteStatus] /\ rfq \in RfqRows /\ crashes \in Nat /\ faults \in Nat
  BY GraphBounds, RowsHave DEF Typed, GraphTypeOK
<1>1. UNCHANGED <<mailed, ordered, bookings, run, crashes, faults, overlapped>>
  BY DEF Patch, Review, Answer, rowsButInquiry, worldVars, graphRest, vars
<1>2. \A q \in Quotes : quote'[q] = "sent" <=> quote[q] = "sent"
  <2>1. \/ UNCHANGED quote
        \/ \E q \in Quotes, status \in {"approved", "rejected"} :
              quote[q] = "waiting_approval" /\ quote' = [quote EXCEPT ![q] = status]
    BY DEF Patch, Review, Answer, rowsButInquiry, vars, SetQuote
  <2> QED BY <2>1, <1>t
<1>3. Known' = Known
  BY KnownStays
<1>4. /\ InFlight' = InFlight /\ InFlight \in Nat /\ Drafters' = Drafters
      /\ \A q \in Quotes : MailedBy(q)' = MailedBy(q) /\ OrderedBy(q)' = OrderedBy(q)
  BY <1>1, RunsCount DEF InFlight, Drafters, MailedBy, OrderedBy, At
<1> QED BY <1>t, <1>1, <1>2, <1>3, <1>4, AccountsRest

LEMMA StepAccounts ==
    Typed /\ Typed' /\ Backed /\ Alone /\ Alone' /\ Accounts /\ [GraphNext]_vars => Accounts'
<1> SUFFICES ASSUME Typed, Typed', Backed, Alone, Alone', Accounts, [GraphNext]_vars PROVE Accounts'
  OBVIOUS
<1> QED BY RequestAccounts, SourcingAccounts, QuotingAccounts, OthersAccounts DEF GraphNext

LEMMA InitAccounts == GraphInit => Alone /\ Accounts
<1> SUFFICES ASSUME GraphInit PROVE Alone /\ Accounts
  OBVIOUS
<1>1. \A r \in Runs : run[r].at = "idle"
  BY DEF GraphInit, NoRun
<1>2. Drafters = {} /\ Known = {} /\ \A q \in Quotes : MailedBy(q) = {} /\ OrderedBy(q) = {}
  BY <1>1 DEF Drafters, MailedBy, OrderedBy, Known, At, GraphInit, DBInit
<1>3. InFlight = 1 /\ crashes = 0 /\ faults = 0 /\ \A q \in Quotes : mailed[q] = 0 /\ ordered[q] = 0 /\ bookings[q] = 0
  BY DEF GraphInit, DBInit, InFlight
<1>4. RfqAccount
  BY <1>2, <1>3, FS_EmptySet DEF RfqAccount
<1>5. ASSUME NEW q \in Quotes PROVE Account(q)
  <2>1. Cardinality(MailedBy(q)) = 0 /\ Cardinality(OrderedBy(q)) = 0
    BY <1>2, FS_EmptySet
  <2>2. quote[q] # "sent" /\ bookings[q] = 0
    BY DEF GraphInit, DBInit
  <2> QED BY <1>3, <2>1, <2>2 DEF Account
<1> QED BY <1>1, <1>4, <1>5 DEF Alone, At, Accounts

\* Runs of app/graph/runner.py that follow one another open one RFQ and store one
\* booking per quotation, and repeat an e-mail only if one died, an order only if
\* one died or ended in an error, whatever node they start or resume at; and runs
\* that overlap repeat an e-mail, an order, a booking or an RFQ once each at the
\* most, although every node checks and acts in two separate steps.
THEOREM GraphEffectsAreBounded == GraphSpec => []EffectsBounded
<1>1. Typed /\ Alone /\ Accounts => EffectsBounded
  <2> SUFFICES ASSUME Typed, Alone, Accounts
               PROVE  /\ \A q \in Quotes : /\ mailed[q] <= InFlight + crashes
                                           /\ ordered[q] <= InFlight + crashes + faults
                                           /\ bookings[q] <= InFlight
                      /\ Cardinality(Known) <= InFlight
    BY DEF EffectsBounded, InFlight
  <2>t. crashes \in Nat /\ faults \in Nat /\ InFlight \in Nat
    BY GraphBounds, RunsCount DEF Typed, GraphTypeOK, InFlight
  <2>1. ASSUME NEW q \in Quotes
        PROVE  /\ mailed[q] <= InFlight + crashes /\ ordered[q] <= InFlight + crashes + faults
               /\ bookings[q] <= InFlight
    <3> DEFINE m == Cardinality(MailedBy(q))
               o == Cardinality(OrderedBy(q))
    <3>1. m \in Nat /\ o \in Nat
      BY PartySets, RunsCount
    <3>2. mailed[q] \in Nat /\ ordered[q] \in Nat /\ bookings[q] \in Nat
      BY DEF Typed, GraphTypeOK, DBTypeOK
    <3>3. (Runs = {} => m = 0 /\ o = 0) /\ (Runs # {} => m <= InFlight /\ o <= InFlight)
      BY PartySets, Parties, FS_EmptySet
    <3>4. /\ mailed[q] <= crashes + IF quote[q] = "sent" THEN InFlight ELSE m
          /\ ordered[q] <= crashes + faults + IF bookings[q] > 0 THEN InFlight ELSE o
          /\ bookings[q] + o <= InFlight
      BY DEF Accounts, Account
    <3> HIDE DEF m, o
    <3> QED BY <2>t, <3>1, <3>2, <3>3, <3>4
  <2>2. Cardinality(Known) <= InFlight
    BY <2>t, KnownFinite, PartySets, RunsCount DEF Accounts, RfqAccount
  <2> QED BY <2>1, <2>2
<1> QED
  BY <1>1, InitTyped, StepTyped, InitBacked, StepBacked, InitAccounts, AloneStep, StepAccounts, PTL DEF GraphSpec

-----------------------------------------------------------------------------
(* Whom a waiting run waits for *)

\* Between the commit of an RFQ and its e-mails there is the run that will send
\* them, or there was one that died or was stopped by an error.
Asked == crashes + faults = 0 /\ Known # {} => rfqMailed # {} \/ \E r \in Runs : At(r, "mailing_rfq")

LEMMA StepAsked == Typed /\ Backed /\ Asked /\ [GraphNext]_vars => Asked'
<1> SUFFICES ASSUME Typed, Backed, Asked, [GraphNext]_vars, crashes' + faults' = 0, Known' # {}
             PROVE  rfqMailed' # {} \/ \E r \in Runs : At(r, "mailing_rfq")'
  BY DEF Asked
<1>t. crashes \in Nat /\ faults \in Nat
  BY GraphBounds DEF Typed, GraphTypeOK
<1>f. \A r \in Runs : ~Die(r) /\ ~TrackVessel(r) /\ ~ProviderRaises(r) /\ \A x \in Rfqs : ~DraftFails(r, x)
  <2>1. ASSUME NEW r \in Runs, Die(r) \/ TrackVessel(r) PROVE crashes' = crashes + 1 /\ faults' = faults
    BY <2>1 DEF Die, TrackVessel
  <2>2. ASSUME NEW r \in Runs, ProviderRaises(r) \/ \E x \in Rfqs : DraftFails(r, x)
        PROVE  crashes' = crashes /\ faults' = faults + 1
    BY <2>2 DEF ProviderRaises, DraftFails
  <2> QED BY <1>t, <2>1, <2>2
<1>1. ASSUME NEW r \in Runs, NEW x \in Rfqs, OpenRfq(r, x) PROVE At(r, "mailing_rfq")'
  BY <1>1, SourcingPlaces DEF Moves, At
<1>2. ASSUME NEW r \in Runs, MailRfq(r) PROVE rfqMailed' # {}
  BY <1>2 DEF MailRfq
<1>3. CASE (\A r \in Runs, x \in Rfqs : ~OpenRfq(r, x)) /\ (\A r \in Runs : ~MailRfq(r))
  <2>1. Known # {}
    <3>1. ASSUME NEW r \in Runs, Sourcing(r) PROVE \A x \in Rfqs : ~OpenRfq(r, x) /\ ~DraftFails(r, x)
      BY <1>3, <1>f
    <3> QED BY <3>1, KnownStays DEF GraphNext
  <2>2. crashes' = crashes /\ faults' = faults /\ rfqMailed' = rfqMailed
    BY <1>3, <1>f
       DEF GraphNext, Requesting, ResumeGraph, RunGraph, Launch, Sourcing, Understand, Clarify, Schedules,
           SaveSchedules, Rates, ReuseRfq, DraftRfq, CommitRfq, SupplierQuotesNode, Quoting, Optimize,
           RefuseOptimize, HitlReview, MailQuote, RefuseSend, CommitSend, RefuseBooking, ReuseBooking,
           OrderSpace, CommitBooking, Ending, Track, Record, Patch, Review, Answer,
           worldVars, graphRest, vars
  <2>3. ASSUME NEW s \in Runs, At(s, "mailing_rfq") PROVE run'[s] = run[s]
    <3>1. ASSUME NEW r \in Runs, Requesting(r) \/ Sourcing(r) \/ Quoting(r) \/ Ending(r) PROVE run'[s] = run[s]
      <4>1. ~At(r, "mailing_rfq")
        BY <3>1, <1>3, <1>f
           DEF Requesting, ResumeGraph, RunGraph, Launch, Sourcing, Understand, Clarify, Schedules,
               SaveSchedules, Rates, ReuseRfq, DraftRfq, CommitRfq, SupplierQuotesNode, Quoting, Optimize,
               RefuseOptimize, HitlReview, MailQuote, MayMail, RefuseSend, CommitSend, RefuseBooking,
               ReuseBooking, MayOrder, OrderSpace, CommitBooking, Ending, Track, Record, At
      <4> QED BY <2>3, <3>1, <4>1, OthersStay
    <3>2. ASSUME \/ \E complete \in BOOLEAN : Patch(complete)
                 \/ \E q \in Quotes, action \in {"approve", "reject"} : Review(q, action)
                 \/ \E x \in Rfqs, p \in Suppliers, o \in SupplierQuotes : Answer(x, p, o)
                 \/ UNCHANGED vars
          PROVE  run'[s] = run[s]
      BY <3>2 DEF Patch, Review, Answer, vars
    <3> QED BY <3>1, <3>2 DEF GraphNext
  <2> QED BY <2>1, <2>2, <2>3 DEF Asked, At
<1> QED BY <1>1, <1>2, <1>3

\* A run of app/graph/builder.py that halts to wait for suppliers waits for
\* somebody who was asked, whatever other runs do meanwhile: the row of the RFQ,
\* which the drafting agent commits before the first e-mail leaves, is found by
\* others at once, and yet only a run that died or failed in between can leave it
\* unsent.
THEOREM GraphWaitsForTheAsked == GraphSpec => []WaitsForTheAsked
<1>1. GraphInit => Asked
  BY DEF GraphInit, DBInit, Asked, Known
<1>2. Backed /\ Asked => WaitsForTheAsked
  BY DEF Backed, CursorRests, Asked, WaitsForTheAsked, At
<1> QED BY <1>1, <1>2, InitTyped, StepTyped, InitBacked, StepBacked, StepAsked, PTL DEF GraphSpec

-----------------------------------------------------------------------------
(* Runs one after the other *)

NewestStatus == IF NewestQuote = 0 THEN "absent" ELSE quote[NewestQuote]

Gapless == \A q \in Quotes : quote[q] # "absent" => \A p \in 1..(q-1) : quote[p] # "absent"

\* What a run remembers while nothing else is in flight: the quotation it
\* carries is the newest, and the status it loaded can only have gone stale by
\* an edit of the content or, once a quotation is there, by a verdict on it.
SerialRun(r) ==
    /\ run[r].quote # 0 => /\ run[r].quote = NewestQuote
                           /\ run[r].at \in {"quote_send", "quote_mailed", "booking", "ordered"}
    /\ run[r].at \in {"searching", "drafting", "mailing_rfq", "rfq_mailed"} =>
          /\ run[r].seen \in InquiryStatus
          /\ run[r].seen = "ready" => inquiry.status \in CONTENT_EDITABLE
          /\ run[r].seen = "scheduled" => inquiry.status = "scheduled"
    /\ run[r].at = "quote_mailed" => NewestStatus = "approved" /\ run[r].seen = "approved"

InOrder ==
    ~overlapped =>
        /\ Gapless
        /\ NewestStatus = "approved" => inquiry.status = "approved"
        /\ \A r \in Runs : SerialRun(r)

\* A step after which the quotations are what they were.
LEMMA QuotesRest ==
    ASSUME UNCHANGED quote
    PROVE  NewestQuote' = NewestQuote /\ NewestStatus' = NewestStatus /\ (Gapless => Gapless')
  BY DEF NewestQuote, NewestStatus, Priced, Gapless

\* A verdict or a send: the same quotations, one of which changes its status.
LEMMA QuoteTurns ==
    ASSUME Typed, NEW q \in Priced, NEW status, status # "absent", SetQuote(q, status)
    PROVE  /\ NewestQuote' = NewestQuote /\ (Gapless => Gapless')
           /\ q = NewestQuote => NewestStatus' = status
           /\ q # NewestQuote => NewestStatus' = NewestStatus
<1>1. quote \in [Quotes -> QuoteStatus] /\ q \in Quotes
  BY DEF Typed, GraphTypeOK, DBTypeOK, Priced
<1>2. quote'[q] = status /\ \A p \in Quotes \ {q} : quote'[p] = quote[p]
  BY <1>1 DEF SetQuote
<1>3. \A p \in Quotes : quote'[p] # "absent" <=> quote[p] # "absent"
  BY <1>1, <1>2 DEF Priced
<1>4. Priced' = Priced /\ NewestQuote' = NewestQuote
  BY <1>3 DEF Priced, NewestQuote
<1>5. Gapless => Gapless'
  BY <1>3, RowBounds DEF Gapless, Quotes
<1>6. NewestQuote # 0
  <2>1. Priced # {} /\ Priced \in SUBSET (1..MaxQuotes) /\ MaxQuotes \in Nat
    BY RowBounds DEF Priced, Quotes
  <2>2. Max(Priced) \in Priced
    BY <2>1, MaxIsMember
  <2> QED BY <2>1, <2>2 DEF NewestQuote
<1>7. NewestQuote \in Quotes
  BY <1>6, NewestInTable DEF Typed
<1> QED BY <1>2, <1>4, <1>5, <1>6, <1>7 DEF NewestStatus

\* A quotation is priced, and is the newest.
LEMMA QuotePriced ==
    ASSUME Typed, Gapless, NEW q \in Quotes, NextQuote(q), SetQuote(q, "waiting_approval")
    PROVE  NewestQuote' = q /\ NewestStatus' = "waiting_approval" /\ Gapless'
<1>1. quote \in [Quotes -> QuoteStatus] /\ MaxQuotes \in Nat
  BY RowBounds DEF Typed, GraphTypeOK, DBTypeOK
<1>2. quote'[q] = "waiting_approval" /\ \A p \in Quotes \ {q} : quote'[p] = quote[p]
  BY <1>1 DEF SetQuote
<1>3. \A p \in Quotes : quote[p] # "absent" => p < q
  BY <1>1 DEF Gapless, NextQuote, Quotes
<1>4. Priced' \in SUBSET (1..MaxQuotes) /\ q \in Priced' /\ \A p \in Priced' : p <= q
  BY <1>1, <1>2, <1>3 DEF Priced, Quotes
<1>5. Max(Priced') \in Priced' /\ q <= Max(Priced')
  BY <1>1, <1>4, MaxIsMember
<1>6. NewestQuote' = q
  <2>1. PICK m \in Priced' : m = Max(Priced')
    BY <1>5
  <2>2. m <= q /\ q <= m /\ m \in 1..MaxQuotes /\ q \in 1..MaxQuotes
    BY <1>4, <1>5, <2>1
  <2>3. m = q
    BY <1>1, <2>2
  <2> QED BY <1>4, <2>1, <2>3 DEF NewestQuote
<1>7. Gapless'
  BY <1>1, <1>2, <1>3 DEF Gapless, NextQuote, Quotes
<1> QED BY <1>2, <1>6, <1>7 DEF NewestStatus, Quotes

\* A step of the only run in flight is about that run.
LEMMA InOrderParts ==
    ASSUME Typed, Alone, InOrder, NEW r \in Runs, ~overlapped, ~At(r, "idle"),
           \A s \in Runs \ {r} : run'[s] = run[s],
           Gapless', NewestStatus' = "approved" => inquiry'.status = "approved", SerialRun(r)'
    PROVE  InOrder'
<1>1. ASSUME NEW s \in Runs \ {r} PROVE SerialRun(s)'
  <2>1. run[s].at = "idle" /\ SerialRun(s)
    BY DEF Alone, At, InOrder
  <2>2. run[s].quote = 0
    BY <2>1 DEF SerialRun
  <2> QED BY <2>1, <2>2 DEF SerialRun
<1> QED BY <1>1 DEF InOrder

\* A run that carries no quotation and is in no node that awaits.
LEMMA PlainRun ==
    ASSUME NEW r \in Runs, run'[r].quote = 0,
           run'[r].at \notin {"searching", "drafting", "mailing_rfq", "rfq_mailed", "quote_mailed"}
    PROVE  SerialRun(r)'
  BY DEF SerialRun

LEMMA RequestInOrder ==
    ASSUME Typed, Alone, InOrder, NEW r \in Runs, Requesting(r) \/ Ending(r)
    PROVE  InOrder'
<1> SUFFICES ASSUME ~overlapped' PROVE InOrder'
  BY DEF InOrder
<1>o. \A s \in Runs \ {r} : run'[s] = run[s]
  BY OthersStay
<1>e. \A node \in NODES : node \notin {"searching", "drafting", "mailing_rfq", "rfq_mailed", "quote_mailed"}
  BY DEF NODES
<1>l. ASSUME NEW node \in ENTRY_NODES, NEW requested, Launch(r, node, requested) PROVE InOrder'
  <2>1. ~overlapped /\ (\A s \in Runs \ {r} : At(s, "idle")) /\ UNCHANGED <<inquiry, quote>>
    BY <1>l DEF Launch, Together, dbVars
  <2>2. SerialRun(r)'
    BY <1>l, <1>e, RequestPlaces, PlainRun DEF ENTRY_NODES
  <2>3. ASSUME NEW s \in Runs \ {r} PROVE SerialRun(s)'
    <3>1. SerialRun(s) /\ run[s].at = "idle"
      BY <2>1 DEF InOrder, At
    <3>2. run'[s].quote = 0 /\ run'[s].at = "idle"
      BY <1>o, <3>1 DEF SerialRun
    <3> QED BY <3>2, PlainRun
  <2> QED BY <2>1, <2>2, <2>3, QuotesRest DEF InOrder
<1>1. CASE ResumeGraph(r)
  <2>1. cursor.node \in ENTRY_NODES
    BY <1>1 DEF ResumeGraph, Typed, GraphTypeOK
  <2> QED BY <1>1, <2>1, <1>l DEF ResumeGraph
<1>2. ASSUME NEW node \in ENTRY_NODES, NEW requested \in {"unset", "yes", "no"}, RunGraph(r, node, requested)
      PROVE  InOrder'
  BY <1>2, <1>l DEF RunGraph
<1>3. CASE Ending(r)
  <2>0. ProviderRaises(r) => ~overlapped /\ run[r].at # "idle" /\ UNCHANGED <<inquiry, quote>>
    BY RaisedHalt DEF ENTRY_NODES, NODES, dbVars
  <2>1. ~overlapped /\ ~At(r, "idle") /\ UNCHANGED <<inquiry, quote>>
    BY <1>3, <2>0 DEF Ending, Track, TrackVessel, Record, Die, At, dbVars, graphRest
  <2>2. run'[r].quote = 0 /\ run'[r].at \in {"idle", "end"}
    BY <1>3, RequestPlaces DEF Ending, Halted
  <2>3. SerialRun(r)'
    BY <2>2, PlainRun
  <2> QED BY <1>o, <2>1, <2>3, QuotesRest, InOrderParts DEF InOrder
<1> QED BY <1>1, <1>2, <1>3 DEF Requesting

LEMMA SourcingInOrder ==
    ASSUME Typed, Alone, InOrder, NEW r \in Runs, Sourcing(r)
    PROVE  InOrder'
<1> SUFFICES ASSUME ~overlapped' PROVE InOrder'
  BY DEF InOrder
<1>o. \A s \in Runs \ {r} : run'[s] = run[s]
  BY OthersStay
<1>1. UNCHANGED <<quote, overlapped>> /\ ~At(r, "idle")
      /\ run[r].at \notin {"quote_send", "quote_mailed", "booking", "ordered"}
  BY DEF Sourcing, Understand, Clarify, Schedules, SaveSchedules, Rates, ReuseRfq, DraftRfq, OpenRfq, DraftFails,
         MailRfq, CommitRfq, SupplierQuotesNode, At, dbVars, rowsButInquiry, graphRest
<1>2. ~overlapped /\ Gapless /\ (NewestStatus = "approved" => inquiry.status = "approved") /\ SerialRun(r)
      /\ run[r].quote = 0 /\ inquiry.status \in InquiryStatus
  BY <1>1 DEF InOrder, SerialRun, Typed, GraphTypeOK, DBTypeOK
<1>q. NewestStatus' = NewestStatus /\ Gapless'
  BY <1>1, <1>2, QuotesRest
<1>s. ASSUME SerialRun(r)', NewestStatus = "approved" => inquiry'.status = "approved" PROVE InOrder'
  BY <1>s, <1>o, <1>1, <1>2, <1>q, InOrderParts
\* A status that has been loaded.
<1>l. ASSUME UNCHANGED inquiry, run'[r].quote = 0,
             run'[r].at \in {"searching", "drafting", "mailing_rfq", "rfq_mailed"},
             \/ run'[r].seen = inquiry.status
             \/ /\ run'[r].seen = run[r].seen
                /\ run[r].at \in {"searching", "drafting", "mailing_rfq", "rfq_mailed"}
      PROVE  InOrder'
  <2>1. SerialRun(r)'
    BY <1>l, <1>2 DEF SerialRun, CONTENT_EDITABLE
  <2> QED BY <1>l, <1>s, <1>2, <2>1
\* A move written from a status loaded earlier finds no approved quotation.
<1>a. ASSUME NEW target \in {"scheduled", "waiting_supplier_quotes"}, NEW node,
             NEW next \in {"rates", "supplier_quotes"},
             run[r].at \in {"searching", "rfq_mailed"},
             AdvanceOrFail(r, run[r].seen, target, node, next)
      PROVE  InOrder'
  <2>0. next \in NODES
    BY DEF NODES
  <2>1. SerialRun(r)'
    BY <1>a, <1>2, <2>0, AdvanceMoves, PlainRun DEF Halted
  <2>2. CASE CanTransition(run[r].seen, target)
    <3>1. run[r].seen \in InquiryStatus
      BY <1>a, <1>2 DEF SerialRun
    <3>2. run[r].seen = target \/ run[r].seen \in {"ready", "scheduled"}
      BY <2>2, <3>1, Legal
    <3>3. CASE run[r].seen = target
      <4>1. inquiry' = inquiry
        BY <1>a, <2>0, <2>2, <3>3, AdvanceMoves DEF Advanced
      <4> QED BY <1>2, <1>s, <2>1, <4>1
    <3>4. CASE run[r].seen \in {"ready", "scheduled"}
      <4>1. inquiry.status # "approved"
        BY <1>a, <1>2, <3>4 DEF SerialRun, CONTENT_EDITABLE
      <4> QED BY <1>2, <1>s, <2>1, <4>1
    <3> QED BY <3>2, <3>3, <3>4
  <2>3. CASE ~CanTransition(run[r].seen, target)
    <3>1. inquiry' = inquiry
      BY <1>a, <2>0, <2>3, AdvanceMoves
    <3> QED BY <1>2, <1>s, <2>1, <3>1
  <2> QED BY <2>2, <2>3
<1>3. CASE SaveSchedules(r) \/ CommitRfq(r)
  BY <1>3, <1>a DEF SaveSchedules, CommitRfq, At
<1>4. CASE ~SaveSchedules(r) /\ ~CommitRfq(r)
  <2>1. UNCHANGED inquiry
    BY <1>4 DEF Sourcing, Understand, Clarify, Schedules, Rates, ReuseRfq, DraftRfq, OpenRfq, DraftFails,
                MailRfq, SupplierQuotesNode, dbVars
  <2>2. CASE run'[r].at \in {"searching", "drafting", "mailing_rfq", "rfq_mailed"}
    <3>1. \/ Schedules(r) \/ DraftRfq(r) \/ MailRfq(r)
          \/ \E x \in Rfqs : OpenRfq(r, x)
      BY <1>4, <2>2, SourcingPlaces DEF Sourcing, Moves, Halted
    <3>2. run'[r].quote = 0
      BY <1>2, <3>1, SourcingPlaces DEF Moves, Halted
    <3>3. Schedules(r) \/ DraftRfq(r) => run'[r].seen = inquiry.status
      BY <2>2, SourcingPlaces DEF Halted
    <3>4. MailRfq(r) \/ (\E x \in Rfqs : OpenRfq(r, x)) =>
              run'[r].seen = run[r].seen /\ run[r].at \in {"drafting", "mailing_rfq"}
      BY SourcingPlaces DEF MailRfq, OpenRfq, At
    <3> QED BY <1>l, <2>1, <2>2, <3>1, <3>2, <3>3, <3>4
  <2>3. CASE run'[r].at \notin {"searching", "drafting", "mailing_rfq", "rfq_mailed"}
    <3>1. run'[r].quote = 0 /\ run'[r].at # "quote_mailed"
      BY <1>2, <1>4, SourcingPlaces DEF Sourcing, Moves, Halted
    <3> QED BY <1>2, <1>s, <2>1, <2>3, <3>1, PlainRun
  <2> QED BY <2>2, <2>3
<1> QED BY <1>3, <1>4

LEMMA QuotingInOrder ==
    ASSUME Typed, Alone, InOrder, NEW r \in Runs, Quoting(r)
    PROVE  InOrder'
<1> SUFFICES ASSUME ~overlapped' PROVE InOrder'
  BY DEF InOrder
<1>o. \A s \in Runs \ {r} : run'[s] = run[s]
  BY OthersStay
<1>1. UNCHANGED overlapped /\ ~At(r, "idle")
  BY DEF Quoting, Optimize, RefuseOptimize, HitlReview, MailQuote, MayMail, RefuseSend, CommitSend, RefuseBooking,
         ReuseBooking, MayOrder, OrderSpace, CommitBooking, At, graphRest
<1>2. /\ ~overlapped /\ Gapless /\ (NewestStatus = "approved" => inquiry.status = "approved") /\ SerialRun(r)
      /\ inquiry.status \in InquiryStatus /\ run[r].quote \in Quotes \cup {0} /\ Sound(run[r])
  BY <1>1 DEF InOrder, Typed, GraphTypeOK, DBTypeOK, RunsOK, RunRow
<1>s. ASSUME SerialRun(r)', Gapless', NewestStatus' = "approved" => inquiry'.status = "approved" PROVE InOrder'
  BY <1>s, <1>o, <1>1, <1>2, InOrderParts
\* Nothing but the run changes.
<1>u. ASSUME UNCHANGED <<quote, inquiry>>, SerialRun(r)' PROVE InOrder'
  BY <1>u, <1>s, <1>2, QuotesRest
<1>c. QuoteId(r) # 0 => QuoteId(r) = NewestQuote /\ NewestStatus = quote[NewestQuote]
  BY <1>2 DEF QuoteId, SerialRun, NewestStatus
<1>3. ASSUME NEW q \in Quotes, Optimize(r, q) PROVE InOrder'
  <2>1. NewestStatus' = "waiting_approval" /\ Gapless'
    BY <1>2, <1>3, QuotePriced DEF Optimize
  <2>2. run[r].quote = 0
    BY <1>2, <1>3 DEF SerialRun, Optimize, At
  <2>3. SerialRun(r)'
    BY <1>3, <2>2, QuotingPlaces, PlainRun DEF Moves, Halted
  <2> QED BY <1>s, <2>1, <2>3
<1>4. CASE RefuseOptimize(r) \/ RefuseSend(r) \/ RefuseBooking(r) \/ ReuseBooking(r)
  <2>1. UNCHANGED <<quote, inquiry>>
    BY <1>4 DEF RefuseOptimize, RefuseSend, RefuseBooking, ReuseBooking, dbVars
  <2>2. SerialRun(r)'
    BY <1>4, QuotingPlaces, PlainRun DEF Halted
  <2> QED BY <1>u, <2>1, <2>2
<1>5. CASE HitlReview(r)
  <2>1. UNCHANGED <<quote, inquiry>>
    BY <1>5 DEF HitlReview, dbVars
  <2>2. \/ run'[r].at = "quote_send" /\ run'[r].quote = NewestQuote
        \/ run'[r].at = "end" /\ run'[r].quote = 0
    BY <1>5, QuotingPlaces DEF Halted
  <2>3. SerialRun(r)'
    BY <2>1, <2>2, QuotesRest DEF SerialRun
  <2> QED BY <1>u, <2>1, <2>3
<1>6. CASE MailQuote(r)
  <2>1. UNCHANGED <<quote, inquiry>>
    BY <1>6 DEF MailQuote, dbVars
  <2>2. NewestStatus = "approved" /\ QuoteId(r) = NewestQuote
    BY <1>6, <1>c DEF MailQuote, MayMail
  <2>3. SerialRun(r)'
    BY <1>2, <1>6, <2>1, <2>2, QuotingPlaces, QuotesRest DEF SerialRun
  <2> QED BY <1>u, <2>1, <2>3
<1>7. CASE CommitSend(r)
  <2>1. PICK q \in Priced : q = run[r].quote /\ q = NewestQuote
    <3>1. run[r].quote # 0 /\ run[r].quote = NewestQuote
      BY <1>2, <1>7 DEF CommitSend, At, SerialRun, Sound
    <3> QED BY <3>1, NewestIsThere
  <2>2. NewestQuote' = NewestQuote /\ NewestStatus' = "sent" /\ Gapless'
    BY <1>2, <1>7, <2>1, QuoteTurns DEF CommitSend
  <2>3. run[r].seen = "approved" /\ CanTransition("approved", "sent")
    <3>1. "approved" \in InquiryStatus
      BY DEF InquiryStatus
    <3> QED BY <1>2, <1>7, <3>1, Legal DEF CommitSend, At, SerialRun
  <2>4. run'[r].at = "booking" /\ run'[r].quote = run[r].quote
    <3>1. "booking" \in NODES
      BY DEF NODES
    <3> QED BY <1>7, <2>3, <3>1, AdvanceMoves DEF CommitSend
  <2>5. SerialRun(r)'
    BY <2>1, <2>2, <2>4 DEF SerialRun
  <2> QED BY <1>s, <2>2, <2>5
<1>8. CASE OrderSpace(r)
  <2>1. UNCHANGED <<quote, inquiry>> /\ QuoteId(r) = NewestQuote
    BY <1>8, <1>c DEF OrderSpace, MayOrder, dbVars
  <2>2. SerialRun(r)'
    BY <1>8, <2>1, QuotingPlaces, QuotesRest DEF SerialRun
  <2> QED BY <1>u, <2>1, <2>2
<1>9. CASE CommitBooking(r)
  <2>1. UNCHANGED quote /\ AdvanceOrFail(r, inquiry.status, "booked", "booking", "vessel_tracking")
    BY <1>9 DEF CommitBooking
  <2>2. "vessel_tracking" \in NODES
    BY DEF NODES
  <2>3. SerialRun(r)'
    BY <2>1, <2>2, AdvanceMoves, PlainRun DEF Halted
  <2>4. CASE CanTransition(inquiry.status, "booked")
    <3>1. NewestStatus # "approved"
      BY <1>2, <2>4, Legal
    <3> QED BY <1>2, <1>s, <2>1, <2>3, <3>1, QuotesRest
  <2>5. CASE ~CanTransition(inquiry.status, "booked")
    <3>1. UNCHANGED inquiry
      BY <2>1, <2>2, <2>5, AdvanceMoves
    <3> QED BY <1>u, <2>1, <2>3, <3>1
  <2> QED BY <2>4, <2>5
<1> QED BY <1>3, <1>4, <1>5, <1>6, <1>7, <1>8, <1>9 DEF Quoting

\* Verdicts and edits between two steps of a run.
LEMMA OthersInOrder ==
    ASSUME Typed, InOrder,
           \/ \E complete \in BOOLEAN : Patch(complete)
           \/ \E q \in Quotes, action \in {"approve", "reject"} : Review(q, action)
           \/ \E x \in Rfqs, p \in Suppliers, o \in SupplierQuotes : Answer(x, p, o)
           \/ UNCHANGED vars
    PROVE  InOrder'
<1> SUFFICES ASSUME ~overlapped' PROVE InOrder'
  BY DEF InOrder
<1>1. UNCHANGED <<run, overlapped>>
  BY DEF Patch, Review, Answer, graphRest, vars
<1>2. /\ Gapless /\ (NewestStatus = "approved" => inquiry.status = "approved") /\ \A r \in Runs : SerialRun(r)
      /\ inquiry \in InquiryRow /\ inquiry.status \in InquiryStatus
  BY <1>1, RowsHave DEF InOrder, Typed, GraphTypeOK, InquiryRow
<1>3. CASE UNCHANGED <<quote, inquiry>>
  BY <1>1, <1>2, <1>3, QuotesRest DEF InOrder, SerialRun
<1>4. ASSUME NEW complete \in BOOLEAN, Patch(complete) PROVE InOrder'
  <2>1. UNCHANGED quote
    BY <1>4 DEF Patch, rowsButInquiry
  <2>2. /\ inquiry.status \notin CONTENT_EDITABLE => inquiry'.status = inquiry.status
        /\ inquiry.status \in CONTENT_EDITABLE => inquiry'.status \in CONTENT_EDITABLE
    BY <1>4 DEF Patch, DerivedInquiryStatus, CONTENT_EDITABLE
  <2>3. \A r \in Runs : SerialRun(r)'
    BY <1>1, <1>2, <2>1, <2>2, QuotesRest DEF SerialRun, CONTENT_EDITABLE
  <2>4. NewestStatus' = "approved" => inquiry'.status = "approved"
    BY <1>2, <2>1, <2>2, QuotesRest DEF CONTENT_EDITABLE
  <2> QED BY <1>2, <2>1, <2>3, <2>4, QuotesRest DEF InOrder
<1>5. ASSUME NEW q \in Quotes, NEW action \in {"approve", "reject"}, Review(q, action) PROVE InOrder'
  <2>1. PICK status \in {"approved", "rejected"} :
            /\ CanTransition(inquiry.status, status) /\ SetQuote(q, status)
            /\ inquiry' = Advanced(inquiry.status, status)
    BY <1>5 DEF Review
  <2>2. quote[q] = "waiting_approval" /\ q \in Priced
    BY <1>5 DEF Review, Priced
  <2>3. /\ NewestQuote' = NewestQuote /\ Gapless'
        /\ q = NewestQuote => NewestStatus' = status
        /\ q # NewestQuote => NewestStatus' = NewestStatus
    BY <1>2, <2>1, <2>2, QuoteTurns
  <2>4. inquiry.status \in {"waiting_approval", "approved", "rejected"} /\ inquiry'.status = status
        /\ (status = "rejected" => inquiry.status # "approved")
    BY <1>2, <2>1, Legal DEF Advanced, InquiryRow
  <2>5. ASSUME NewestStatus = "approved" PROVE NewestStatus' = "approved"
    <3>1. q # NewestQuote
      BY <2>2, <2>5 DEF NewestStatus
    <3> QED BY <2>3, <2>5, <3>1
  <2>6. NewestStatus' = "approved" => inquiry'.status = "approved"
    BY <1>2, <2>3, <2>4
  <2>7. \A r \in Runs : SerialRun(r)'
    BY <1>1, <1>2, <2>3, <2>4, <2>5 DEF SerialRun, CONTENT_EDITABLE
  <2> QED BY <2>3, <2>6, <2>7 DEF InOrder
<1>6. ASSUME NEW x \in Rfqs, NEW p \in Suppliers, NEW o \in SupplierQuotes, Answer(x, p, o)
      PROVE  UNCHANGED <<quote, inquiry>>
  BY <1>6 DEF Answer
<1>7. UNCHANGED vars => UNCHANGED <<quote, inquiry>>
  BY DEF vars
<1> QED BY <1>3, <1>4, <1>5, <1>6, <1>7

LEMMA StepInOrder == Typed /\ Alone /\ InOrder /\ [GraphNext]_vars => InOrder'
<1> SUFFICES ASSUME Typed, Alone, InOrder, [GraphNext]_vars PROVE InOrder'
  OBVIOUS
<1> QED BY RequestInOrder, SourcingInOrder, QuotingInOrder, OthersInOrder DEF GraphNext

LEMMA InitInOrder == GraphInit => InOrder
<1> SUFFICES ASSUME GraphInit PROVE InOrder
  OBVIOUS
<1>1. Priced = {} /\ Gapless
  BY RowBounds DEF GraphInit, DBInit, Priced, Gapless, Quotes
<1>2. \A r \in Runs : SerialRun(r)
  BY DEF GraphInit, NoRun, SerialRun
<1> QED BY <1>1, <1>2 DEF InOrder, NewestStatus, NewestQuote

\* While the runs of app/graph/runner.py follow one another, the verdict that is
\* given on a halted run's quotation is one the resumed run can act on: the
\* newest quotation is approved only while its inquiry is, so the send is legal.
THEOREM GraphApprovalIsUsable == GraphSpec => []ApprovalIsUsable
<1>1. InOrder => ApprovalIsUsable
  <2>1. "approved" \in InquiryStatus
    BY DEF InquiryStatus
  <2> QED BY <2>1, Legal DEF InOrder, NewestStatus, ApprovalIsUsable
<1>2. GraphInit => Alone
  BY InitAccounts
<1> QED BY <1>1, <1>2, InitTyped, StepTyped, AloneStep, InitInOrder, StepInOrder, PTL DEF GraphSpec

-----------------------------------------------------------------------------
(* What lies behind the gate *)

AtGate == {"hitl_review", "quote_send"}

EnterBefore == StartNodes \cap AtGate = {}

\* Once the newest quotation is sent, nothing of a serial history without
\* deaths leads back to the gate: no run is at it, and neither the cursor nor
\* the one a run is about to leave resumes there.
Ahead ==
    EnterBefore /\ ~overlapped /\ crashes = 0 /\ NewestStatus = "sent" =>
        /\ (\A r \in Runs : At(r, "idle")) => cursor.node \notin AtGate
        /\ \A r \in Runs : /\ run[r].at \notin AtGate
                           /\ At(r, "end") => ResumeNode(run[r].result, run[r].node) \notin AtGate

LEMMA ResumesElsewhere ==
    ASSUME NEW result, NEW node,
           \/ result \in {"waiting_clarification", "waiting_supplier_quotes", "completed"}
           \/ result = "failed" /\ node \notin AtGate
    PROVE  ResumeNode(result, node) \notin AtGate
<1>1. DOMAIN RESUME_POINTS = {"waiting_clarification", "waiting_supplier_quotes", "waiting_approval"}
      /\ RESUME_POINTS["waiting_clarification"] = "understand"
      /\ RESUME_POINTS["waiting_supplier_quotes"] = "supplier_quotes"
  BY DEF RESUME_POINTS
<1>2. CASE result \in {"waiting_clarification", "waiting_supplier_quotes"}
  BY <1>1, <1>2 DEF ResumeNode, AtGate
<1>3. CASE result = "failed"
  BY <1>1, <1>3 DEF ResumeNode
<1>4. CASE result = "completed"
  BY <1>1, <1>4 DEF ResumeNode, AtGate
<1> QED BY <1>2, <1>3, <1>4

\* A run that moved elsewhere, and one that halted elsewhere.
Clear(r) ==
    /\ run[r].at \notin AtGate \cup {"idle"}
    /\ At(r, "end") => ResumeNode(run[r].result, run[r].node) \notin AtGate

LEMMA ClearMoves ==
    ASSUME NEW r \in Runs, run'[r].at \notin AtGate \cup {"idle", "end"}
    PROVE  Clear(r)'
  BY DEF Clear, At

LEMMA ClearHalts ==
    ASSUME NEW r \in Runs, NEW node, NEW result, Halted(r, node, result),
           \/ result \in {"waiting_clarification", "waiting_supplier_quotes", "completed"}
           \/ result = "failed" /\ node \notin AtGate
    PROVE  Clear(r)'
<1>1. ResumeNode(result, node) \notin AtGate
  BY ResumesElsewhere
<1> QED BY <1>1 DEF Halted, Clear, At, AtGate

LEMMA AheadParts ==
    ASSUME Alone, NEW r \in Runs, ~overlapped, ~At(r, "idle"),
           \A s \in Runs \ {r} : run'[s] = run[s], Clear(r)'
    PROVE  Ahead'
<1>1. \A s \in Runs \ {r} : run'[s].at = "idle"
  BY DEF Alone, At
<1> QED BY <1>1 DEF Ahead, Clear, At, AtGate

\* A run begins or ends.
LEMMA RequestAhead ==
    ASSUME Typed, Alone, Ahead, NEW r \in Runs, Requesting(r) \/ Ending(r)
    PROVE  Ahead'
<1> SUFFICES ASSUME EnterBefore, ~overlapped', crashes' = 0, NewestStatus' = "sent" PROVE Ahead'
  BY DEF Ahead, EnterBefore
<1>t. crashes \in Nat
  BY GraphBounds DEF Typed, GraphTypeOK
<1>o. \A s \in Runs \ {r} : run'[s] = run[s]
  BY OthersStay
<1>q. UNCHANGED quote
  BY DEF Requesting, ResumeGraph, RunGraph, Launch, Ending, Track, TrackVessel, ProviderRaises, Record,
         Die, dbVars
<1>l. ASSUME NEW node \in ENTRY_NODES, NEW requested, Launch(r, node, requested),
             node \in StartNodes \/ node = cursor.node
      PROVE  Ahead'
  <2>1. ~overlapped /\ crashes = 0 /\ \A s \in Runs : At(s, "idle")
    BY <1>l DEF Launch, Together
  <2>2. cursor.node \notin AtGate
    BY <1>q, <2>1, QuotesRest DEF Ahead
  <2>3. node \notin AtGate
    BY <1>l, <2>2 DEF EnterBefore
  <2>4. run'[r].at = node /\ node \notin {"idle", "end"}
    BY <1>l, RequestPlaces DEF ENTRY_NODES, NODES
  <2> QED BY <1>o, <2>1, <2>3, <2>4 DEF Ahead, At, AtGate
<1>1. CASE ResumeGraph(r)
  <2>1. cursor.node \in ENTRY_NODES
    BY <1>1 DEF ResumeGraph, Typed, GraphTypeOK
  <2> QED BY <1>1, <2>1, <1>l DEF ResumeGraph
<1>2. ASSUME NEW node \in ENTRY_NODES, NEW requested \in {"unset", "yes", "no"}, RunGraph(r, node, requested)
      PROVE  Ahead'
  <2>1. node \in StartNodes
    BY <1>2, GraphBounds DEF RunGraph
  <2> QED BY <1>2, <2>1, <1>l DEF RunGraph
<1>3. CASE Ending(r)
  <2>0. ProviderRaises(r) => ~overlapped /\ crashes = 0 /\ run[r].at # "idle"
    BY RaisedHalt DEF ENTRY_NODES, NODES
  <2>1. ~overlapped /\ ~At(r, "idle") /\ ~Die(r) /\ ~TrackVessel(r) /\ crashes = 0
    BY <1>3, <1>t, <2>0 DEF Ending, Track, TrackVessel, Record, Die, At, graphRest
  <2>2. CASE Track(r)
    <3>0. Halted(r, "vessel_tracking", "completed")
      BY <2>2, RequestPlaces
    <3>1. Clear(r)'
      BY <3>0, ResumesElsewhere DEF Halted, Clear, At, AtGate
    <3> QED BY <1>o, <2>1, <3>1, AheadParts
  <2>3. CASE Record(r)
    <3>1. At(r, "end") /\ run'[r].at = "idle" /\ cursor'.node = ResumeNode(run[r].result, run[r].node)
      BY <2>3, RequestPlaces DEF Record
    <3>2. cursor'.node \notin AtGate
      BY <1>q, <2>1, <3>1, QuotesRest DEF Ahead
    <3>3. \A s \in Runs : run'[s].at = "idle"
      BY <1>o, <2>1, <3>1 DEF Alone, At
    <3> QED BY <3>2, <3>3 DEF Ahead, At, AtGate
  <2>4. CASE ProviderRaises(r)
    <3>1. run[r].at \notin AtGate
      BY <1>q, <2>1, QuotesRest DEF Ahead
    <3>2. \A at \in DOMAIN Awaited : Awaited[at] \in AtGate => at \in AtGate
      BY DEF Awaited, AtGate
    <3>3. Awaited[run[r].at] \notin AtGate /\ Halted(r, Awaited[run[r].at], "failed")
      BY <2>4, <3>1, <3>2, RequestPlaces DEF ProviderRaises
    <3>4. Clear(r)'
      BY <3>3, ClearHalts
    <3> QED BY <1>o, <2>1, <3>4, AheadParts
  <2> QED BY <1>3, <2>1, <2>2, <2>3, <2>4 DEF Ending
<1> QED BY <1>1, <1>2, <1>3 DEF Requesting

LEMMA NodeAhead ==
    ASSUME Typed, Alone, InOrder, Ahead, NEW r \in Runs, Sourcing(r) \/ Quoting(r)
    PROVE  Ahead'
<1> SUFFICES ASSUME EnterBefore, ~overlapped', crashes' = 0, NewestStatus' = "sent" PROVE Ahead'
  BY DEF Ahead, EnterBefore
<1>o. \A s \in Runs \ {r} : run'[s] = run[s]
  BY OthersStay
<1>1. UNCHANGED <<overlapped, crashes>> /\ ~At(r, "idle")
  BY DEF Sourcing, Understand, Clarify, Schedules, SaveSchedules, Rates, ReuseRfq, DraftRfq, OpenRfq, DraftFails,
         MailRfq, CommitRfq, SupplierQuotesNode, Quoting, Optimize, RefuseOptimize, HitlReview, MailQuote, MayMail,
         RefuseSend, CommitSend, RefuseBooking, ReuseBooking, MayOrder, OrderSpace, CommitBooking, At, graphRest
<1>2. SerialRun(r) /\ Gapless
  BY <1>1 DEF InOrder
<1>s. ASSUME Clear(r)' PROVE Ahead'
  BY <1>s, <1>o, <1>1, AheadParts
<1>n. /\ \A node \in {"schedules", "clarify", "searching", "rates", "rfq", "supplier_quotes", "drafting",
                      "mailing_rfq", "rfq_mailed", "optimize", "booking", "ordered", "vessel_tracking"} :
             node \notin AtGate \cup {"idle", "end"}
      /\ {"rates", "supplier_quotes", "booking", "vessel_tracking"} \subseteq NODES
  BY DEF AtGate, NODES
\* A move to a later node, or a refusal of this one.
<1>a. ASSUME NEW seen, NEW target, NEW node \in {"schedules", "rfq", "booking"},
             NEW next \in {"rates", "supplier_quotes", "vessel_tracking"}, AdvanceOrFail(r, seen, target, node, next)
      PROVE  Ahead'
  <2>1. run'[r].at = next \/ Halted(r, node, "failed")
    BY <1>a, <1>n, AdvanceMoves
  <2> QED BY <1>n, <1>s, <2>1, ClearMoves, ClearHalts
<1>3. CASE Sourcing(r)
  <2>1. CASE SaveSchedules(r) \/ CommitRfq(r)
    BY <1>a, <2>1 DEF SaveSchedules, CommitRfq
  <2>2. CASE ~SaveSchedules(r) /\ ~CommitRfq(r)
    <3>1. \/ \E node \in {"schedules", "clarify", "searching", "rfq", "supplier_quotes", "drafting",
                          "mailing_rfq", "rfq_mailed", "optimize"} : run'[r].at = node
          \/ \E node \in {"clarify", "schedules", "rates", "rfq", "supplier_quotes"},
                result \in {"waiting_clarification", "waiting_supplier_quotes", "failed"} :
                   Halted(r, node, result)
      BY <1>3, <2>2, SourcingPlaces DEF Sourcing, Moves
    <3> QED BY <1>n, <1>s, <3>1, ClearMoves, ClearHalts
  <2> QED BY <2>1, <2>2
<1>4. ASSUME NEW q \in Quotes, Optimize(r, q) PROVE Ahead'
  <2>1. NewestStatus' = "waiting_approval"
    BY <1>2, <1>4, QuotePriced DEF Optimize
  <2> QED BY <2>1
<1>5. CASE HitlReview(r) \/ MailQuote(r) \/ RefuseSend(r)
  <2>1. run[r].at \in AtGate /\ UNCHANGED quote
    BY <1>5 DEF HitlReview, MailQuote, MayMail, RefuseSend, At, AtGate, dbVars
  <2>2. NewestStatus # "sent"
    BY <1>1, <2>1 DEF Ahead
  <2> QED BY <2>1, <2>2, QuotesRest
<1>6. CASE CommitSend(r)
  <2>1. run[r].seen = "approved" /\ CanTransition("approved", "sent")
    <3>1. "approved" \in InquiryStatus
      BY DEF InquiryStatus
    <3> QED BY <1>2, <1>6, <3>1, Legal DEF CommitSend, At, SerialRun
  <2>2. run'[r].at = "booking"
    BY <1>6, <1>n, <2>1, AdvanceMoves DEF CommitSend
  <2> QED BY <1>n, <1>s, <2>2, ClearMoves
<1>7. CASE RefuseOptimize(r) \/ RefuseBooking(r)
  BY <1>7, <1>n, <1>s, QuotingPlaces, ClearHalts
<1>8. CASE ReuseBooking(r) \/ OrderSpace(r)
  BY <1>8, <1>n, <1>s, QuotingPlaces, ClearMoves
<1>9. CASE CommitBooking(r)
  BY <1>9, <1>a DEF CommitBooking
<1> QED BY <1>3, <1>4, <1>5, <1>6, <1>7, <1>8, <1>9 DEF Quoting

LEMMA OthersAhead ==
    ASSUME Typed, InOrder, Ahead,
           \/ \E complete \in BOOLEAN : Patch(complete)
           \/ \E q \in Quotes, action \in {"approve", "reject"} : Review(q, action)
           \/ \E x \in Rfqs, p \in Suppliers, o \in SupplierQuotes : Answer(x, p, o)
           \/ UNCHANGED vars
    PROVE  Ahead'
<1> SUFFICES ASSUME EnterBefore, ~overlapped', crashes' = 0, NewestStatus' = "sent" PROVE Ahead'
  BY DEF Ahead, EnterBefore
<1>1. UNCHANGED <<run, cursor, crashes, overlapped>>
  BY DEF Patch, Review, Answer, graphRest, vars
<1>2. NewestStatus = "sent"
  <2>1. CASE UNCHANGED quote
    BY <2>1, QuotesRest
  <2>2. ASSUME NEW q \in Quotes, NEW action \in {"approve", "reject"}, Review(q, action)
        PROVE  NewestStatus = "sent"
    <3>1. PICK status \in {"approved", "rejected"} : SetQuote(q, status)
      BY <2>2 DEF Review
    <3>2. q \in Priced
      BY <2>2 DEF Review, Priced
    <3> QED BY <3>1, <3>2, QuoteTurns
  <2> QED BY <2>1, <2>2 DEF Patch, Answer, rowsButInquiry, vars
<1>3. (\A r \in Runs : At(r, "idle")) => cursor'.node \notin AtGate
  BY <1>1, <1>2 DEF Ahead
<1>4. \A r \in Runs : /\ run'[r].at \notin AtGate
                      /\ At(r, "end") => ResumeNode(run'[r].result, run'[r].node) \notin AtGate
  BY <1>1, <1>2 DEF Ahead
<1> QED BY <1>1, <1>3, <1>4 DEF Ahead, At

LEMMA StepAhead == Typed /\ Alone /\ InOrder /\ Ahead /\ [GraphNext]_vars => Ahead'
<1> SUFFICES ASSUME Typed, Alone, InOrder, Ahead, [GraphNext]_vars PROVE Ahead'
  OBVIOUS
<1> QED BY RequestAhead, NodeAhead, OthersAhead DEF GraphNext

\* A cursor of app/graph/runner.py that resumes at the send node still has a
\* quotation to send, as long as runs follow one another, start before the gate
\* and none of them died: whatever a run meets behind the gate, what it records
\* does not lead back to it.
THEOREM GraphGateIsAhead == GraphSpec => []GateIsAhead
<1>1. Ahead => GateIsAhead
  BY DEF Ahead, EnterBefore, AtGate, NewestStatus, GateIsAhead
<1>2. GraphInit => Alone
  BY InitAccounts
<1>3. GraphInit => Ahead
  <2>1. GraphInit => NewestStatus = "absent"
    BY DEF GraphInit, DBInit, Priced, NewestQuote, NewestStatus
  <2> QED BY <2>1 DEF Ahead
<1> QED
  BY <1>1, <1>2, <1>3, InitTyped, StepTyped, AloneStep, InitInOrder, StepInOrder, StepAhead, PTL DEF GraphSpec

=============================================================================
