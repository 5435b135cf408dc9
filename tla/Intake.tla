--------------------------------- MODULE Intake ---------------------------------
(***************************************************************************)
(* Inbound messages, as the one API process takes them                      *)
(* (app/services/inquiry.py, ingest_message).  The mail gateway delivers a  *)
(* message, and again when it got no answer; deliveries overlap wherever an *)
(* agent is awaited.                                                        *)
(*                                                                         *)
(* Three facts shape everything:                                            *)
(*   - an agent run commits the session it is given, whether the agent      *)
(*     answered or raised, so it is the draft of the clarification that     *)
(*     commits an incomplete inquiry;                                       *)
(*   - get_or_create_customer flushes: from there to that commit, the       *)
(*     transaction of a first contact is open and holds its lock;           *)
(*   - statements are synchronous in one event loop: one that waits for a   *)
(*     lock lets no other request go on.                                    *)
(***************************************************************************)
EXTENDS Integers, Sequences

CONSTANTS
    Deliveries,     \* requests of the gateway in flight at a time
    Senders,
    Messages,       \* of whom, and which of theirs
    None            \* no message

ASSUME IntakeBounds ==
    /\ Messages \subseteq Senders \X Nat
    /\ None \notin Messages

Sender(m) == m[1]

VARIABLES
    postgres,   \* the database is PostgreSQL, not SQLite
    customers,  \* the customers table, by e-mail address
    inquiries,  \* the inquiries table
    outbox,     \* the inquiries with a clarification.requested event
    delivery,   \* per request: where it is, and whether it inserted a customer
    told,       \* messages whose inquiry the gateway was told of
    clarified,  \* per message: clarifications handed to the gateway
    hung        \* the event loop waits for a lock

intakeVars == <<postgres, customers, inquiries, outbox, delivery, told, clarified, hung>>
tables     == <<customers, inquiries, outbox>>

NoDelivery == [at |-> "idle", msg |-> None, adds |-> FALSE]

\* Tables, requests and answers keep their shape.
IntakeTypeOK ==
    /\ postgres \in BOOLEAN /\ hung \in BOOLEAN
    /\ customers \in Seq(Senders)
    /\ inquiries \in Seq([msg : Messages, complete : BOOLEAN])
    /\ outbox \subseteq DOMAIN inquiries
    /\ delivery \in [Deliveries ->
            {NoDelivery} \cup [at : {"classify", "parse", "clarify"}, msg : Messages, adds : BOOLEAN]]
    /\ told \subseteq Messages
    /\ clarified \in [Messages -> Nat]

IntakeInit ==
    /\ postgres \in BOOLEAN
    /\ customers = <<>> /\ inquiries = <<>> /\ outbox = {}
    /\ delivery = [d \in Deliveries |-> NoDelivery]
    /\ told = {} /\ clarified = [m \in Messages |-> 0]
    /\ hung = FALSE

-----------------------------------------------------------------------------
(* Rows and locks *)

Known(s)  == \E i \in DOMAIN customers : customers[i] = s
Stored(m) == \E i \in DOMAIN inquiries : inquiries[i].msg = m

At(d, place) == delivery[d].at = place /\ ~hung
Message(d)   == delivery[d].msg

\* d awaits the clarification with an inserted customer not yet committed.
Holds(d) == delivery[d].at = "clarify" /\ delivery[d].adds

\* SQLite has one writer: after five seconds a statement of another fails.
LockedOut(d) == ~postgres /\ \E e \in Deliveries \ {d} : Holds(e)

\* PostgreSQL lets an insertion wait for the transaction that inserted the same
\* address, for as long as that takes.
Waits(d) == \E e \in Deliveries \ {d} : Holds(e) /\ Sender(Message(e)) = Sender(Message(d))

Leave(d) == delivery' = [delivery EXCEPT ![d] = NoDelivery]

\* Mutant: the event is not yet pending when the agent's run commits.
InsertNoEvent(m, complete, adds) ==
    /\ ~Stored(m)
    /\ inquiries' = Append(inquiries, [msg |-> m, complete |-> complete])
    /\ customers' = IF adds THEN Append(customers, Sender(m)) ELSE customers
    /\ UNCHANGED outbox
\* The commit of an inquiry with all that was added beside it.  The constraint
\* uq_inquiry_external_message refuses it if another delivery was faster.
Insert(m, complete, adds) ==
    /\ ~Stored(m)
    /\ inquiries' = Append(inquiries, [msg |-> m, complete |-> complete])
    /\ outbox' = IF complete THEN outbox ELSE outbox \cup {Len(inquiries) + 1}
    /\ customers' = IF adds THEN Append(customers, Sender(m)) ELSE customers

-----------------------------------------------------------------------------
(* ingest_message *)

Redeliver(d, m) ==
    /\ delivery[d] = NoDelivery /\ ~hung
    /\ Stored(m)
    /\ told' = told \cup {m}
    /\ UNCHANGED <<postgres, tables, delivery, clarified, hung>>

Deliver(d, m) ==
    /\ delivery[d] = NoDelivery /\ ~hung
    /\ ~Stored(m)
    /\ delivery' = [delivery EXCEPT ![d] = [at |-> "classify", msg |-> m, adds |-> FALSE]]
    /\ UNCHANGED <<postgres, tables, told, clarified, hung>>

\* A message that is no inquiry is routed elsewhere.
Classify(d, inquiry) ==
    /\ At(d, "classify") /\ ~LockedOut(d)
    /\ IF inquiry THEN delivery' = [delivery EXCEPT ![d].at = "parse"] ELSE Leave(d)
    /\ UNCHANGED <<postgres, tables, told, clarified, hung>>

\* The parser has answered; from the look-up of the customer to the commit, or
\* to the next agent, nothing else runs.
RecordComplete(d) ==
    /\ At(d, "parse") /\ ~LockedOut(d) /\ (Known(Sender(Message(d))) \/ ~Waits(d))
    /\ Insert(Message(d), TRUE, ~Known(Sender(Message(d))))
    /\ told' = told \cup {Message(d)}
    /\ Leave(d)
    /\ UNCHANGED <<postgres, clarified, hung>>

RecordIncomplete(d) ==
    /\ At(d, "parse") /\ ~LockedOut(d) /\ (Known(Sender(Message(d))) \/ ~Waits(d))
    /\ delivery' = [delivery EXCEPT ![d] =
          [at |-> "clarify", msg |-> Message(d), adds |-> ~Known(Sender(Message(d)))]]
    /\ UNCHANGED <<postgres, tables, told, clarified, hung>>

\* The second first contact of a sender blocks the loop that would let the
\* first one go on.
Hang(d) ==
    /\ At(d, "parse") /\ ~LockedOut(d)
    /\ ~Known(Sender(Message(d))) /\ Waits(d)
    /\ hung' = TRUE
    /\ UNCHANGED <<postgres, tables, delivery, told, clarified>>

\* Mutant: the clarification is handed out whether or not the rows are there.
ClarifyFirst(d) ==
    /\ At(d, "clarify") /\ ~LockedOut(d)
    /\ clarified' = [clarified EXCEPT ![Message(d)] = @ + 1]
    /\ IF Stored(Message(d)) THEN UNCHANGED <<tables, told>>
       ELSE Insert(Message(d), FALSE, delivery[d].adds) /\ told' = told \cup {Message(d)}
    /\ Leave(d)
    /\ UNCHANGED <<postgres, hung>>

\* The agent has answered, and its run committed what was pending.
Clarify(d) ==
    /\ At(d, "clarify") /\ ~LockedOut(d)
    /\ Insert(Message(d), FALSE, delivery[d].adds)
    /\ told' = told \cup {Message(d)}
    /\ clarified' = [clarified EXCEPT ![Message(d)] = @ + 1]
    /\ Leave(d)
    /\ UNCHANGED <<postgres, hung>>

\* The agent has raised: what was pending is committed all the same, and the
\* gateway gets an error.  (A request is cancelled only with its process, which
\* keeps nothing: Restart.)
ClarifyRaises(d) ==
    /\ At(d, "clarify") /\ ~LockedOut(d)
    /\ Insert(Message(d), FALSE, delivery[d].adds)
    /\ Leave(d)
    /\ UNCHANGED <<postgres, told, clarified, hung>>

\* Mutant: a violated constraint is tried again.
RefuseAgain(d) ==
    /\ ~hung
    /\ \/ delivery[d].at \in {"classify", "parse"}
       \/ delivery[d].at # "idle" /\ LockedOut(d)
    /\ Leave(d)
    /\ UNCHANGED <<postgres, tables, told, clarified, hung>>

\* An agent raises before anything is pending, another delivery was faster, or
\* the database stays locked: an error, and nothing of this request is kept.
Refuse(d) ==
    /\ ~hung
    /\ \/ delivery[d].at \in {"classify", "parse"}
       \/ delivery[d].at # "idle" /\ LockedOut(d)
       \/ delivery[d].at = "clarify" /\ Stored(Message(d))
    /\ Leave(d)
    /\ UNCHANGED <<postgres, tables, told, clarified, hung>>

\* The process is restarted; open transactions are rolled back.
Restart ==
    /\ delivery' = [d \in Deliveries |-> NoDelivery]
    /\ hung' = FALSE
    /\ UNCHANGED <<postgres, tables, told, clarified>>

-----------------------------------------------------------------------------

Step(d) ==
    \/ \E inquiry \in BOOLEAN : Classify(d, inquiry)
    \/ RecordComplete(d) \/ RecordIncomplete(d) \/ Hang(d)
    \/ Clarify(d) \/ ClarifyRaises(d) \/ Refuse(d)

IntakeNext ==
    \/ \E d \in Deliveries, m \in Messages : Deliver(d, m) \/ Redeliver(d, m)
    \/ \E d \in Deliveries : Step(d)
    \/ Restart

\* Every agent call has a time-out, so a request in flight goes on unless the
\* loop is blocked.
IntakeSpec ==
    /\ IntakeInit /\ [][IntakeNext]_intakeVars
    /\ \A d \in Deliveries : WF_intakeVars(Step(d))

-----------------------------------------------------------------------------
(* Properties *)

\* However deliveries race, fail and are repeated, and although an agent commits
\* in the middle of a request: a message has one inquiry and a sender one customer
\* row, an inquiry has its customer, an incomplete one its clarification.requested.
RecordedOnce ==
    /\ \A i, j \in DOMAIN inquiries : inquiries[i].msg = inquiries[j].msg => i = j
    /\ \A i, j \in DOMAIN customers : customers[i] = customers[j] => i = j
    /\ \A i \in DOMAIN inquiries :
          /\ Known(Sender(inquiries[i].msg))
          /\ i \in outbox <=> ~inquiries[i].complete

\* What the gateway was told is true and it is asked to clarify a message at
\* most once, although two deliveries of it may both have drafted the question.
AnswersAreTrue ==
    /\ \A m \in told : Stored(m)
    /\ \A m \in Messages : clarified[m] > 0 =>
          clarified[m] = 1 /\ \E i \in outbox : inquiries[i].msg = m

\* A request is answered, with an error if need be, whoever else is at work.  Not
\* on PostgreSQL when two first contacts of one sender overlap: the process hangs,
\* and no request is answered before somebody restarts it.
Answered == \A d \in Deliveries :
    delivery[d].at # "idle" ~> (delivery[d].at = "idle" \/ (postgres /\ hung))

=============================================================================
