---------------------------- MODULE StateMachine ----------------------------
(***************************************************************************)
(* The inquiry status vocabulary (app/enums.py) and the graph of legal      *)
(* moves (app/state_machine.py).  Constant-level: every service that moves  *)
(* an inquiry asks CanTransition with the status it has read.               *)
(***************************************************************************)

InquiryStatus ==
    {"needs_clarification", "ready", "scheduled", "waiting_supplier_quotes",
     "quote_ready", "waiting_approval", "approved", "rejected", "sent",
     "booked", "closed"}

\* Statuses in which an edit of the content re-derives the status.
CONTENT_EDITABLE == {"needs_clarification", "ready"}

\* Statuses in which the content may no longer be edited at all.
LOCKED == {"booked", "closed"}

INQUIRY_TRANSITIONS ==
    [needs_clarification     |-> {"ready", "closed"},
     ready                   |-> {"scheduled", "needs_clarification", "closed"},
     scheduled               |-> {"waiting_supplier_quotes", "closed"},
     waiting_supplier_quotes |-> {"quote_ready", "waiting_approval", "closed"},
     quote_ready             |-> {"waiting_approval", "closed"},
     waiting_approval        |-> {"approved", "rejected", "closed"},
     approved                |-> {"sent", "closed"},
     rejected                |-> {"closed"},
     sent                    |-> {"booked", "closed"},
     booked                  |-> {"closed"},
     closed                  |-> {}]

\* The order a pipeline run goes through.
HAPPY_PATH ==
    <<"ready", "scheduled", "waiting_supplier_quotes", "waiting_approval",
      "approved", "sent", "booked">>

\* A move to the status already held is legal and writes nothing.
CanTransition(current, target) ==
    current = target \/ target \in INQUIRY_TRANSITIONS[current]

\* The status implied by the completeness of the content.
DerivedInquiryStatus(complete) ==
    IF complete THEN "ready" ELSE "needs_clarification"

=============================================================================
