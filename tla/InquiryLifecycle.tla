-------------------------- MODULE InquiryLifecycle --------------------------
(***************************************************************************)
(* What app/state_machine.py promises of an inquiry: it is born clarified   *)
(* or not, and from then on its status moves along the edges of the graph   *)
(* and in no other way, whatever requests the services receive.             *)
(***************************************************************************)
EXTENDS StateMachine

VARIABLE status

Init == status \in CONTENT_EDITABLE

Move(target) ==
    /\ target \in INQUIRY_TRANSITIONS[status]
    /\ status' = target

Next == \E target \in InquiryStatus : Move(target)

Spec == Init /\ [][Next]_status

=============================================================================
