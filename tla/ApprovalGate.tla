---------------------------- MODULE ApprovalGate ----------------------------
(***************************************************************************)
(* The promise of the human-in-the-loop gate, stated on what the outside    *)
(* world sees: a quotation reaches the customer only after a person         *)
(* approved that quotation, and space is ordered from a carrier only for a  *)
(* quotation the customer has received.  Nothing is ever taken back: an     *)
(* e-mail and an order are facts.                                           *)
(***************************************************************************)
CONSTANT Quotes

VARIABLES approved, mailed, ordered

gateVars == <<approved, mailed, ordered>>

Init == approved = {} /\ mailed = {} /\ ordered = {}

Approve(q) ==
    /\ approved' = approved \cup {q}
    /\ UNCHANGED <<mailed, ordered>>

Mail(q) ==
    /\ q \in approved
    /\ mailed' = mailed \cup {q}
    /\ UNCHANGED <<approved, ordered>>

Order(q) ==
    /\ q \in mailed
    /\ ordered' = ordered \cup {q}
    /\ UNCHANGED <<approved, mailed>>

Next == \E q \in Quotes : Approve(q) \/ Mail(q) \/ Order(q)

Spec == Init /\ [][Next]_gateVars

=============================================================================
