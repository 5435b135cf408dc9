--------------------------------- MODULE MCMail ---------------------------------
(***************************************************************************)
(* The mail of customers for TLC: what comes in (Intake: two messages of    *)
(* one sender and one of another) and what goes out (Followups).  The two   *)
(* share no row, so a behaviour has one of them at work and the other at    *)
(* rest: their interleavings would tell nothing more.                       *)
(***************************************************************************)
EXTENDS Intake, Followups

CONSTANTS often, once

MCSenders  == {often, once}
MCMessages == {<<often, 1>>, <<often, 2>>, <<once, 1>>}

VARIABLE inbound    \* whether it is the intake that is at work

MailInit ==
    /\ inbound \in BOOLEAN
    /\ IntakeInit /\ FollowupsInit
    /\ ~inbound => ~postgres

MailNext ==
    /\ inbound' = inbound
    /\ \/ inbound /\ IntakeNext /\ UNCHANGED vars
       \/ ~inbound /\ FollowupsNext /\ UNCHANGED intakeVars

MailSpec ==
    /\ MailInit /\ [][MailNext]_<<inbound, vars, intakeVars>>
    /\ \A d \in Deliveries : WF_intakeVars(inbound /\ Step(d))
    /\ WF_vars(~inbound /\ (LoadDue("worker") \/ ProcessDue("worker")))

=============================================================================
