------------------------------- MODULE Followups ------------------------------
(***************************************************************************)
(* Follow-up tasks of one customer (app/services/followup.py) and the delay *)
(* alerts that become such tasks (app/services/vessel.py), for one booking. *)
(*                                                                         *)
(* process_due loads the due tasks and takes them one by one.  A status it  *)
(* sets is not committed by itself: the agent run recorded for the next     *)
(* task commits it, or the end of the poll.  A task is here from its due_at *)
(* on: before, no poll sees it (and an alert is due at once).  The worker    *)
(* (src/worker/scheduler.py) polls in a loop that an exception does not end *)
(* and that is restarted after a death; an administrator may poll besides.  *)
(* The route takes any number of polls at once: Pollers bounds them to one.  *)
(***************************************************************************)
EXTENDS Integers, FiniteSets

CONSTANTS
    MaxTasks,       \* bound on the tasks
    MaxRefreshes,   \* bound on the refreshes in flight at once
    MaxFaults       \* bound on exceptions and deaths in the middle of a poll

ASSUME FollowupBounds ==
    MaxTasks \in Nat /\ MaxRefreshes \in Nat /\ MaxFaults \in Nat

Tasks     == 1..MaxTasks
Refreshes == 1..MaxRefreshes
Pollers   == {"worker", "api"}

VARIABLES
    task,           \* per followup_tasks row: status and kind
    poll,           \* per poller: the tasks loaded and the statuses not committed
    refresh,        \* per position refresh of a late vessel: whether it looked
    doNotContact,   \* the customer's preference
    mails,          \* follow-up e-mails per task
    raced,          \* whether two refreshes ever looked at once
    faults          \* faults so far

vars == <<task, poll, refresh, doNotContact, mails, raced, faults>>

Task == [status : {"absent", "pending", "completed", "suppressed"},
         alert : BOOLEAN]

\* forbids: the preference as the poll's session has loaded it.
NoPoll == [at |-> "idle", todo |-> {}, current |-> 0, forbids |-> FALSE,
           completed |-> {}, suppressed |-> {}]

\* The tasks, the polls and the refreshes in flight keep their shape.
FollowupsTypeOK ==
    /\ task \in [Tasks -> Task]
    /\ poll \in [Pollers ->
        [at : {"idle", "taking", "mailing"}, todo : SUBSET Tasks, current : Tasks \cup {0},
         forbids : BOOLEAN, completed : SUBSET Tasks, suppressed : SUBSET Tasks]]
    /\ refresh \in [Refreshes -> {"idle", "looked"}]
    /\ doNotContact \in BOOLEAN
    /\ mails \in [Tasks -> Nat]
    /\ raced \in BOOLEAN
    /\ faults \in 0..MaxFaults

FollowupsInit ==
    /\ task = [t \in Tasks |-> [status |-> "absent", alert |-> FALSE]]
    /\ poll = [p \in Pollers |-> NoPoll]
    /\ refresh = [r \in Refreshes |-> "idle"]
    /\ doNotContact = FALSE
    /\ mails = [t \in Tasks |-> 0]
    /\ raced = FALSE
    /\ faults = 0

-----------------------------------------------------------------------------
(* Tasks come into being *)

NextTask(t) ==
    /\ task[t].status = "absent"
    /\ \A u \in 1..(t-1) : task[u].status # "absent"

CreateTask(t) ==
    /\ NextTask(t)
    /\ task' = [task EXCEPT ![t] = [status |-> "pending", alert |-> FALSE]]
    /\ UNCHANGED <<poll, refresh, doNotContact, mails, raced, faults>>

\* The preference is kept outside this code.
ForbidsContact ==
    /\ ~doNotContact
    /\ doNotContact' = TRUE
    /\ UNCHANGED <<task, poll, refresh, mails, raced, faults>>

\* Mutant: an alert is looked for among the completed ones.
NoAlertCompleted == \A t \in Tasks : task[t].alert => task[t].status # "completed"

NoAlertPending == \A t \in Tasks : task[t].alert => task[t].status # "pending"

\* A refresh finds the vessel past the threshold, the customer contactable, and
\* no open alert of the booking.
LookForAlert(r) ==
    /\ refresh[r] = "idle" /\ ~doNotContact /\ NoAlertPending
    /\ \A s \in 1..(r-1) : refresh[s] # "idle"
    /\ refresh' = [refresh EXCEPT ![r] = "looked"]
    /\ raced' = (raced \/ \E s \in Refreshes : refresh[s] = "looked")
    /\ UNCHANGED <<task, poll, doNotContact, mails, faults>>

RaiseDelayAlert(r, t) ==
    /\ refresh[r] = "looked" /\ NextTask(t)
    /\ task' = [task EXCEPT ![t] = [status |-> "pending", alert |-> TRUE]]
    /\ refresh' = [refresh EXCEPT ![r] = "idle"]
    /\ UNCHANGED <<poll, doNotContact, mails, raced, faults>>

-----------------------------------------------------------------------------
(* process_due *)

LoadDue(p) ==
    /\ poll[p].at = "idle"
    /\ poll' = [poll EXCEPT ![p] = [NoPoll EXCEPT
           !.at = "taking",
           !.todo = {t \in Tasks : task[t].status = "pending"},
           !.forbids = doNotContact]]
    /\ UNCHANGED <<task, refresh, doNotContact, mails, raced, faults>>

\* The rows once the statuses p has set are committed.
Committed(p) ==
    [t \in Tasks |->
        CASE t \in poll[p].completed  -> [task[t] EXCEPT !.status = "completed"]
          [] t \in poll[p].suppressed -> [task[t] EXCEPT !.status = "suppressed"]
          [] OTHER                    -> task[t]]

\* Mutant: the customer is passed over, and the task left as it was.
PassOver(p, t) ==
    /\ poll[p].at = "taking" /\ t \in poll[p].todo /\ poll[p].forbids
    /\ poll' = [poll EXCEPT ![p].todo = @ \ {t}]
    /\ UNCHANGED <<task, refresh, doNotContact, mails, raced, faults>>

SuppressTask(p, t) ==
    /\ poll[p].at = "taking" /\ t \in poll[p].todo /\ poll[p].forbids
    /\ poll' = [poll EXCEPT ![p].todo = @ \ {t}, ![p].suppressed = @ \cup {t}]
    /\ UNCHANGED <<task, refresh, doNotContact, mails, raced, faults>>

\* The agent has written the draft, and its run is committed with what was set.
DraftFollowup(p, t) ==
    /\ poll[p].at = "taking" /\ t \in poll[p].todo /\ ~poll[p].forbids
    /\ task' = Committed(p)
    /\ poll' = [poll EXCEPT ![p] = [NoPoll EXCEPT
           !.at = "mailing", !.todo = poll[p].todo \ {t}, !.current = t]]
    /\ UNCHANGED <<refresh, doNotContact, mails, raced, faults>>

\* Mutant: mailed, and the task left as it was.
MailAndForget(p) ==
    /\ poll[p].at = "mailing"
    /\ mails' = [mails EXCEPT ![poll[p].current] = @ + 1]
    /\ poll' = [poll EXCEPT ![p].at = "taking", ![p].current = 0]
    /\ UNCHANGED <<task, refresh, doNotContact, raced, faults>>

MailFollowup(p) ==
    /\ poll[p].at = "mailing"
    /\ mails' = [mails EXCEPT ![poll[p].current] = @ + 1]
    /\ poll' = [poll EXCEPT ![p].at = "taking", ![p].current = 0,
                            ![p].completed = @ \cup {poll[p].current}]
    /\ UNCHANGED <<task, refresh, doNotContact, raced, faults>>

FinishPoll(p) ==
    /\ poll[p].at = "taking" /\ poll[p].todo = {}
    /\ task' = Committed(p)
    /\ poll' = [poll EXCEPT ![p] = NoPoll]
    /\ UNCHANGED <<refresh, doNotContact, mails, raced, faults>>

\* An exception or the end of the process: what was not committed is lost, and
\* an agent that fails has its run committed all the same.
PollFails(p) ==
    /\ poll[p].at # "idle"
    /\ faults < MaxFaults /\ faults' = faults + 1
    /\ task' \in {task, Committed(p)}
    /\ poll' = [poll EXCEPT ![p] = NoPoll]
    /\ UNCHANGED <<refresh, doNotContact, mails, raced>>

ProcessDue(p) ==
    \/ \E t \in Tasks : SuppressTask(p, t) \/ DraftFollowup(p, t)
    \/ MailFollowup(p)
    \/ FinishPoll(p)

FollowupsNext ==
    \/ \E t \in Tasks : CreateTask(t)
    \/ ForbidsContact
    \/ \E r \in Refreshes : LookForAlert(r) \/ \E t \in Tasks : RaiseDelayAlert(r, t)
    \/ \E p \in Pollers : LoadDue(p) \/ ProcessDue(p) \/ PollFails(p)

\* The worker polls for ever: an exception ends one poll, and every await of it
\* has a timeout.  Nobody else has to poll.
FollowupsSpec ==
    FollowupsInit /\ [][FollowupsNext]_vars /\ WF_vars(LoadDue("worker") \/ ProcessDue("worker"))

-----------------------------------------------------------------------------

\* A booking has one delay alert open at a time, unless two refreshes looked for
\* it at once (_raise_delay_alert: "One open delay alert per booking").
OneAlertPending ==
    ~raced => Cardinality({t \in Tasks : task[t].alert /\ task[t].status = "pending"}) <= 1

\* A customer gets the e-mail of a task once; once more for each other poll that
\* had loaded it (Pollers bounds them to one), and once more for each fault that
\* lost the status.
MailsBounded == \A t \in Tasks : mails[t] <= Cardinality(Pollers) + faults

\* A task that is due is handled while faults are finitely many (main: "the loop
\* is the only thing keeping follow-ups flowing").
DueTaskHandled ==
    \A t \in Tasks : task[t].status = "pending" ~> task[t].status # "pending"

=============================================================================
