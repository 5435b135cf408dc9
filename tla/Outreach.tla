------------------------------- MODULE Outreach -------------------------------
(***************************************************************************)
(* Cold outreach to one e-mail address (app/services/prospecting.py, and    *)
(* the nodes of app/graph/acquisition.py): lists bring candidates in, an    *)
(* agent scores them, a reviewer clears the contact and each message, four  *)
(* gates guard the send, an opt-out stops it.                               *)
(*                                                                         *)
(* Every query of a recipient is by its address, so one address is enough.  *)
(* Candidates without one are never contacted and are left out, and so is   *)
(* the status of a candidate: no gate reads it.  (Promotion reads it to     *)
(* return the lead of a prospect promoted and not touched since, writing    *)
(* nothing; here it may always write again.)                                *)
(*                                                                         *)
(* A handler loads rows, then works or waits for an agent, then commits;    *)
(* handlers overlap in between.  A session neither expires nor refreshes    *)
(* what it has loaded, and an UPDATE carries only the columns that differ   *)
(* from it.                                                                 *)
(***************************************************************************)
EXTENDS Integers, FiniteSets, FiniteSetsExt, Functions

CONSTANTS
    Sessions,           \* requests in flight at a time
    Shippers, Vendors,  \* normalised company names, sources: a record each pair
    MaxDrafts,          \* bound on the drafts written
    MaxPerWindow,       \* settings.outreach_max_per_window
    MaxLost,            \* bound: no send dies once this many records are lost
    MaxPool,            \* bound: with more candidates than this, nothing begins
    TogetherOps,        \* bound: what may begin while a request is in flight
    Nobody              \* what a draft not written is about

ASSUME OutreachBounds ==
    /\ MaxDrafts \in Nat /\ MaxLost \in Nat /\ MaxPool \in Nat
    /\ MaxPerWindow \in Nat \ {0}
    /\ IsFiniteSet(Sessions)
    /\ Nobody \notin Shippers \X Vendors

\* (source, source_ref) is unique; a vendor has one reference per shipper.
Records == Shippers \X Vendors
Drafts  == 1..MaxDrafts

VARIABLES
    pool,       \* the records that have a prospect_candidates row
    prospect,   \* per record: what the gates read of its row
    draft,      \* per outreach_activities row: status, record, basis copied
    session,    \* per request: what it is doing and what it has loaded
    mails,      \* e-mails that left per draft, in the current window
    recent,     \* drafts whose sent_at is in the window
    earned,     \* what agents and reviewers ever granted, see EveryMailEarned
    raced,      \* whether two imports were ever in flight at once
    lost        \* per draft: how often an e-mail left and its row lost the record

vars == <<pool, prospect, draft, session, mails, recent, earned, raced, lost>>
rows == <<pool, prospect, draft>>

\* score: under outreach_min_score, an unscored zero included, or not.
\* basis: "pending" is any text that is not an allowed basis.
\* consent: "given" is every value but an opt-out, the initial "unknown" included.
Basis    == {"none", "pending", "lawful"}
Prospect == [score : {"below", "high"}, consent : {"given", "opt_out"}, basis : Basis]
Imported == [score |-> "below", consent |-> "given", basis |-> "none"]

Draft == [status : {"absent", "draft", "approved", "rejected", "sent", "suppressed"},
          of : Records \cup {Nobody}, basis : Basis]

\* "mailed": the provider has taken the e-mail, the row does not say so yet.
Ops == {"idle", "importing", "scoring", "enriching", "promoting", "drafting",
        "reviewing", "sending", "mailed", "opting_out"}

Idle == [op |-> "idle", rows |-> <<>>, drafts |-> {}]

\* Rows and sessions keep their shapes.
OutreachTypeOK ==
    /\ pool \subseteq Records
    /\ prospect \in [Records -> Prospect]
    /\ draft \in [Drafts -> Draft]
    /\ \A s \in Sessions :
        /\ session[s].op \in Ops
        /\ DOMAIN session[s].rows \subseteq pool
        /\ session[s].drafts \subseteq Drafts
    /\ mails \in [Drafts -> Nat]
    /\ recent \subseteq Drafts
    /\ earned \in [scored : SUBSET Records, cleared : SUBSET Records]
    /\ raced \in BOOLEAN
    /\ lost \in [Drafts -> Nat]

OutreachInit ==
    /\ pool = {}
    /\ prospect = [p \in Records |-> Imported]
    /\ draft = [o \in Drafts |-> [status |-> "absent", of |-> Nobody, basis |-> "none"]]
    /\ session = [s \in Sessions |-> Idle]
    /\ mails = [o \in Drafts |-> 0]
    /\ recent = {}
    /\ earned = [scored |-> {}, cleared |-> {}]
    /\ raced = FALSE
    /\ lost = [o \in Drafts |-> 0]

-----------------------------------------------------------------------------
(* Loading and committing *)

\* The sum of what is counted per draft.
Each(count)  == UNION {{o} \X (1..count[o]) : o \in Drafts}
Total(count) == Cardinality(Each(count))

At(s, op)  == session[s].op = op
Seen(s, p) == session[s].rows[p]
Loaded(s)  == DOMAIN session[s].rows

\* The session keeps the columns its handler goes on to use.
Load(s, op, ps, columns, os) ==
    /\ At(s, "idle") /\ Cardinality(pool) <= MaxPool
    /\ op \in TogetherOps \/ \A t \in Sessions : At(t, "idle")
    /\ session' = [session EXCEPT ![s] =
           [op |-> op, rows |-> [p \in ps |-> Restrict(prospect[p], columns)], drafts |-> os]]

End(s) == session' = [session EXCEPT ![s] = Idle]

\* The row of p once a session that had loaded "seen" of it commits "new".
Merged(p, seen, new) ==
    [f \in DOMAIN prospect[p] |->
        IF f \in DOMAIN new /\ new[f] # seen[f] THEN new[f] ELSE prospect[p][f]]

Save(p, seen, new) == prospect' = [prospect EXCEPT ![p] = Merged(p, seen, new)]

-----------------------------------------------------------------------------
(* Candidates come in *)

Import(s) ==
    /\ Load(s, "importing", pool, {}, {})
    /\ raced' = (raced \/ \E t \in Sessions : At(t, "importing"))
    /\ UNCHANGED <<rows, mails, recent, earned, lost>>

\* Mutant: the same shipper bought from another vendor counts as new.
IsNewReference(s, p) == p \notin Loaded(s)

\* Neither its reference nor the shipper is in the pool as loaded.
IsNew(s, p) == \A q \in Loaded(s) : q[1] # p[1]

\* One commit for the list: a reference inserted meanwhile refuses it whole.
CommitImport(s, vendor, shippers) ==
    LET accepted == {p \in shippers \X {vendor} : IsNew(s, p)}
    IN /\ At(s, "importing")
       /\ pool' = IF accepted \cap pool # {} THEN pool ELSE pool \cup accepted
       /\ End(s)
       /\ UNCHANGED <<prospect, draft, mails, recent, earned, raced, lost>>

Granted(p, what) == earned' = [earned EXCEPT ![what] = @ \cup {p}]

\* A search finds a candidate of the pool again.  The agent has ranked it
\* before the row is read, and a fit score of zero keeps the score it has.
SearchAgain(s, p, score) ==
    /\ At(s, "idle") /\ p \in pool
    /\ prospect' = [prospect EXCEPT ![p].score = score]
    /\ IF score = "high" THEN Granted(p, "scored") ELSE UNCHANGED earned
    /\ UNCHANGED <<pool, draft, session, mails, recent, raced, lost>>

-----------------------------------------------------------------------------
(* The agents look at candidates *)

\* One candidate, or the rows of score zero as an acquisition run takes them.
Score(s, ps) ==
    /\ ps # {} /\ ps \subseteq pool
    /\ Cardinality(ps) > 1 => \A p \in ps : prospect[p].score = "below"
    /\ Load(s, "scoring", ps, {"score"}, {})
    /\ UNCHANGED <<rows, mails, recent, earned, raced, lost>>

\* The verdict on one row; each is a commit, the others stay as loaded.
CommitScore(s, p, score) ==
    /\ At(s, "scoring") /\ p \in Loaded(s)
    /\ Save(p, Seen(s, p), [score |-> score])
    /\ IF score = "high" THEN Granted(p, "scored") ELSE UNCHANGED earned
    /\ IF Loaded(s) = {p} THEN End(s)
       ELSE session' = [session EXCEPT ![s].rows = Restrict(@, Loaded(s) \ {p})]
    /\ UNCHANGED <<pool, draft, mails, recent, raced, lost>>

Enrich(s, p) ==
    /\ p \in pool
    /\ Load(s, "enriching", {p}, {"basis"}, {})
    /\ UNCHANGED <<rows, mails, recent, earned, raced, lost>>

\* Mutant: the agent asserts the basis.
CommitEnrichLawful(s, p) ==
    /\ At(s, "enriching") /\ p \in Loaded(s)
    /\ Save(p, Seen(s, p), [basis |-> "lawful"])
    /\ End(s)
    /\ UNCHANGED <<pool, draft, mails, recent, earned, raced, lost>>

CommitEnrich(s, p) ==
    /\ At(s, "enriching") /\ p \in Loaded(s)
    /\ Save(p, Seen(s, p), [basis |-> IF Seen(s, p).basis = "none" THEN "pending"
                                      ELSE Seen(s, p).basis])
    /\ End(s)
    /\ UNCHANGED <<pool, draft, mails, recent, earned, raced, lost>>

\* No verdict, an error of the agent, or a death that loses only uncommitted work.
GiveUp(s) ==
    /\ session[s].op \notin {"idle", "mailed"}
    /\ End(s)
    /\ UNCHANGED <<rows, mails, recent, earned, raced, lost>>

-----------------------------------------------------------------------------
(* The reviewer clears the contact *)

Promote(s, p) ==
    /\ p \in pool
    /\ Load(s, "promoting", {p}, {"consent", "basis"}, {})
    /\ UNCHANGED <<rows, mails, recent, earned, raced, lost>>

\* Whatever consent the row had, an opt-out included, is overwritten where the new
\* one differs from the one loaded, as two of those that are "given" may.
CommitPromote(s, p, basis) ==
    /\ At(s, "promoting") /\ p \in Loaded(s)
    /\ \E loaded \in {Seen(s, p), [Seen(s, p) EXCEPT !.consent = "opt_out"]} :
          Save(p, loaded, [consent |-> "given", basis |-> basis])
    /\ IF basis = "lawful" THEN Granted(p, "cleared") ELSE UNCHANGED earned
    /\ End(s)
    /\ UNCHANGED <<pool, draft, mails, recent, raced, lost>>

-----------------------------------------------------------------------------
(* A message: drafted, reviewed, sent *)

StartDraft(s, p) ==
    /\ p \in pool
    /\ Load(s, "drafting", {p}, {"basis"}, {})
    /\ UNCHANGED <<rows, mails, recent, earned, raced, lost>>

NextDraft(o) ==
    /\ draft[o].status = "absent"
    /\ \A a \in 1..(o-1) : draft[a].status # "absent"

CommitDraft(s, p, o) ==
    /\ At(s, "drafting") /\ p \in Loaded(s) /\ NextDraft(o)
    /\ draft' = [draft EXCEPT ![o] =
           [status |-> "draft", of |-> p, basis |-> Seen(s, p).basis]]
    /\ End(s)
    /\ UNCHANGED <<pool, prospect, mails, recent, earned, raced, lost>>

\* Mutant: whatever became of the draft, it can be approved.
ReviewAny(s, o) ==
    /\ draft[o].status # "absent"
    /\ Load(s, "reviewing", {}, {}, {o})
    /\ UNCHANGED <<rows, mails, recent, earned, raced, lost>>

Review(s, o) ==
    /\ draft[o].status = "draft"
    /\ Load(s, "reviewing", {}, {}, {o})
    /\ UNCHANGED <<rows, mails, recent, earned, raced, lost>>

\* The cap counts this draft: by its row it was sent, and in the window.
Counted(o) == o \in recent /\ draft[o].status = "sent"

\* A stale commit writes over sent rows: they no longer count.
Overwrites(os) == lost' = [o \in Drafts |-> IF o \in os /\ Counted(o) THEN lost[o] + 1 ELSE lost[o]]

ReviewedStatus(action) == IF action = "approve" THEN "approved" ELSE "rejected"

CommitReview(s, o, action) ==
    /\ At(s, "reviewing") /\ o \in session[s].drafts
    /\ draft' = [draft EXCEPT ![o].status = ReviewedStatus(action)]
    /\ Overwrites({o})
    /\ End(s)
    /\ UNCHANGED <<pool, prospect, mails, recent, earned, raced>>

\* Mutant: the cap is per draft.
FrequencyBlockOne(o) == Cardinality({a \in Drafts : a = o /\ Counted(a)})

\* How many e-mails the recipient got in the window, by the rows that say so.
FrequencyBlock(o) == Cardinality({a \in Drafts : Counted(a)})

\* The basis on the draft, else the one on the prospect.
BasisOf(o) == IF draft[o].basis # "none" THEN draft[o].basis ELSE prospect[draft[o].of].basis

\* The gates of send_outreach.
MayContact(o) ==
    /\ draft[o].status = "approved"
    /\ BasisOf(o) = "lawful"
    /\ prospect[draft[o].of].score = "high"
    /\ FrequencyBlock(o) < MaxPerWindow

Send(s, o) ==
    /\ MayContact(o)
    /\ Load(s, "sending", {}, {}, {o})
    /\ UNCHANGED <<rows, mails, recent, earned, raced, lost>>

MailProspect(s, o) ==
    /\ At(s, "sending") /\ o \in session[s].drafts
    /\ mails' = [mails EXCEPT ![o] = @ + 1]
    /\ session' = [session EXCEPT ![s].op = "mailed"]
    /\ UNCHANGED <<rows, recent, earned, raced, lost>>

CommitSend(s, o) ==
    /\ At(s, "mailed") /\ o \in session[s].drafts
    /\ draft' = [draft EXCEPT ![o].status = "sent"]
    /\ recent' = recent \cup {o}
    /\ End(s)
    /\ UNCHANGED <<pool, prospect, mails, earned, raced, lost>>

\* The process dies, or the commit fails, with the e-mail out.
Die(s) ==
    /\ At(s, "mailed") /\ Total(lost) < MaxLost
    /\ lost' = [o \in Drafts |-> IF o \in session[s].drafts THEN lost[o] + 1 ELSE lost[o]]
    /\ End(s)
    /\ UNCHANGED <<rows, mails, recent, earned, raced>>

\* outreach_window_days pass: far longer than any request is in flight.
WindowPasses ==
    /\ recent # {} /\ \A s \in Sessions : At(s, "idle")
    /\ recent' = {} /\ mails' = [o \in Drafts |-> 0]
    /\ UNCHANGED <<rows, session, earned, raced, lost>>

-----------------------------------------------------------------------------
(* The opt-out of the address *)

OptOut(s) ==
    /\ Load(s, "opting_out", pool, {"consent"},
            {o \in Drafts : draft[o].status \in {"draft", "approved"}})
    /\ UNCHANGED <<rows, mails, recent, earned, raced, lost>>

CommitOptOut(s) ==
    /\ At(s, "opting_out")
    /\ prospect' = [p \in Records |->
           IF p \in Loaded(s) THEN Merged(p, Seen(s, p), [consent |-> "opt_out"]) ELSE prospect[p]]
    /\ draft' = [o \in Drafts |->
           IF o \in session[s].drafts THEN [draft[o] EXCEPT !.status = "suppressed"] ELSE draft[o]]
    /\ Overwrites(session[s].drafts)
    /\ End(s)
    /\ UNCHANGED <<pool, mails, recent, earned, raced>>

-----------------------------------------------------------------------------

Qualifying(s) ==
    \/ Import(s)
    \/ \E v \in Vendors, hs \in (SUBSET Shippers) \ {{}} : CommitImport(s, v, hs)
    \/ \E ps \in SUBSET Records : Score(s, ps)
    \/ \E p \in Records, score \in {"below", "high"} :
           SearchAgain(s, p, score) \/ CommitScore(s, p, score)
    \/ \E p \in Records : Enrich(s, p) \/ CommitEnrich(s, p) \/ Promote(s, p)
    \/ \E p \in Records, basis \in Basis : CommitPromote(s, p, basis)

Contacting(s) ==
    \/ \E p \in Records : StartDraft(s, p)
    \/ \E p \in Records, o \in Drafts : CommitDraft(s, p, o)
    \/ \E o \in Drafts : Review(s, o) \/ Send(s, o) \/ MailProspect(s, o) \/ CommitSend(s, o)
    \/ \E o \in Drafts, action \in {"approve", "reject"} : CommitReview(s, o, action)
    \/ OptOut(s)
    \/ CommitOptOut(s)

OutreachNext ==
    \/ \E s \in Sessions : Qualifying(s) \/ Contacting(s) \/ GiveUp(s) \/ Die(s)
    \/ WindowPasses

OutreachSpec == OutreachInit /\ [][OutreachNext]_vars

-----------------------------------------------------------------------------

\* An e-mail is about a candidate an agent once scored at the floor or above
\* and a reviewer once cleared with a lawful basis (import_prospects: "buying a
\* list must not become a licence to blast it").  The gates read rows; drafts
\* copy the basis, agents and searches overwrite the score meanwhile.
EveryMailEarned ==
    \A o \in Drafts : mails[o] > 0 => draft[o].of \in earned.scored \cap earned.cleared

\* The cap (_frequency_block) counts drafts that say they were sent.  Every
\* request in flight may send one more e-mail per draft counted, and that is all
\* the recipient gets in a window, but for lost records: one hides the e-mail of
\* a request that died, or those of all requests but the one that wrote over it.
CapHolds ==
    LET requests == Cardinality(Sessions)
        hides    == IF requests > 1 THEN requests - 1 ELSE 1
    IN Total(mails) <= requests * MaxPerWindow + Total([o \in Drafts |-> hides * lost[o]])

\* Unless two imports overlapped, a shipper bought from two vendors is one
\* candidate (import_prospects, the second dedupe key).
SameShipperOnce == ~raced => \A p, q \in pool : p[1] = q[1] => p = q

\* Suppressed by an opt-out and in nobody's hands.
Stopped(o) ==
    /\ draft[o].status = "suppressed"
    /\ \A s \in Sessions : o \in session[s].drafts => At(s, "opting_out")

\* A draft an opt-out has stopped is not reviewed, sent or mailed ever again:
\* mark_opt_out suppresses, and no handler takes a suppressed row.  (A handler
\* that had it in hand may still overwrite it, hence "in nobody's hands".)
OptOutSticks == [][\A o \in Drafts : Stopped(o) => Stopped(o)' /\ mails'[o] <= mails[o]]_vars

\* No e-mail leaves while the candidate's row says opt_out (mark_opt_out:
\* "Honour an opt-out immediately across prospects, leads and outreach
\* records").  The code refutes this: see the run outreach_opt_out.
NoMailAfterOptOut ==
    [][\A o \in Drafts : mails'[o] > mails[o] => prospect[draft[o].of].consent # "opt_out"]_vars

=============================================================================
