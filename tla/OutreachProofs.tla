---------------------------- MODULE OutreachProofs ----------------------------
(***************************************************************************)
(* Theorems of Outreach, for any sessions, shippers, vendors, drafts and    *)
(* cap.                                                                     *)
(***************************************************************************)
EXTENDS Outreach, FiniteSetTheorems, TLAPS

-----------------------------------------------------------------------------
(* Shapes *)

LEMMA MergedType ==
    ASSUME NEW p, prospect[p] \in Prospect, NEW seen, NEW new,
           "score" \in DOMAIN new => new["score"] \in {"below", "high"},
           "consent" \in DOMAIN new => new["consent"] \in {"given", "opt_out"},
           "basis" \in DOMAIN new /\ new["basis"] # seen["basis"] => new["basis"] \in Basis
    PROVE  /\ Merged(p, seen, new) \in Prospect
           /\ Merged(p, seen, new).score =
                IF "score" \in DOMAIN new /\ new["score"] # seen["score"] THEN new["score"] ELSE prospect[p].score
           /\ Merged(p, seen, new).basis =
                IF "basis" \in DOMAIN new /\ new["basis"] # seen["basis"] THEN new["basis"] ELSE prospect[p].basis
<1>1. DOMAIN prospect[p] = {"score", "consent", "basis"}
  BY DEF Prospect
<1> QED BY <1>1 DEF Merged, Prospect

LEMMA IdleRows == Idle.op = "idle" /\ DOMAIN Idle.rows = {} /\ Idle.drafts = {}
  BY DEF Idle

\* The shape of the sessions: records, with rows of the pool in hand.
SessionOK(s) ==
    /\ session[s] = [op |-> session[s].op, rows |-> session[s].rows, drafts |-> session[s].drafts]
    /\ session[s].op \in Ops
    /\ Loaded(s) \subseteq pool
    /\ session[s].drafts \subseteq Drafts
    /\ \A o \in session[s].drafts : draft[o].status # "absent"
    /\ At(s, "idle") => session[s].drafts = {}
    /\ At(s, "drafting") => \A p \in Loaded(s) : Seen(s, p).basis \in Basis

\* A draft that is written is about a record.
DraftOK(o) == draft[o].status # "absent" => draft[o].of \in pool

Types ==
    /\ OutreachTypeOK
    /\ session = [s \in Sessions |-> session[s]] /\ \A s \in Sessions : SessionOK(s)
    /\ \A o \in Drafts : DraftOK(o)

\* A draft that is written stays written.
StayWritten == \A o \in Drafts : draft[o].status # "absent" => draft'[o].status # "absent"

\* The others keep what they have in hand; it is still in the pool.
LEMMA OthersKeep ==
    ASSUME Types, NEW s \in Sessions, NEW new,
           session' = [session EXCEPT ![s] = new],
           new = [op |-> new.op, rows |-> new.rows, drafts |-> new.drafts],
           new.op \in Ops, DOMAIN new.rows \subseteq pool', new.drafts \subseteq Drafts,
           new.op = "idle" => new.drafts = {},
           new.op = "drafting" => \A p \in DOMAIN new.rows : new.rows[p].basis \in Basis,
           \A o \in new.drafts : draft'[o].status # "absent",
           pool \subseteq pool', StayWritten
    PROVE  /\ session' = [x \in Sessions |-> session'[x]]
           /\ \A x \in Sessions : SessionOK(x)'
<1>1. session'[s] = new /\ \A x \in Sessions : x # s => session'[x] = session[x]
  BY DEF Types
<1>2. session' = [x \in Sessions |-> session'[x]]
  BY DEF Types
<1>3. SessionOK(s)'
  BY <1>1 DEF SessionOK, At, Loaded, Seen
<1>4. ASSUME NEW x \in Sessions, x # s PROVE SessionOK(x)'
  <2>1. SessionOK(x) /\ session'[x] = session[x]
    BY <1>1, <1>4 DEF Types
  <2> QED BY <2>1 DEF SessionOK, At, Loaded, Seen, StayWritten
<1> QED BY <1>2, <1>3, <1>4

\* Loading rows of the pool, or ending, keeps the shape of the sessions.
LEMMA LoadOK ==
    ASSUME Types, NEW s \in Sessions, NEW op \in Ops, op # "idle", NEW ps \in SUBSET pool, NEW columns,
           NEW os \in SUBSET Drafts, \A o \in os : draft[o].status # "absent",
           Load(s, op, ps, columns, os), UNCHANGED <<pool, draft>>,
           op = "drafting" => columns = {"basis"}
    PROVE  /\ session' = [x \in Sessions |-> session'[x]]
           /\ \A x \in Sessions : SessionOK(x)'
<1> DEFINE new == [op |-> op, rows |-> [p \in ps |-> Restrict(prospect[p], columns)], drafts |-> os]
<1>1. session' = [session EXCEPT ![s] = new]
  BY DEF Load
<1>2. ASSUME op = "drafting", NEW p \in ps PROVE new.rows[p].basis \in Basis
  <2>1. prospect[p] \in Prospect
    BY DEF Types, OutreachTypeOK
  <2> QED BY <1>2, <2>1 DEF Restrict, Prospect
<1>3. DOMAIN new.rows = ps /\ new.op = op /\ new.drafts = os
  OBVIOUS
<1>4. new = [op |-> new.op, rows |-> new.rows, drafts |-> new.drafts]
  OBVIOUS
<1> HIDE DEF new
<1> QED BY <1>1, <1>2, <1>3, <1>4, OthersKeep DEF StayWritten

LEMMA EndOK ==
    ASSUME Types, NEW s \in Sessions, End(s), pool \subseteq pool', StayWritten
    PROVE  /\ session' = [x \in Sessions |-> session'[x]]
           /\ \A x \in Sessions : SessionOK(x)'
<1>1. Idle = [op |-> Idle.op, rows |-> Idle.rows, drafts |-> Idle.drafts]
  BY DEF Idle
<1>2. Idle.op \in Ops /\ Idle.op # "drafting"
  BY DEF Idle, Ops
<1> QED BY <1>1, <1>2, IdleRows, OthersKeep DEF End


\* The rows of candidates and drafts keep their types.
LEMMA SaveType ==
    ASSUME Types, NEW p \in Records, NEW seen, NEW new,
           "score" \in DOMAIN new => new["score"] \in {"below", "high"},
           "consent" \in DOMAIN new => new["consent"] \in {"given", "opt_out"},
           "basis" \in DOMAIN new /\ new["basis"] # seen["basis"] => new["basis"] \in Basis,
           Save(p, seen, new)
    PROVE  prospect' \in [Records -> Prospect]
<1>1. prospect \in [Records -> Prospect] /\ prospect[p] \in Prospect
  BY DEF Types, OutreachTypeOK
<1>2. Merged(p, seen, new) \in Prospect
  BY <1>1, MergedType
<1> QED BY <1>1, <1>2 DEF Save

\* What the parts of a step give for the type invariant as a whole.
LEMMA TypesParts ==
    ASSUME Types,
           pool' \subseteq Records, pool \subseteq pool', prospect' \in [Records -> Prospect],
           draft' \in [Drafts -> Draft], \A o \in Drafts : DraftOK(o)',
           session' = [x \in Sessions |-> session'[x]], \A x \in Sessions : SessionOK(x)',
           mails' \in [Drafts -> Nat], recent' \subseteq Drafts,
           earned' \in [scored : SUBSET Records, cleared : SUBSET Records],
           raced' \in BOOLEAN, lost' \in [Drafts -> Nat]
    PROVE  Types'
<1>1. \A s \in Sessions :
        /\ session'[s].op \in Ops
        /\ DOMAIN session'[s].rows \subseteq pool'
        /\ session'[s].drafts \subseteq Drafts
  BY DEF SessionOK, Loaded
<1> QED BY <1>1 DEF Types, OutreachTypeOK


LEMMA LossType ==
    ASSUME lost \in [Drafts -> Nat], NEW os,
           Overwrites(os) \/ lost' = [o \in Drafts |-> IF o \in os THEN lost[o] + 1 ELSE lost[o]]
    PROVE  lost' \in [Drafts -> Nat] /\ \A o \in Drafts : lost[o] <= lost'[o]
  BY DEF Overwrites

\* A draft whose status alone is written stays about what it was about.
LEMMA StatusType ==
    ASSUME Types, NEW os \in SUBSET Drafts, NEW status \in {"approved", "rejected", "sent", "suppressed"},
           \A o \in os : draft[o].status # "absent", UNCHANGED pool,
           draft' = [o \in Drafts |-> IF o \in os THEN [draft[o] EXCEPT !.status = status] ELSE draft[o]]
    PROVE  draft' \in [Drafts -> Draft] /\ StayWritten /\ \A o \in Drafts : DraftOK(o)'
<1>1. draft \in [Drafts -> Draft]
  BY DEF Types, OutreachTypeOK
<1>2. ASSUME NEW o \in Drafts PROVE draft'[o] \in Draft /\ DraftOK(o)'
  <2>1. draft[o] \in Draft /\ DraftOK(o)
    BY <1>1 DEF Types
  <2>2. CASE o \in os
    <3>1. draft'[o] = [draft[o] EXCEPT !.status = status]
      BY <2>2
    <3> QED BY <2>1, <2>2, <3>1 DEF Draft, DraftOK
  <2>3. CASE o \notin os
    <3>1. draft'[o] = draft[o]
      BY <2>3
    <3> QED BY <2>1, <2>3, <3>1 DEF DraftOK
  <2> QED BY <2>2, <2>3
<1>3. draft' = [o \in Drafts |-> draft'[o]]
  OBVIOUS
<1>4. StayWritten
  BY <1>1 DEF StayWritten, Draft
<1> QED BY <1>2, <1>3, <1>4


\* A handler that loads changes nothing else.
LEMMA LoadTypes ==
    ASSUME Types, NEW s \in Sessions, NEW op \in Ops, op # "idle", NEW ps \in SUBSET pool, NEW columns,
           NEW os \in SUBSET Drafts, \A o \in os : draft[o].status # "absent",
           Load(s, op, ps, columns, os), op = "drafting" => columns = {"basis"},
           UNCHANGED <<rows, mails, recent, earned, lost>>, raced' \in BOOLEAN
    PROVE  Types'
<1>1. UNCHANGED <<pool, prospect, draft>>
  BY DEF rows
<1>2. \A o \in Drafts : DraftOK(o)'
  BY <1>1 DEF DraftOK, Types
<1> QED BY <1>1, <1>2, LoadOK, TypesParts DEF Types, OutreachTypeOK

LEMMA Kept ==
    ASSUME Types, pool \subseteq pool', UNCHANGED draft
    PROVE  StayWritten /\ draft' \in [Drafts -> Draft] /\ \A o \in Drafts : DraftOK(o)'
  BY DEF StayWritten, DraftOK, Types, OutreachTypeOK

\* Loading steps.
LEMMA LoadingTypes ==
    ASSUME Types, NEW s \in Sessions,
           \/ Import(s)
           \/ \E ps \in SUBSET Records : Score(s, ps)
           \/ \E p \in Records : Enrich(s, p) \/ Promote(s, p) \/ StartDraft(s, p)
           \/ \E o \in Drafts : Review(s, o) \/ Send(s, o)
           \/ OptOut(s)
    PROVE  Types'
<1>b. raced \in BOOLEAN
  BY DEF Types, OutreachTypeOK
<1>1. CASE Import(s)
  <2>1. raced' \in BOOLEAN
    BY <1>1, <1>b, Zenon DEF Import
  <2>2. "importing" \in Ops
    BY DEF Ops
  <2> QED BY <1>1, <2>1, <2>2, LoadTypes DEF Import
<1>2. ASSUME NEW ps \in SUBSET Records, Score(s, ps) PROVE Types'
  <2>1. "scoring" \in Ops
    BY DEF Ops
  <2> QED BY <1>2, <1>b, <2>1, LoadTypes DEF Score
<1>3. ASSUME NEW p \in Records, Enrich(s, p) PROVE Types'
  <2>1. "enriching" \in Ops /\ {p} \in SUBSET pool
    BY <1>3 DEF Ops, Enrich
  <2> QED BY <1>3, <1>b, <2>1, LoadTypes DEF Enrich
<1>4. ASSUME NEW p \in Records, Promote(s, p) PROVE Types'
  <2>1. "promoting" \in Ops /\ {p} \in SUBSET pool
    BY <1>4 DEF Ops, Promote
  <2> QED BY <1>4, <1>b, <2>1, LoadTypes DEF Promote
<1>5. ASSUME NEW p \in Records, StartDraft(s, p) PROVE Types'
  <2>1. "drafting" \in Ops /\ {p} \in SUBSET pool
    BY <1>5 DEF Ops, StartDraft
  <2> QED BY <1>5, <1>b, <2>1, LoadTypes DEF StartDraft
<1>6. ASSUME NEW o \in Drafts, Review(s, o) PROVE Types'
  <2>1. "reviewing" \in Ops /\ {o} \in SUBSET Drafts /\ \A x \in {o} : draft[x].status # "absent"
    BY <1>6 DEF Ops, Review
  <2> QED BY <1>6, <1>b, <2>1, LoadTypes DEF Review
<1>7. ASSUME NEW o \in Drafts, Send(s, o) PROVE Types'
  <2>1. "sending" \in Ops /\ {o} \in SUBSET Drafts /\ \A x \in {o} : draft[x].status # "absent"
    BY <1>7 DEF Ops, Send, MayContact
  <2> QED BY <1>7, <1>b, <2>1, LoadTypes DEF Send
<1>8. CASE OptOut(s)
  <2>1. "opting_out" \in Ops
    BY DEF Ops
  <2> QED BY <1>8, <1>b, <2>1, LoadTypes DEF OptOut
<1> QED BY <1>1, <1>2, <1>3, <1>4, <1>5, <1>6, <1>7, <1>8

LEMMA SameSessions ==
    ASSUME Types, UNCHANGED session, pool \subseteq pool', StayWritten
    PROVE  /\ session' = [x \in Sessions |-> session'[x]]
           /\ \A x \in Sessions : SessionOK(x)'
<1>1. session' = [x \in Sessions |-> session'[x]]
  BY DEF Types
<1>2. ASSUME NEW x \in Sessions PROVE SessionOK(x)'
  <2>1. SessionOK(x) /\ session'[x] = session[x]
    BY DEF Types
  <2> QED BY <2>1 DEF SessionOK, At, Loaded, Seen, StayWritten
<1> QED BY <1>1, <1>2

LEMMA GrantedType ==
    ASSUME Types, NEW p \in Records, NEW what \in {"scored", "cleared"}, Granted(p, what) \/ UNCHANGED earned
    PROVE  /\ earned' \in [scored : SUBSET Records, cleared : SUBSET Records]
           /\ earned.scored \subseteq earned'.scored /\ earned.cleared \subseteq earned'.cleared
  BY DEF Granted, Types, OutreachTypeOK

\* Steps that commit what was found out about candidates.
LEMMA CandidateTypes ==
    ASSUME Types, NEW s \in Sessions,
           \/ \E v \in Vendors, hs \in (SUBSET Shippers) \ {{}} : CommitImport(s, v, hs)
           \/ \E p \in Records, score \in {"below", "high"} :
                  SearchAgain(s, p, score) \/ CommitScore(s, p, score)
           \/ \E p \in Records : CommitEnrich(s, p)
           \/ \E p \in Records, basis \in Basis : CommitPromote(s, p, basis)
    PROVE  Types'
<1>b. raced \in BOOLEAN
  BY DEF Types, OutreachTypeOK
<1>t. pool \subseteq Records /\ prospect \in [Records -> Prospect] /\ mails \in [Drafts -> Nat]
      /\ recent \subseteq Drafts /\ lost \in [Drafts -> Nat]
      /\ earned \in [scored : SUBSET Records, cleared : SUBSET Records]
  BY DEF Types, OutreachTypeOK
<1>1. ASSUME NEW v \in Vendors, NEW hs \in SUBSET Shippers, CommitImport(s, v, hs) PROVE Types'
  <2>1. pool' \subseteq Records /\ pool \subseteq pool'
    BY <1>1, <1>t DEF CommitImport, Records
  <2>2. raced' \in BOOLEAN /\ UNCHANGED <<prospect, draft, mails, recent, earned, lost>> /\ End(s)
    BY <1>1, <1>b DEF CommitImport
  <2> QED BY <1>t, <2>1, <2>2, Kept, EndOK, TypesParts
<1>2. ASSUME NEW p \in Records, NEW score \in {"below", "high"}, SearchAgain(s, p, score) PROVE Types'
  <2>1. prospect' \in [Records -> Prospect]
    BY <1>2, <1>t DEF SearchAgain, Prospect
  <2>2. raced' \in BOOLEAN /\ UNCHANGED <<pool, draft, session, mails, recent, lost>>
    BY <1>2, <1>b DEF SearchAgain
  <2>3. earned' \in [scored : SUBSET Records, cleared : SUBSET Records]
    BY <1>2, GrantedType DEF SearchAgain
  <2> QED BY <1>t, <2>1, <2>2, <2>3, Kept, SameSessions, TypesParts
<1>3. ASSUME NEW p \in Records, NEW score \in {"below", "high"}, CommitScore(s, p, score) PROVE Types'
  <2> DEFINE change == [score |-> score]
  <2>1. prospect' \in [Records -> Prospect]
    <3>1. DOMAIN change = {"score"} /\ change["score"] = score
      OBVIOUS
    <3>2. Save(p, Seen(s, p), change)
      BY <1>3 DEF CommitScore
    <3> HIDE DEF change
    <3> QED BY <3>1, <3>2, SaveType
  <2>2. raced' \in BOOLEAN /\ UNCHANGED <<pool, draft, mails, recent, lost>>
    BY <1>3, <1>b DEF CommitScore
  <2>3. earned' \in [scored : SUBSET Records, cleared : SUBSET Records]
    BY <1>3, GrantedType DEF CommitScore
  <2>4. session' = [x \in Sessions |-> session'[x]] /\ \A x \in Sessions : SessionOK(x)'
    <3>1. CASE End(s)
      BY <2>2, <3>1, Kept, EndOK
    <3>2. CASE session' = [session EXCEPT ![s].rows = Restrict(@, Loaded(s) \ {p})]
      <4> DEFINE new == [op |-> "scoring", rows |-> Restrict(session[s].rows, Loaded(s) \ {p}),
                         drafts |-> session[s].drafts]
      <4>1. SessionOK(s) /\ At(s, "scoring")
        BY <1>3 DEF Types, CommitScore
      <4>2. session' = [session EXCEPT ![s] = new]
        <5>1. [session[s] EXCEPT !.rows = Restrict(session[s].rows, Loaded(s) \ {p})] = new
          <6>1. session[s] = [op |-> "scoring", rows |-> session[s].rows, drafts |-> session[s].drafts]
            BY <4>1 DEF SessionOK, At
          <6> QED BY <6>1
        <5> HIDE DEF new
        <5>2. session' = [session EXCEPT ![s] = [session[s] EXCEPT !.rows = Restrict(session[s].rows, Loaded(s) \ {p})]]
          BY <3>2
        <5> QED BY <5>1, <5>2
      <4>3. new.op = "scoring" /\ new.drafts = session[s].drafts /\ DOMAIN new.rows \subseteq pool
            /\ new = [op |-> new.op, rows |-> new.rows, drafts |-> new.drafts] /\ "scoring" \in Ops
        BY <4>1 DEF SessionOK, Loaded, Restrict, Ops
      <4>4. \A o \in session[s].drafts : draft[o].status # "absent"
        BY <4>1 DEF SessionOK
      <4>5. session[s].drafts \subseteq Drafts
        BY <4>1 DEF SessionOK
      <4> HIDE DEF new
      <4> QED BY <2>2, <4>2, <4>3, <4>4, <4>5, OthersKeep DEF StayWritten
    <3> QED BY <1>3, <3>1, <3>2 DEF CommitScore
  <2> QED BY <1>t, <2>1, <2>2, <2>3, <2>4, Kept, TypesParts
<1>4. ASSUME NEW p \in Records, CommitEnrich(s, p) PROVE Types'
  <2> DEFINE change == [basis |-> IF Seen(s, p).basis = "none" THEN "pending" ELSE Seen(s, p).basis]
  <2>1. prospect' \in [Records -> Prospect]
    <3>1. DOMAIN change = {"basis"} /\ (change["basis"] # Seen(s, p)["basis"] => change["basis"] = "pending")
      OBVIOUS
    <3>2. Save(p, Seen(s, p), change)
      BY <1>4 DEF CommitEnrich
    <3> HIDE DEF change
    <3> QED BY <3>1, <3>2, SaveType DEF Basis
  <2>2. raced' \in BOOLEAN /\ UNCHANGED <<pool, draft, mails, recent, earned, lost>> /\ End(s)
    BY <1>4, <1>b DEF CommitEnrich
  <2> QED BY <1>t, <2>1, <2>2, Kept, EndOK, TypesParts
<1>5. ASSUME NEW p \in Records, NEW basis \in Basis, CommitPromote(s, p, basis) PROVE Types'
  <2> DEFINE change == [consent |-> "given", basis |-> basis]
  <2>1. prospect' \in [Records -> Prospect]
    <3>1. DOMAIN change = {"consent", "basis"} /\ change["basis"] = basis /\ change["consent"] = "given"
      OBVIOUS
    <3>2. PICK loaded : Save(p, loaded, change)
      BY <1>5 DEF CommitPromote
    <3> HIDE DEF change
    <3> QED BY <3>1, <3>2, SaveType
  <2>2. raced' \in BOOLEAN /\ UNCHANGED <<pool, draft, mails, recent, lost>> /\ End(s)
    BY <1>5, <1>b DEF CommitPromote
  <2>3. earned' \in [scored : SUBSET Records, cleared : SUBSET Records]
    BY <1>5, GrantedType DEF CommitPromote
  <2> QED BY <1>t, <2>1, <2>2, <2>3, Kept, EndOK, TypesParts
<1> QED BY <1>1, <1>2, <1>3, <1>4, <1>5

\* Steps that write drafts.
LEMMA DraftTypes ==
    ASSUME Types, NEW s \in Sessions,
           \/ \E p \in Records, o \in Drafts : CommitDraft(s, p, o)
           \/ \E o \in Drafts : MailProspect(s, o) \/ CommitSend(s, o)
           \/ \E o \in Drafts, action \in {"approve", "reject"} : CommitReview(s, o, action)
           \/ CommitOptOut(s)
           \/ GiveUp(s)
           \/ Die(s)
    PROVE  Types'
<1>b. raced \in BOOLEAN
  BY DEF Types, OutreachTypeOK
<1>t. pool \subseteq Records /\ prospect \in [Records -> Prospect] /\ mails \in [Drafts -> Nat]
      /\ recent \subseteq Drafts /\ lost \in [Drafts -> Nat] /\ draft \in [Drafts -> Draft]
      /\ earned \in [scored : SUBSET Records, cleared : SUBSET Records]
  BY DEF Types, OutreachTypeOK
<1>s. SessionOK(s)
  BY DEF Types
<1>1. ASSUME NEW p \in Records, NEW o \in Drafts, CommitDraft(s, p, o) PROVE Types'
  <2> DEFINE new == [status |-> "draft", of |-> p, basis |-> Seen(s, p).basis]
  <2>1. p \in pool /\ new \in Draft /\ new.status = "draft" /\ new.of = p
    BY <1>1, <1>s DEF CommitDraft, SessionOK, Draft
  <2>2. draft' = [draft EXCEPT ![o] = new]
    BY <1>1 DEF CommitDraft
  <2>3. raced' \in BOOLEAN /\ UNCHANGED <<pool, prospect, mails, recent, earned, lost>> /\ End(s)
    BY <1>1, <1>b DEF CommitDraft
  <2> HIDE DEF new
  <2>4. draft' \in [Drafts -> Draft] /\ StayWritten
    BY <1>t, <2>1, <2>2 DEF StayWritten
  <2>5. \A x \in Drafts : DraftOK(x)'
    BY <1>t, <2>1, <2>2, <2>3 DEF DraftOK, Types
  <2> QED BY <1>t, <2>3, <2>4, <2>5, EndOK, TypesParts
<1>2. ASSUME NEW o \in Drafts, MailProspect(s, o) PROVE Types'
  <2> DEFINE new == [op |-> "mailed", rows |-> session[s].rows, drafts |-> session[s].drafts]
  <2>1. mails' \in [Drafts -> Nat]
    BY <1>2, <1>t DEF MailProspect
  <2>2. raced' \in BOOLEAN /\ UNCHANGED <<pool, prospect, draft, recent, earned, lost>>
    BY <1>2, <1>b DEF MailProspect, rows
  <2>3. [session[s] EXCEPT !.op = "mailed"] = new
    <3>1. session[s] = [op |-> session[s].op, rows |-> session[s].rows, drafts |-> session[s].drafts]
      BY <1>s DEF SessionOK
    <3> QED BY <3>1
  <2>4. session' = [session EXCEPT ![s] = new]
    <3> HIDE DEF new
    <3>1. session' = [session EXCEPT ![s] = [session[s] EXCEPT !.op = "mailed"]]
      BY <1>2 DEF MailProspect
    <3> QED BY <2>3, <3>1
  <2>5. new.op = "mailed" /\ new.drafts = session[s].drafts /\ DOMAIN new.rows \subseteq pool
        /\ new = [op |-> new.op, rows |-> new.rows, drafts |-> new.drafts] /\ "mailed" \in Ops
    BY <1>s DEF SessionOK, Loaded, Ops
  <2>6. session[s].drafts \subseteq Drafts /\ \A x \in session[s].drafts : draft[x].status # "absent"
    BY <1>s DEF SessionOK
  <2> HIDE DEF new
  <2>7. session' = [x \in Sessions |-> session'[x]] /\ \A x \in Sessions : SessionOK(x)'
    BY <2>2, <2>4, <2>5, <2>6, OthersKeep DEF StayWritten
  <2> QED BY <1>t, <2>1, <2>2, <2>7, Kept, TypesParts
<1>3. ASSUME NEW o \in Drafts, CommitSend(s, o) PROVE Types'
  <2>1. raced' \in BOOLEAN /\ UNCHANGED <<pool, prospect, mails, earned, lost>> /\ End(s) /\ recent' \subseteq Drafts
    BY <1>3, <1>b, <1>t DEF CommitSend
  <2> DEFINE os == {o}
  <2>2. draft' = [x \in Drafts |-> IF x \in os THEN [draft[x] EXCEPT !.status = "sent"] ELSE draft[x]]
    BY <1>3, <1>t DEF CommitSend
  <2>3. os \in SUBSET Drafts /\ \A x \in os : draft[x].status # "absent"
    BY <1>3, <1>s DEF CommitSend, SessionOK
  <2> HIDE DEF os
  <2>4. draft' \in [Drafts -> Draft] /\ StayWritten /\ \A x \in Drafts : DraftOK(x)'
    BY <2>1, <2>2, <2>3, StatusType
  <2> QED BY <1>t, <2>1, <2>4, EndOK, TypesParts
<1>4. ASSUME NEW o \in Drafts, NEW action \in {"approve", "reject"}, CommitReview(s, o, action) PROVE Types'
  <2>1. raced' \in BOOLEAN /\ UNCHANGED <<pool, prospect, mails, recent, earned>> /\ End(s)
    BY <1>4, <1>b DEF CommitReview
  <2> DEFINE os == {o}
  <2>2. draft' = [x \in Drafts |-> IF x \in os THEN [draft[x] EXCEPT !.status = ReviewedStatus(action)]
                                   ELSE draft[x]]
    BY <1>4, <1>t DEF CommitReview
  <2>3. os \in SUBSET Drafts /\ \A x \in os : draft[x].status # "absent"
    BY <1>4, <1>s DEF CommitReview, SessionOK
  <2> HIDE DEF os
  <2>4. ReviewedStatus(action) \in {"approved", "rejected", "sent", "suppressed"}
    BY DEF ReviewedStatus
  <2>5. draft' \in [Drafts -> Draft] /\ StayWritten /\ \A x \in Drafts : DraftOK(x)'
    BY <2>1, <2>2, <2>3, <2>4, StatusType
  <2>6. lost' \in [Drafts -> Nat]
    BY <1>4, <1>t, LossType DEF CommitReview
  <2> QED BY <1>t, <2>1, <2>5, <2>6, EndOK, TypesParts
<1>5. CASE CommitOptOut(s)
  <2>1. raced' \in BOOLEAN /\ UNCHANGED <<pool, mails, recent, earned>> /\ End(s)
    BY <1>5, <1>b DEF CommitOptOut
  <2>2. draft' = [x \in Drafts |-> IF x \in session[s].drafts THEN [draft[x] EXCEPT !.status = "suppressed"]
                                   ELSE draft[x]]
    BY <1>5 DEF CommitOptOut
  <2>3. session[s].drafts \in SUBSET Drafts /\ \A x \in session[s].drafts : draft[x].status # "absent"
    BY <1>s DEF SessionOK
  <2>4. draft' \in [Drafts -> Draft] /\ StayWritten /\ \A x \in Drafts : DraftOK(x)'
    BY <2>1, <2>2, <2>3, StatusType
  <2>5. lost' \in [Drafts -> Nat]
    BY <1>5, <1>t, LossType DEF CommitOptOut
  <2>6. prospect' \in [Records -> Prospect]
    <3> DEFINE change == [consent |-> "opt_out"]
    <3>1. DOMAIN change = {"consent"} /\ change["consent"] = "opt_out"
      OBVIOUS
    <3>2. prospect' = [p \in Records |->
              IF p \in Loaded(s) THEN Merged(p, Seen(s, p), change) ELSE prospect[p]]
      BY <1>5 DEF CommitOptOut
    <3> HIDE DEF change
    <3>3. ASSUME NEW p \in Records PROVE Merged(p, Seen(s, p), change) \in Prospect
      <4>1. prospect[p] \in Prospect
        BY <1>t
      <4> QED BY <3>1, <4>1, MergedType
    <3> QED BY <1>t, <3>2, <3>3
  <2> QED BY <1>t, <2>1, <2>4, <2>5, <2>6, EndOK, TypesParts
<1>6. CASE GiveUp(s)
  <2>1. raced' \in BOOLEAN /\ UNCHANGED <<pool, prospect, draft, mails, recent, earned, lost>> /\ End(s)
    BY <1>6, <1>b DEF GiveUp, rows
  <2> QED BY <1>t, <2>1, Kept, EndOK, TypesParts
<1>7. CASE Die(s)
  <2>1. raced' \in BOOLEAN /\ UNCHANGED <<pool, prospect, draft, mails, recent, earned>> /\ End(s) /\ lost' \in [Drafts -> Nat]
    BY <1>7, <1>b, <1>t, LossType DEF Die, rows
  <2> QED BY <1>t, <2>1, Kept, EndOK, TypesParts
<1> QED BY <1>1, <1>2, <1>3, <1>4, <1>5, <1>6, <1>7

LEMMA InitTypes == OutreachInit => Types
<1> SUFFICES ASSUME OutreachInit PROVE Types
  OBVIOUS
<1>1. prospect \in [Records -> Prospect]
  BY DEF OutreachInit, Imported, Prospect, Basis
<1>2. draft \in [Drafts -> Draft]
  BY DEF OutreachInit, Draft, Basis
<1>3. raced \in BOOLEAN
  BY DEF OutreachInit
<1>4. Idle = [op |-> Idle.op, rows |-> Idle.rows, drafts |-> Idle.drafts] /\ Idle.op \in Ops
  BY DEF Idle, Ops
<1>5. ASSUME NEW s \in Sessions PROVE SessionOK(s)
  BY <1>4, IdleRows DEF SessionOK, OutreachInit, At, Loaded, Seen
<1>6. \A o \in Drafts : DraftOK(o)
  BY DEF DraftOK, OutreachInit
<1>7. session = [s \in Sessions |-> session[s]]
  BY DEF OutreachInit
<1> QED BY <1>1, <1>2, <1>3, <1>5, <1>6, <1>7 DEF Types, OutreachTypeOK, SessionOK, Loaded, OutreachInit

LEMMA StepTypes == Types /\ [OutreachNext]_vars => Types'
<1> SUFFICES ASSUME Types, [OutreachNext]_vars PROVE Types'
  OBVIOUS
<1>b. raced \in BOOLEAN
  BY DEF Types, OutreachTypeOK
<1>1. CASE UNCHANGED vars
  <2>1. UNCHANGED <<pool, prospect, draft, session, mails, recent, earned, lost>> /\ raced' \in BOOLEAN
    BY <1>1, <1>b DEF vars
  <2> QED BY <2>1, Kept, SameSessions, TypesParts DEF Types, OutreachTypeOK
<1>2. CASE WindowPasses
  <2>1. UNCHANGED <<pool, prospect, draft, session, earned, lost>> /\ raced' \in BOOLEAN
        /\ recent' \subseteq Drafts /\ mails' \in [Drafts -> Nat]
    BY <1>2, <1>b DEF WindowPasses, rows
  <2> QED BY <2>1, Kept, SameSessions, TypesParts DEF Types, OutreachTypeOK
<1>3. ASSUME NEW s \in Sessions, Qualifying(s) \/ Contacting(s) \/ GiveUp(s) \/ Die(s) PROVE Types'
  BY <1>3, LoadingTypes, CandidateTypes, DraftTypes DEF Qualifying, Contacting
<1> QED BY <1>1, <1>2, <1>3 DEF OutreachNext

\* Rows keep their shapes, a request only has rows of the pool in hand, and it
\* never has in hand a draft that is not written yet: what the handlers of
\* app/services/prospecting.py may assume of what they loaded.
THEOREM OutreachTypes == OutreachSpec => []OutreachTypeOK
<1>1. OutreachSpec => []Types
  BY InitTypes, StepTypes, PTL DEF OutreachSpec
<1>2. Types => OutreachTypeOK
  BY DEF Types
<1> QED BY <1>1, <1>2, PTL

-----------------------------------------------------------------------------
(* The opt-out sticks *)

\* A request that goes on to "new" cannot have a stopped draft in hand, unless
\* to suppress it once more.
LEMMA StaysStopped ==
    ASSUME Types, NEW o \in Drafts, Stopped(o), NEW s \in Sessions, NEW new,
           session' = [session EXCEPT ![s] = new],
           o \in new.drafts => new.op = "opting_out",
           draft'[o].status = "suppressed"
    PROVE  Stopped(o)'
<1>1. session'[s] = new /\ \A x \in Sessions : x # s => session'[x] = session[x]
  BY DEF Types
<1> QED BY <1>1 DEF Stopped, At

LEMMA StoppedStep ==
    ASSUME Types, [OutreachNext]_vars, NEW o \in Drafts, Stopped(o)
    PROVE  Stopped(o)' /\ mails'[o] <= mails[o]
<1>t. mails \in [Drafts -> Nat] /\ draft \in [Drafts -> Draft]
  BY DEF Types, OutreachTypeOK
<1>w. mails[o] \in Nat /\ draft[o].status = "suppressed" /\ mails[o] <= mails[o]
  BY <1>t DEF Stopped
<1>e. ASSUME NEW s \in Sessions, End(s), draft'[o].status = "suppressed" PROVE Stopped(o)'
  <2>1. o \notin Idle.drafts
    BY IdleRows
  <2> QED BY <1>e, <2>1, StaysStopped DEF End
<1>l. ASSUME NEW s \in Sessions, NEW op, NEW ps, NEW columns, NEW os,
             Load(s, op, ps, columns, os), o \notin os, UNCHANGED <<rows, mails>>
      PROVE  Stopped(o)' /\ mails'[o] <= mails[o]
  <2> DEFINE new == [op |-> op, rows |-> [p \in ps |-> Restrict(prospect[p], columns)], drafts |-> os]
  <2>1. session' = [session EXCEPT ![s] = new] /\ new.drafts = os
    BY <1>l DEF Load
  <2>2. UNCHANGED <<draft, mails>>
    BY <1>l DEF rows
  <2> HIDE DEF new
  <2> QED BY <1>l, <1>w, <2>1, <2>2, StaysStopped
<1>1. CASE UNCHANGED vars
  BY <1>1, <1>w DEF vars, Stopped, At
<1>2. CASE WindowPasses
  BY <1>2, <1>t, <1>w DEF WindowPasses, rows, Stopped, At
<1>3. ASSUME NEW s \in Sessions, Qualifying(s) PROVE Stopped(o)' /\ mails'[o] <= mails[o]
  <2>1. CASE Import(s)
    BY <2>1, <1>l DEF Import
  <2>2. ASSUME NEW v \in Vendors, NEW hs \in SUBSET Shippers, CommitImport(s, v, hs)
        PROVE  Stopped(o)' /\ mails'[o] <= mails[o]
    BY <2>2, <1>w, <1>e DEF CommitImport
  <2>3. ASSUME NEW ps \in SUBSET Records, Score(s, ps) PROVE Stopped(o)' /\ mails'[o] <= mails[o]
    BY <2>3, <1>l DEF Score
  <2>4. ASSUME NEW p \in Records, NEW score \in {"below", "high"}, SearchAgain(s, p, score)
        PROVE  Stopped(o)' /\ mails'[o] <= mails[o]
    BY <2>4, <1>w DEF SearchAgain, Stopped, At
  <2>5. ASSUME NEW p \in Records, NEW score \in {"below", "high"}, CommitScore(s, p, score)
        PROVE  Stopped(o)' /\ mails'[o] <= mails[o]
    <3>1. UNCHANGED <<draft, mails>>
      BY <2>5 DEF CommitScore
    <3>2. CASE End(s)
      BY <3>1, <3>2, <1>w, <1>e
    <3>3. CASE session' = [session EXCEPT ![s].rows = Restrict(@, Loaded(s) \ {p})]
      <4> DEFINE new == [session[s] EXCEPT !.rows = Restrict(session[s].rows, Loaded(s) \ {p})]
      <4>1. SessionOK(s) /\ At(s, "scoring")
        BY <2>5 DEF Types, CommitScore
      <4>2. new.drafts = session[s].drafts
        BY <4>1 DEF SessionOK
      <4>3. session' = [session EXCEPT ![s] = new]
        BY <3>3
      <4>4. o \notin session[s].drafts
        BY <4>1 DEF Stopped, At
      <4> HIDE DEF new
      <4> QED BY <3>1, <1>w, <4>2, <4>3, <4>4, StaysStopped
    <3> QED BY <2>5, <3>2, <3>3 DEF CommitScore
  <2>6. ASSUME NEW p \in Records, Enrich(s, p) \/ Promote(s, p) PROVE Stopped(o)' /\ mails'[o] <= mails[o]
    <3>1. CASE Enrich(s, p)
      BY <3>1, <1>l DEF Enrich
    <3>2. CASE Promote(s, p)
      BY <3>2, <1>l DEF Promote
    <3> QED BY <2>6, <3>1, <3>2
  <2>7. ASSUME NEW p \in Records, CommitEnrich(s, p) PROVE Stopped(o)' /\ mails'[o] <= mails[o]
    BY <2>7, <1>w, <1>e DEF CommitEnrich
  <2>8. ASSUME NEW p \in Records, NEW basis \in Basis, CommitPromote(s, p, basis)
        PROVE  Stopped(o)' /\ mails'[o] <= mails[o]
    BY <2>8, <1>w, <1>e DEF CommitPromote
  <2> QED BY <1>3, <2>1, <2>2, <2>3, <2>4, <2>5, <2>6, <2>7, <2>8 DEF Qualifying
<1>4. ASSUME NEW s \in Sessions, Contacting(s) PROVE Stopped(o)' /\ mails'[o] <= mails[o]
  <2>1. ASSUME NEW p \in Records, StartDraft(s, p) PROVE Stopped(o)' /\ mails'[o] <= mails[o]
    BY <2>1, <1>l DEF StartDraft
  <2>2. ASSUME NEW p \in Records, NEW a \in Drafts, CommitDraft(s, p, a)
        PROVE  Stopped(o)' /\ mails'[o] <= mails[o]
    <3>1. a # o
      BY <2>2, <1>w DEF CommitDraft, NextDraft
    <3> QED BY <2>2, <3>1, <1>w, <1>t, <1>e DEF CommitDraft
  <2>3. ASSUME NEW a \in Drafts, Review(s, a) PROVE Stopped(o)' /\ mails'[o] <= mails[o]
    BY <2>3, <1>w, <1>l DEF Review
  <2>4. ASSUME NEW a \in Drafts, Send(s, a) PROVE Stopped(o)' /\ mails'[o] <= mails[o]
    BY <2>4, <1>w, <1>l DEF Send, MayContact
  <2>5. ASSUME NEW a \in Drafts, MailProspect(s, a) PROVE Stopped(o)' /\ mails'[o] <= mails[o]
    <3> DEFINE new == [session[s] EXCEPT !.op = "mailed"]
    <3>1. SessionOK(s) /\ At(s, "sending")
      BY <2>5 DEF Types, MailProspect
    <3>2. o \notin session[s].drafts /\ a # o
      BY <2>5, <3>1 DEF Stopped, At, MailProspect
    <3>3. session' = [session EXCEPT ![s] = new] /\ draft' = draft
      BY <2>5 DEF MailProspect, rows
    <3>4. new.drafts = session[s].drafts
      BY <3>1 DEF SessionOK
    <3>5. mails'[o] = mails[o]
      BY <2>5, <3>2, <1>t DEF MailProspect
    <3> HIDE DEF new
    <3> QED BY <1>w, <3>2, <3>3, <3>4, <3>5, StaysStopped
  <2>6. ASSUME NEW a \in Drafts, CommitSend(s, a) PROVE Stopped(o)' /\ mails'[o] <= mails[o]
    <3>1. a # o
      BY <2>6 DEF Stopped, At, CommitSend
    <3> QED BY <2>6, <3>1, <1>w, <1>t, <1>e DEF CommitSend
  <2>7. ASSUME NEW a \in Drafts, NEW action \in {"approve", "reject"}, CommitReview(s, a, action)
        PROVE  Stopped(o)' /\ mails'[o] <= mails[o]
    <3>1. a # o
      BY <2>7 DEF Stopped, At, CommitReview
    <3> QED BY <2>7, <3>1, <1>w, <1>t, <1>e DEF CommitReview
  <2>8. CASE OptOut(s)
    <3> DEFINE os == {a \in Drafts : draft[a].status \in {"draft", "approved"}}
    <3>1. o \notin os
      BY <1>w
    <3>2. Load(s, "opting_out", pool, {"consent"}, os) /\ UNCHANGED <<rows, mails>>
      BY <2>8 DEF OptOut
    <3> HIDE DEF os
    <3> QED BY <3>1, <3>2, <1>l
  <2>9. CASE CommitOptOut(s)
    <3>1. draft'[o].status = "suppressed"
      BY <2>9, <1>w, <1>t DEF CommitOptOut, Draft
    <3> QED BY <2>9, <3>1, <1>w, <1>e DEF CommitOptOut
  <2> QED BY <1>4, <2>1, <2>2, <2>3, <2>4, <2>5, <2>6, <2>7, <2>8, <2>9 DEF Contacting
<1>5. ASSUME NEW s \in Sessions, GiveUp(s) \/ Die(s) PROVE Stopped(o)' /\ mails'[o] <= mails[o]
  BY <1>5, <1>w, <1>e DEF GiveUp, Die, rows
<1> QED BY <1>1, <1>2, <1>3, <1>4, <1>5 DEF OutreachNext

\* A draft an opt-out has suppressed, and nobody has in hand, is never reviewed
\* or mailed again: review_outreach and send_outreach take drafts by a status
\* mark_opt_out has taken away, and nothing else writes one that exists.
THEOREM OptOutHolds == OutreachSpec => OptOutSticks
<1>1. OutreachSpec => []Types
  BY InitTypes, StepTypes, PTL DEF OutreachSpec
<1>2. Types /\ [OutreachNext]_vars =>
        [\A o \in Drafts : Stopped(o) => Stopped(o)' /\ mails'[o] <= mails[o]]_vars
  BY StoppedStep
<1> QED BY <1>1, <1>2, PTL DEF OutreachSpec, OptOutSticks

-----------------------------------------------------------------------------
(* The same shipper from two vendors *)

\* While no two imports have overlapped, the one in flight has the whole pool
\* in hand: nothing else inserts candidates.
OneImporter ==
    /\ \A s, t \in Sessions : At(s, "importing") /\ At(t, "importing") => s = t
    /\ \A s \in Sessions : At(s, "importing") => Loaded(s) = pool

ImportInv == ~raced => OneImporter /\ \A p, q \in pool : p[1] = q[1] => p = q

\* A request that goes on, or begins, with something else than an import.
LEMMA NoNewImporter ==
    ASSUME Types, ImportInv, UNCHANGED <<pool, raced>>,
           \A s \in Sessions : session'[s] = session[s] \/ session'[s].op # "importing"
    PROVE  ImportInv'
<1>1. \A s \in Sessions : At(s, "importing")' => At(s, "importing") /\ session'[s] = session[s]
  BY DEF At
<1> QED BY <1>1 DEF ImportInv, OneImporter, Loaded

LEMMA EndImport ==
    ASSUME Types, NEW s \in Sessions, End(s)
    PROVE  \A x \in Sessions : session'[x] = session[x] \/ session'[x].op # "importing"
<1>1. Idle.op # "importing"
  BY IdleRows
<1> QED BY <1>1 DEF End, Types

LEMMA LoadImport ==
    ASSUME Types, NEW s \in Sessions, NEW op, op # "importing", NEW ps, NEW columns, NEW os,
           Load(s, op, ps, columns, os)
    PROVE  \A x \in Sessions : session'[x] = session[x] \/ session'[x].op # "importing"
  BY DEF Load, Types

LEMMA ImportStep ==
    ASSUME Types, ImportInv, [OutreachNext]_vars
    PROVE  ImportInv'
<1>1. CASE UNCHANGED vars
  BY <1>1 DEF vars, ImportInv, OneImporter, At, Loaded
<1>2. CASE WindowPasses
  BY <1>2 DEF WindowPasses, rows, ImportInv, OneImporter, At, Loaded
<1>3. ASSUME NEW s \in Sessions, Qualifying(s) PROVE ImportInv'
  <2>1. CASE Import(s)
    <3> SUFFICES ASSUME ~raced' PROVE (OneImporter /\ \A p, q \in pool : p[1] = q[1] => p = q)'
      BY DEF ImportInv
    <3>1. ~raced /\ \A t \in Sessions : ~At(t, "importing")
      BY <2>1, Zenon DEF Import
    <3>2. UNCHANGED pool /\ \A x \in Sessions : x # s => session'[x] = session[x]
      BY <2>1 DEF Import, Load, rows, Types
    <3>3. DOMAIN session'[s].rows = pool
      <4> DEFINE new == [op |-> "importing", rows |-> [p \in pool |-> Restrict(prospect[p], {})], drafts |-> {}]
      <4>1. session' = [session EXCEPT ![s] = new]
        BY <2>1 DEF Import, Load
      <4>2. DOMAIN new.rows = pool
        OBVIOUS
      <4> HIDE DEF new
      <4> QED BY <4>1, <4>2 DEF Types
    <3> QED BY <3>1, <3>2, <3>3 DEF ImportInv, OneImporter, At, Loaded
  <2>2. ASSUME NEW v \in Vendors, NEW hs \in SUBSET Shippers, CommitImport(s, v, hs) PROVE ImportInv'
    <3> SUFFICES ASSUME ~raced' PROVE (OneImporter /\ \A p, q \in pool : p[1] = q[1] => p = q)'
      BY DEF ImportInv
    <3>1. ~raced
      BY <2>2, Zenon DEF CommitImport
    <3> DEFINE accepted == {p \in hs \X {v} : IsNew(s, p)}
    <3>2. OneImporter /\ (\A p, q \in pool : p[1] = q[1] => p = q) /\ Loaded(s) = pool
      BY <2>2, <3>1 DEF ImportInv, OneImporter, CommitImport
    <3>3. \A x \in Sessions : ~At(x, "importing")'
      BY <2>2, <3>2, IdleRows DEF CommitImport, OneImporter, At, End, Types
    <3>4. \A p, q \in accepted : p[1] = q[1] => p = q
      OBVIOUS
    <3>5. \A p \in accepted, q \in pool : p[1] # q[1]
      BY <3>2 DEF IsNew
    <3>6. pool' = pool \/ pool' = pool \cup accepted
      BY <2>2 DEF CommitImport
    <3> HIDE DEF accepted
    <3>7. \A p, q \in pool' : p[1] = q[1] => p = q
      BY <3>2, <3>4, <3>5, <3>6
    <3> QED BY <3>3, <3>7 DEF OneImporter
  <2>3. ASSUME NEW ps \in SUBSET Records, Score(s, ps) PROVE ImportInv'
    BY <2>3, NoNewImporter, LoadImport DEF Score, rows
  <2>4. ASSUME NEW p \in Records, NEW score \in {"below", "high"}, SearchAgain(s, p, score) PROVE ImportInv'
    BY <2>4, NoNewImporter DEF SearchAgain
  <2>5. ASSUME NEW p \in Records, NEW score \in {"below", "high"}, CommitScore(s, p, score) PROVE ImportInv'
    <3>1. CASE End(s)
      BY <2>5, <3>1, NoNewImporter, EndImport DEF CommitScore
    <3>2. CASE session' = [session EXCEPT ![s].rows = Restrict(@, Loaded(s) \ {p})]
      <4> DEFINE new == [session[s] EXCEPT !.rows = Restrict(session[s].rows, Loaded(s) \ {p})]
      <4>1. SessionOK(s) /\ At(s, "scoring")
        BY <2>5 DEF Types, CommitScore
      <4>2. new.op = "scoring"
        BY <4>1 DEF SessionOK, At
      <4>3. session' = [session EXCEPT ![s] = new]
        BY <3>2
      <4> HIDE DEF new
      <4>4. \A x \in Sessions : session'[x] = session[x] \/ session'[x].op # "importing"
        BY <4>2, <4>3 DEF Types
      <4> QED BY <2>5, <4>4, NoNewImporter DEF CommitScore
    <3> QED BY <2>5, <3>1, <3>2 DEF CommitScore
  <2>6. ASSUME NEW p \in Records, Enrich(s, p) PROVE ImportInv'
    BY <2>6, NoNewImporter, LoadImport DEF Enrich, rows
  <2>7. ASSUME NEW p \in Records, Promote(s, p) PROVE ImportInv'
    BY <2>7, NoNewImporter, LoadImport DEF Promote, rows
  <2>8. ASSUME NEW p \in Records, CommitEnrich(s, p) PROVE ImportInv'
    BY <2>8, NoNewImporter, EndImport DEF CommitEnrich
  <2>9. ASSUME NEW p \in Records, NEW basis \in Basis, CommitPromote(s, p, basis) PROVE ImportInv'
    BY <2>9, NoNewImporter, EndImport DEF CommitPromote
  <2> QED BY <1>3, <2>1, <2>2, <2>3, <2>4, <2>5, <2>6, <2>7, <2>8, <2>9 DEF Qualifying
<1>4. ASSUME NEW s \in Sessions, Contacting(s) PROVE ImportInv'
  <2>1. ASSUME NEW p \in Records, StartDraft(s, p) PROVE ImportInv'
    BY <2>1, NoNewImporter, LoadImport DEF StartDraft, rows
  <2>2. ASSUME NEW p \in Records, NEW o \in Drafts, CommitDraft(s, p, o) PROVE ImportInv'
    BY <2>2, NoNewImporter, EndImport DEF CommitDraft
  <2>3. ASSUME NEW o \in Drafts, Review(s, o) PROVE ImportInv'
    BY <2>3, NoNewImporter, LoadImport DEF Review, rows
  <2>4. ASSUME NEW o \in Drafts, Send(s, o) PROVE ImportInv'
    BY <2>4, NoNewImporter, LoadImport DEF Send, rows
  <2>5. ASSUME NEW o \in Drafts, MailProspect(s, o) PROVE ImportInv'
    <3> DEFINE new == [session[s] EXCEPT !.op = "mailed"]
    <3>1. new.op = "mailed"
      BY DEF Types, SessionOK
    <3>2. session' = [session EXCEPT ![s] = new]
      BY <2>5 DEF MailProspect
    <3> HIDE DEF new
    <3>3. \A x \in Sessions : session'[x] = session[x] \/ session'[x].op # "importing"
      BY <3>1, <3>2 DEF Types
    <3> QED BY <2>5, <3>3, NoNewImporter DEF MailProspect, rows
  <2>6. ASSUME NEW o \in Drafts, CommitSend(s, o) PROVE ImportInv'
    BY <2>6, NoNewImporter, EndImport DEF CommitSend
  <2>7. ASSUME NEW o \in Drafts, NEW action \in {"approve", "reject"}, CommitReview(s, o, action) PROVE ImportInv'
    BY <2>7, NoNewImporter, EndImport DEF CommitReview
  <2>8. CASE OptOut(s)
    BY <2>8, NoNewImporter, LoadImport DEF OptOut, rows
  <2>9. CASE CommitOptOut(s)
    BY <2>9, NoNewImporter, EndImport DEF CommitOptOut
  <2> QED BY <1>4, <2>1, <2>2, <2>3, <2>4, <2>5, <2>6, <2>7, <2>8, <2>9 DEF Contacting
<1>5. ASSUME NEW s \in Sessions, GiveUp(s) PROVE ImportInv'
  BY <1>5, NoNewImporter, EndImport DEF GiveUp, rows
<1>6. ASSUME NEW s \in Sessions, Die(s) PROVE ImportInv'
  BY <1>6, NoNewImporter, EndImport DEF Die, rows
<1> QED BY <1>1, <1>2, <1>3, <1>4, <1>5, <1>6 DEF OutreachNext

\* As long as no two imports overlapped, the name look-up of import_prospects
\* alone keeps a shipper bought from two vendors one candidate: the unique
\* constraint is on the vendor's reference and does not see it.
THEOREM OneCandidatePerShipper == OutreachSpec => []SameShipperOnce
<1>1. OutreachInit => ImportInv
  BY IdleRows DEF OutreachInit, ImportInv, OneImporter, At
<1>2. Types /\ ImportInv /\ [OutreachNext]_vars => ImportInv'
  BY ImportStep
<1>3. ImportInv => SameShipperOnce
  BY Zenon DEF ImportInv, SameShipperOnce
<1> QED BY <1>1, <1>2, <1>3, InitTypes, StepTypes, PTL DEF OutreachSpec

-----------------------------------------------------------------------------
(* Every e-mail earned *)

\* Whatever the gates read was granted once.
CandidateEarned(p) ==
    /\ prospect[p].score = "high" => p \in earned.scored
    /\ prospect[p].basis = "lawful" => p \in earned.cleared

\* The basis a draft copied was a grant, and stays one when the row changes.
DraftEarned(o) == draft[o].basis = "lawful" => draft[o].of \in earned.cleared

\* A draft that passed the gates, of a candidate that had both grants.
Earned(o) == draft[o].status # "absent" /\ draft[o].of \in earned.scored \cap earned.cleared

SessionEarned(s) ==
    /\ At(s, "drafting") => \A p \in Loaded(s) : Seen(s, p).basis = "lawful" => p \in earned.cleared
    /\ At(s, "sending") \/ At(s, "mailed") => \A o \in session[s].drafts : Earned(o)

EarnedInv ==
    /\ \A p \in Records : CandidateEarned(p)
    /\ \A o \in Drafts : DraftEarned(o) /\ (mails[o] > 0 => Earned(o))
    /\ \A s \in Sessions : SessionEarned(s)

\* Grants are never taken back, and a draft that is written stays about the
\* candidate it is about.
Onwards ==
    /\ earned.scored \subseteq earned'.scored /\ earned.cleared \subseteq earned'.cleared
    /\ \A o \in Drafts : draft[o].status # "absent" =>
          /\ draft'[o].status # "absent"
          /\ draft'[o].of = draft[o].of /\ draft'[o].basis = draft[o].basis

LEMMA EarnedParts ==
    ASSUME Types, EarnedInv, Onwards,
           \A p \in Records : prospect'[p] = prospect[p] \/ CandidateEarned(p)',
           \A o \in Drafts : draft'[o] = draft[o] \/ draft[o].status # "absent" \/ DraftEarned(o)',
           \A o \in Drafts : mails'[o] = mails[o] \/ (mails'[o] > 0 => Earned(o)'),
           \A s \in Sessions : session'[s] = session[s] \/ SessionEarned(s)'
    PROVE  EarnedInv'
<1>1. ASSUME NEW p \in Records PROVE CandidateEarned(p)'
  BY DEF EarnedInv, CandidateEarned, Onwards
<1>2. ASSUME NEW o \in Drafts, Earned(o) PROVE Earned(o)'
  BY <1>2 DEF Earned, Onwards
<1>3. ASSUME NEW o \in Drafts PROVE DraftEarned(o)' /\ (mails'[o] > 0 => Earned(o)')
  <2>1. DraftEarned(o) /\ (mails[o] > 0 => Earned(o))
    BY DEF EarnedInv
  <2>2. DraftEarned(o)'
    BY <2>1 DEF DraftEarned, Onwards
  <2> QED BY <2>1, <2>2, <1>2
<1>4. ASSUME NEW s \in Sessions PROVE SessionEarned(s)'
  <2>1. SessionOK(s) /\ SessionEarned(s)
    BY DEF EarnedInv, Types
  <2>2. CASE session'[s] = session[s]
    <3>1. At(s, "drafting")' => \A p \in Loaded(s)' : Seen(s, p)'.basis = "lawful" => p \in earned'.cleared
      BY <2>1, <2>2 DEF SessionEarned, At, Loaded, Seen, Onwards
    <3>2. (At(s, "sending") \/ At(s, "mailed"))' => \A o \in session'[s].drafts : Earned(o)'
      BY <2>1, <2>2, <1>2 DEF SessionEarned, SessionOK, At
    <3> QED BY <3>1, <3>2 DEF SessionEarned
  <2> QED BY <2>2
<1> QED BY <1>1, <1>3, <1>4 DEF EarnedInv

LEMMA EndEarned ==
    ASSUME Types, NEW s \in Sessions, End(s)
    PROVE  \A x \in Sessions : session'[x] = session[x] \/ SessionEarned(x)'
<1>1. \A x \in Sessions : session'[x] = session[x] \/ session'[x] = Idle
  BY DEF End, Types
<1> QED BY <1>1, IdleRows DEF SessionEarned, At, Loaded

\* What a handler loads was granted, whichever it is.
LEMMA LoadEarned ==
    ASSUME Types, EarnedInv, NEW s \in Sessions, NEW op \in Ops, NEW ps \in SUBSET pool, NEW columns,
           NEW os \in SUBSET Drafts, Load(s, op, ps, columns, os),
           op = "drafting" => columns = {"basis"}, op # "mailed",
           op = "sending" => \A o \in os : Earned(o),
           UNCHANGED <<rows, mails, earned>>
    PROVE  EarnedInv'
<1> DEFINE new == [op |-> op, rows |-> [p \in ps |-> Restrict(prospect[p], columns)], drafts |-> os]
<1>1. session' = [session EXCEPT ![s] = new] /\ UNCHANGED <<pool, prospect, draft, mails, earned>>
  BY DEF Load, rows
<1>2. new.op = op /\ new.drafts = os /\ DOMAIN new.rows = ps
  OBVIOUS
<1>3. ASSUME op = "drafting", NEW p \in ps, new.rows[p].basis = "lawful" PROVE p \in earned.cleared
  <2>1. prospect[p] \in Prospect /\ CandidateEarned(p)
    BY DEF Types, OutreachTypeOK, EarnedInv
  <2>2. new.rows[p].basis = prospect[p].basis
    BY <1>3, <2>1 DEF Restrict, Prospect
  <2> QED BY <1>3, <2>1, <2>2 DEF CandidateEarned
<1> HIDE DEF new
<1>4. session'[s] = new /\ \A x \in Sessions : x # s => session'[x] = session[x]
  BY <1>1 DEF Types
<1>5. SessionEarned(s)'
  BY <1>1, <1>2, <1>3, <1>4 DEF SessionEarned, At, Loaded, Seen, Earned
<1>6. Onwards
  BY <1>1 DEF Onwards
<1> QED BY <1>1, <1>4, <1>5, <1>6, EarnedParts

\* A commit of candidates: whatever it writes of what the gates read, it grants.
LEMMA SaveEarned ==
    ASSUME Types, EarnedInv, NEW p \in Records, NEW seen, NEW new, Save(p, seen, new),
           "score" \in DOMAIN new => new["score"] \in {"below", "high"},
           "consent" \in DOMAIN new => new["consent"] \in {"given", "opt_out"},
           "basis" \in DOMAIN new /\ new["basis"] # seen["basis"] => new["basis"] \in Basis,
           "score" \in DOMAIN new /\ new["score"] = "high" => p \in earned'.scored,
           "basis" \in DOMAIN new /\ new["basis"] # seen["basis"] /\ new["basis"] = "lawful"
                => p \in earned'.cleared,
           earned.scored \subseteq earned'.scored, earned.cleared \subseteq earned'.cleared
    PROVE  \A q \in Records : prospect'[q] = prospect[q] \/ CandidateEarned(q)'
<1>1. prospect \in [Records -> Prospect] /\ prospect[p] \in Prospect /\ CandidateEarned(p)
  BY DEF Types, OutreachTypeOK, EarnedInv
<1>2. /\ Merged(p, seen, new).score =
           IF "score" \in DOMAIN new /\ new["score"] # seen["score"] THEN new["score"] ELSE prospect[p].score
      /\ Merged(p, seen, new).basis =
           IF "basis" \in DOMAIN new /\ new["basis"] # seen["basis"] THEN new["basis"] ELSE prospect[p].basis
  BY <1>1, MergedType
<1>3. prospect'[p] = Merged(p, seen, new) /\ \A q \in Records : q # p => prospect'[q] = prospect[q]
  BY <1>1 DEF Save
<1>4. CandidateEarned(p)'
  BY <1>1, <1>2, <1>3 DEF CandidateEarned
<1> QED BY <1>3, <1>4

LEMMA GrantedIn ==
    ASSUME Types, NEW p \in Records, NEW what \in {"scored", "cleared"}, Granted(p, what)
    PROVE  p \in earned'[what]
  BY DEF Granted, Types, OutreachTypeOK

\* The gates let through what was granted.
LEMMA MayContactEarned ==
    ASSUME Types, EarnedInv, NEW o \in Drafts, MayContact(o)
    PROVE  Earned(o)
<1>1. draft[o].status = "approved" /\ DraftOK(o) /\ DraftEarned(o) /\ pool \subseteq Records
  BY DEF MayContact, Types, OutreachTypeOK, EarnedInv
<1>2. draft[o].of \in Records
  BY <1>1 DEF DraftOK
<1>3. CandidateEarned(draft[o].of)
  BY <1>2 DEF EarnedInv
<1> QED BY <1>1, <1>3 DEF Earned, MayContact, BasisOf, CandidateEarned, DraftEarned

LEMMA EarnedLoading ==
    ASSUME Types, EarnedInv, NEW s \in Sessions,
           \/ Import(s)
           \/ \E ps \in SUBSET Records : Score(s, ps)
           \/ \E p \in Records : Enrich(s, p) \/ Promote(s, p) \/ StartDraft(s, p)
           \/ \E o \in Drafts : Review(s, o) \/ Send(s, o)
           \/ OptOut(s)
    PROVE  EarnedInv'
<1>o. {"importing", "scoring", "enriching", "promoting", "drafting", "reviewing", "sending", "opting_out"}
        \subseteq Ops
  BY DEF Ops
<1>1. CASE Import(s)
  BY <1>1, <1>o, LoadEarned DEF Import
<1>2. ASSUME NEW ps \in SUBSET Records, Score(s, ps) PROVE EarnedInv'
  BY <1>2, <1>o, LoadEarned DEF Score
<1>3. ASSUME NEW p \in Records, Enrich(s, p) \/ Promote(s, p) \/ StartDraft(s, p) PROVE EarnedInv'
  <2> DEFINE ps == {p}
  <2>1. ps \in SUBSET pool
    BY <1>3 DEF Enrich, Promote, StartDraft
  <2>2. \/ Load(s, "enriching", ps, {"basis"}, {})
        \/ Load(s, "promoting", ps, {"consent", "basis"}, {})
        \/ Load(s, "drafting", ps, {"basis"}, {})
    BY <1>3 DEF Enrich, Promote, StartDraft
  <2>3. UNCHANGED <<rows, mails, earned>>
    BY <1>3 DEF Enrich, Promote, StartDraft
  <2> HIDE DEF ps
  <2> QED BY <1>o, <2>1, <2>2, <2>3, LoadEarned
<1>4. ASSUME NEW o \in Drafts, Review(s, o) \/ Send(s, o) PROVE EarnedInv'
  <2> DEFINE os == {o}
  <2>1. os \in SUBSET Drafts
    OBVIOUS
  <2>2. \/ Load(s, "reviewing", {}, {}, os)
        \/ Load(s, "sending", {}, {}, os) /\ \A a \in os : Earned(a)
    BY <1>4, MayContactEarned DEF Review, Send
  <2>3. UNCHANGED <<rows, mails, earned>>
    BY <1>4 DEF Review, Send
  <2> HIDE DEF os
  <2> QED BY <1>o, <2>1, <2>2, <2>3, LoadEarned
<1>5. CASE OptOut(s)
  BY <1>5, <1>o, LoadEarned DEF OptOut
<1> QED BY <1>1, <1>2, <1>3, <1>4, <1>5

LEMMA EarnedCandidates ==
    ASSUME Types, EarnedInv, NEW s \in Sessions,
           \/ \E v \in Vendors, hs \in (SUBSET Shippers) \ {{}} : CommitImport(s, v, hs)
           \/ \E p \in Records, score \in {"below", "high"} :
                  SearchAgain(s, p, score) \/ CommitScore(s, p, score)
           \/ \E p \in Records : CommitEnrich(s, p)
           \/ \E p \in Records, basis \in Basis : CommitPromote(s, p, basis)
    PROVE  EarnedInv'
<1>d. ASSUME UNCHANGED draft, earned.scored \subseteq earned'.scored, earned.cleared \subseteq earned'.cleared
      PROVE  Onwards
  BY <1>d DEF Onwards
<1>1. ASSUME NEW v \in Vendors, NEW hs \in SUBSET Shippers, CommitImport(s, v, hs) PROVE EarnedInv'
  <2>1. UNCHANGED <<prospect, draft, mails, earned>> /\ End(s)
    BY <1>1 DEF CommitImport
  <2> QED BY <1>d, <2>1, EndEarned, EarnedParts
<1>2. ASSUME NEW p \in Records, NEW score \in {"below", "high"}, SearchAgain(s, p, score) PROVE EarnedInv'
  <2>1. UNCHANGED <<draft, mails, session>>
    BY <1>2 DEF SearchAgain
  <2>2. earned.scored \subseteq earned'.scored /\ earned.cleared \subseteq earned'.cleared
    BY <1>2, GrantedType DEF SearchAgain
  <2>3. score = "high" => p \in earned'.scored
    BY <1>2, GrantedIn DEF SearchAgain
  <2>4. prospect'[p].score = score /\ prospect'[p].basis = prospect[p].basis
        /\ \A q \in Records : q # p => prospect'[q] = prospect[q]
    BY <1>2 DEF SearchAgain, Types, OutreachTypeOK, Prospect
  <2>5. CandidateEarned(p)'
    BY <2>2, <2>3, <2>4 DEF EarnedInv, CandidateEarned
  <2> QED BY <1>d, <2>1, <2>2, <2>4, <2>5, EarnedParts
<1>3. ASSUME NEW p \in Records, NEW score \in {"below", "high"}, CommitScore(s, p, score) PROVE EarnedInv'
  <2> DEFINE change == [score |-> score]
  <2>1. UNCHANGED <<draft, mails>>
    BY <1>3 DEF CommitScore
  <2>2. earned.scored \subseteq earned'.scored /\ earned.cleared \subseteq earned'.cleared
    BY <1>3, GrantedType DEF CommitScore
  <2>3. score = "high" => p \in earned'.scored
    BY <1>3, GrantedIn DEF CommitScore
  <2>4. DOMAIN change = {"score"} /\ change["score"] = score
    OBVIOUS
  <2>5. Save(p, Seen(s, p), change)
    BY <1>3 DEF CommitScore
  <2> HIDE DEF change
  <2>6. \A q \in Records : prospect'[q] = prospect[q] \/ CandidateEarned(q)'
    BY <2>2, <2>3, <2>4, <2>5, SaveEarned
  <2>7. \A x \in Sessions : session'[x] = session[x] \/ SessionEarned(x)'
    <3>1. CASE End(s)
      BY <3>1, EndEarned
    <3>2. CASE session' = [session EXCEPT ![s].rows = Restrict(@, Loaded(s) \ {p})]
      <4> DEFINE new == [session[s] EXCEPT !.rows = Restrict(session[s].rows, Loaded(s) \ {p})]
      <4>1. SessionOK(s) /\ At(s, "scoring")
        BY <1>3 DEF Types, CommitScore
      <4>2. new.op = "scoring"
        BY <4>1 DEF SessionOK, At
      <4>3. session' = [session EXCEPT ![s] = new]
        BY <3>2
      <4> HIDE DEF new
      <4>4. \A x \in Sessions : session'[x] = session[x] \/ session'[x].op = "scoring"
        BY <4>2, <4>3 DEF Types
      <4> QED BY <4>4 DEF SessionEarned, At
    <3> QED BY <1>3, <3>1, <3>2 DEF CommitScore
  <2> QED BY <1>d, <2>1, <2>2, <2>6, <2>7, EarnedParts
<1>4. ASSUME NEW p \in Records, CommitEnrich(s, p) PROVE EarnedInv'
  <2> DEFINE change == [basis |-> IF Seen(s, p).basis = "none" THEN "pending" ELSE Seen(s, p).basis]
  <2>1. UNCHANGED <<draft, mails, earned>> /\ End(s)
    BY <1>4 DEF CommitEnrich
  <2>2. DOMAIN change = {"basis"} /\ (change["basis"] # Seen(s, p)["basis"] => change["basis"] = "pending")
    OBVIOUS
  <2>3. Save(p, Seen(s, p), change)
    BY <1>4 DEF CommitEnrich
  <2> HIDE DEF change
  <2>4. \A q \in Records : prospect'[q] = prospect[q] \/ CandidateEarned(q)'
    BY <2>1, <2>2, <2>3, SaveEarned DEF Basis
  <2> QED BY <1>d, <2>1, <2>4, EndEarned, EarnedParts
<1>5. ASSUME NEW p \in Records, NEW basis \in Basis, CommitPromote(s, p, basis) PROVE EarnedInv'
  <2> DEFINE change == [consent |-> "given", basis |-> basis]
  <2>1. UNCHANGED <<draft, mails>> /\ End(s)
    BY <1>5 DEF CommitPromote
  <2>2. earned.scored \subseteq earned'.scored /\ earned.cleared \subseteq earned'.cleared
    BY <1>5, GrantedType DEF CommitPromote
  <2>3. basis = "lawful" => p \in earned'.cleared
    BY <1>5, GrantedIn DEF CommitPromote
  <2>4. DOMAIN change = {"consent", "basis"} /\ change["basis"] = basis /\ change["consent"] = "given"
    OBVIOUS
  <2>5. PICK loaded : Save(p, loaded, change)
    BY <1>5 DEF CommitPromote
  <2> HIDE DEF change
  <2>6. \A q \in Records : prospect'[q] = prospect[q] \/ CandidateEarned(q)'
    BY <2>2, <2>3, <2>4, <2>5, SaveEarned
  <2> QED BY <1>d, <2>1, <2>2, <2>6, EndEarned, EarnedParts
<1> QED BY <1>1, <1>2, <1>3, <1>4, <1>5

LEMMA EarnedDrafts ==
    ASSUME Types, EarnedInv, NEW s \in Sessions,
           \/ \E p \in Records, o \in Drafts : CommitDraft(s, p, o)
           \/ \E o \in Drafts : MailProspect(s, o) \/ CommitSend(s, o)
           \/ \E o \in Drafts, action \in {"approve", "reject"} : CommitReview(s, o, action)
           \/ CommitOptOut(s)
           \/ GiveUp(s)
           \/ Die(s)
    PROVE  EarnedInv'
<1>t. draft \in [Drafts -> Draft] /\ mails \in [Drafts -> Nat] /\ SessionOK(s) /\ SessionEarned(s)
  BY DEF Types, OutreachTypeOK, EarnedInv
<1>st. ASSUME NEW os \in SUBSET Drafts, NEW status \in {"approved", "rejected", "sent", "suppressed"},
              \A o \in os : draft[o].status # "absent", UNCHANGED earned,
              draft' = [o \in Drafts |-> IF o \in os THEN [draft[o] EXCEPT !.status = status] ELSE draft[o]]
       PROVE  Onwards /\ \A o \in Drafts : draft'[o] = draft[o] \/ draft[o].status # "absent"
  <2>1. ASSUME NEW o \in Drafts, o \in os
        PROVE  draft'[o].status = status /\ draft'[o].of = draft[o].of /\ draft'[o].basis = draft[o].basis
    <3>1. draft[o] \in Draft
      BY <1>t
    <3> QED BY <1>st, <2>1, <3>1 DEF Draft
  <2>2. ASSUME NEW o \in Drafts, o \notin os PROVE draft'[o] = draft[o]
    BY <1>st, <2>2
  <2> QED BY <1>st, <2>1, <2>2 DEF Onwards
<1>1. ASSUME NEW p \in Records, NEW o \in Drafts, CommitDraft(s, p, o) PROVE EarnedInv'
  <2> DEFINE new == [status |-> "draft", of |-> p, basis |-> Seen(s, p).basis]
  <2>1. UNCHANGED <<prospect, mails, earned>> /\ End(s) /\ draft' = [draft EXCEPT ![o] = new]
    BY <1>1 DEF CommitDraft
  <2>2. draft[o].status = "absent"
    BY <1>1 DEF CommitDraft, NextDraft
  <2>3. new.basis = "lawful" => new.of \in earned.cleared
    BY <1>1, <1>t DEF CommitDraft, SessionEarned
  <2> HIDE DEF new
  <2>4. draft'[o] = new /\ \A x \in Drafts : x # o => draft'[x] = draft[x]
    BY <1>t, <2>1
  <2>5. Onwards /\ DraftEarned(o)'
    BY <2>1, <2>2, <2>3, <2>4 DEF Onwards, DraftEarned
  <2> QED BY <2>1, <2>4, <2>5, EndEarned, EarnedParts
<1>2. ASSUME NEW o \in Drafts, MailProspect(s, o) PROVE EarnedInv'
  <2>1. UNCHANGED <<prospect, draft, earned>>
    BY <1>2 DEF MailProspect, rows
  <2>2. \A x \in session[s].drafts : Earned(x)
    BY <1>2, <1>t DEF MailProspect, SessionEarned
  <2>3. Onwards /\ \A x \in session[s].drafts : Earned(x)'
    BY <2>1, <2>2 DEF Onwards, Earned
  <2>4. \A x \in Drafts : mails'[x] = mails[x] \/ Earned(x)'
    BY <1>2, <1>t, <2>3 DEF MailProspect
  <2>5. \A x \in Sessions : session'[x] = session[x] \/ SessionEarned(x)'
    <3> DEFINE new == [session[s] EXCEPT !.op = "mailed"]
    <3>1. new.op = "mailed" /\ new.drafts = session[s].drafts
      BY <1>t DEF SessionOK
    <3>2. session' = [session EXCEPT ![s] = new]
      BY <1>2 DEF MailProspect
    <3> HIDE DEF new
    <3>3. session'[s] = new /\ \A x \in Sessions : x # s => session'[x] = session[x]
      BY <3>2 DEF Types
    <3>4. SessionEarned(s)'
      BY <2>3, <3>1, <3>3 DEF SessionEarned, At
    <3> QED BY <3>3, <3>4
  <2> QED BY <2>1, <2>3, <2>4, <2>5, EarnedParts
<1>3. ASSUME NEW o \in Drafts, CommitSend(s, o) PROVE EarnedInv'
  <2> DEFINE os == {o}
  <2>1. UNCHANGED <<prospect, mails, earned>> /\ End(s)
    BY <1>3 DEF CommitSend
  <2>2. draft' = [x \in Drafts |-> IF x \in os THEN [draft[x] EXCEPT !.status = "sent"] ELSE draft[x]]
    BY <1>3, <1>t DEF CommitSend
  <2>3. os \in SUBSET Drafts /\ \A x \in os : draft[x].status # "absent"
    BY <1>3, <1>t DEF CommitSend, SessionOK
  <2> HIDE DEF os
  <2> QED BY <1>st, <2>1, <2>2, <2>3, EndEarned, EarnedParts
<1>4. ASSUME NEW o \in Drafts, NEW action \in {"approve", "reject"}, CommitReview(s, o, action) PROVE EarnedInv'
  <2> DEFINE os == {o}
  <2>1. UNCHANGED <<prospect, mails, earned>> /\ End(s)
    BY <1>4 DEF CommitReview
  <2>2. draft' = [x \in Drafts |-> IF x \in os THEN [draft[x] EXCEPT !.status = ReviewedStatus(action)]
                                   ELSE draft[x]]
    BY <1>4, <1>t DEF CommitReview
  <2>3. os \in SUBSET Drafts /\ \A x \in os : draft[x].status # "absent"
    BY <1>4, <1>t DEF CommitReview, SessionOK
  <2>4. ReviewedStatus(action) \in {"approved", "rejected", "sent", "suppressed"}
    BY DEF ReviewedStatus
  <2> HIDE DEF os
  <2> QED BY <1>st, <2>1, <2>2, <2>3, <2>4, EndEarned, EarnedParts
<1>5. CASE CommitOptOut(s)
  <2> DEFINE change == [consent |-> "opt_out"]
  <2>1. UNCHANGED <<mails, earned>> /\ End(s)
    BY <1>5 DEF CommitOptOut
  <2>2. draft' = [x \in Drafts |-> IF x \in session[s].drafts THEN [draft[x] EXCEPT !.status = "suppressed"]
                                   ELSE draft[x]]
    BY <1>5 DEF CommitOptOut
  <2>3. session[s].drafts \in SUBSET Drafts /\ \A x \in session[s].drafts : draft[x].status # "absent"
    BY <1>t DEF SessionOK
  <2>4. DOMAIN change = {"consent"} /\ change["consent"] = "opt_out"
    OBVIOUS
  <2>5. prospect' = [p \in Records |->
            IF p \in Loaded(s) THEN Merged(p, Seen(s, p), change) ELSE prospect[p]]
    BY <1>5 DEF CommitOptOut
  <2> HIDE DEF change
  <2>6. ASSUME NEW p \in Records PROVE prospect'[p] = prospect[p] \/ CandidateEarned(p)'
    <3>1. prospect[p] \in Prospect /\ CandidateEarned(p)
      BY DEF Types, OutreachTypeOK, EarnedInv
    <3>2. Merged(p, Seen(s, p), change).score = prospect[p].score
          /\ Merged(p, Seen(s, p), change).basis = prospect[p].basis
      BY <2>4, <3>1, MergedType
    <3>3. prospect'[p] = prospect[p] \/ prospect'[p] = Merged(p, Seen(s, p), change)
      BY <2>5
    <3> QED BY <2>1, <3>1, <3>2, <3>3 DEF CandidateEarned
  <2> QED BY <1>st, <2>1, <2>2, <2>3, <2>6, EndEarned, EarnedParts
<1>6. ASSUME GiveUp(s) \/ Die(s) PROVE EarnedInv'
  <2>1. UNCHANGED <<prospect, draft, mails, earned>> /\ End(s)
    BY <1>6 DEF GiveUp, Die, rows
  <2>2. Onwards
    BY <2>1 DEF Onwards
  <2> QED BY <2>1, <2>2, EndEarned, EarnedParts
<1> QED BY <1>1, <1>2, <1>3, <1>4, <1>5, <1>6

LEMMA EarnedStep ==
    ASSUME Types, EarnedInv, [OutreachNext]_vars
    PROVE  EarnedInv'
<1>1. CASE UNCHANGED vars
  BY <1>1, EarnedParts DEF vars, Onwards
<1>2. CASE WindowPasses
  <2>1. UNCHANGED <<prospect, draft, session, earned>> /\ \A o \in Drafts : ~(mails'[o] > 0)
    BY <1>2 DEF WindowPasses, rows
  <2> QED BY <2>1, EarnedParts DEF Onwards
<1>3. ASSUME NEW s \in Sessions, Qualifying(s) \/ Contacting(s) \/ GiveUp(s) \/ Die(s) PROVE EarnedInv'
  BY <1>3, EarnedLoading, EarnedCandidates, EarnedDrafts DEF Qualifying, Contacting
<1> QED BY <1>1, <1>2, <1>3 DEF OutreachNext

LEMMA EarnedInit == OutreachInit => EarnedInv
<1> SUFFICES ASSUME OutreachInit PROVE EarnedInv
  OBVIOUS
<1>1. \A p \in Records : CandidateEarned(p)
  BY DEF OutreachInit, CandidateEarned, Imported
<1>2. \A o \in Drafts : DraftEarned(o) /\ ~(mails[o] > 0)
  BY DEF OutreachInit, DraftEarned
<1>3. \A s \in Sessions : SessionEarned(s)
  BY IdleRows DEF OutreachInit, SessionEarned, At
<1> QED BY <1>1, <1>2, <1>3 DEF EarnedInv

\* An e-mail that left is about a candidate an agent once scored at the floor
\* or above and a reviewer once cleared with a lawful basis: the gates of
\* send_outreach read rows that stale commits overwrite, and still no commit
\* writes a grant nobody gave.
THEOREM MailsAreEarned == OutreachSpec => []EveryMailEarned
<1>1. Types /\ EarnedInv /\ [OutreachNext]_vars => EarnedInv'
  BY EarnedStep
<1>2. EarnedInv => EveryMailEarned
  BY DEF EarnedInv, Earned, EveryMailEarned
<1> QED BY <1>1, <1>2, EarnedInit, InitTypes, StepTypes, PTL DEF OutreachSpec

-----------------------------------------------------------------------------
(* The cap: sums over drafts *)

LEMMA InEach ==
    ASSUME NEW count
    PROVE  /\ \A o \in Drafts : \A k : <<o, k>> \in Each(count) <=> k \in 1..count[o]
           /\ \A x \in Each(count) : x = <<x[1], x[2]>> /\ x[1] \in Drafts /\ x[2] \in 1..count[x[1]]
  BY DEF Each

LEMMA EachFinite ==
    ASSUME NEW count \in [Drafts -> Nat]
    PROVE  IsFiniteSet(Each(count)) /\ Total(count) \in Nat
<1> DEFINE f == [o \in Drafts |-> {o} \X (1..count[o])]
           parts == {{o} \X (1..count[o]) : o \in Drafts}
<1>1. IsFiniteSet(Drafts)
  BY OutreachBounds, FS_Interval DEF Drafts
<1>2. f \in Surjection(Drafts, parts)
  BY DEF Surjection
<1>3. IsFiniteSet(parts)
  <2> HIDE DEF f, parts
  <2> QED BY <1>1, <1>2, FS_Surjection
<1>4. ASSUME NEW o \in Drafts PROVE IsFiniteSet({o} \X (1..count[o]))
  <2>1. IsFiniteSet({o})
    BY FS_Singleton
  <2>2. IsFiniteSet(1..count[o])
    <3>1. count[o] \in Int
      OBVIOUS
    <3> QED BY <3>1, FS_Interval
  <2> QED BY <2>1, <2>2, FS_Product
<1>5. \A part \in parts : IsFiniteSet(part)
  BY <1>4
<1> HIDE DEF parts
<1>6. IsFiniteSet(UNION parts)
  BY <1>3, <1>5, FS_UNION
<1>7. Each(count) = UNION parts
  BY DEF Each, parts
<1>8. IsFiniteSet(Each(count))
  BY <1>6, <1>7
<1> QED BY <1>8, FS_CardinalityType DEF Total

LEMMA TotalGrows ==
    ASSUME NEW f \in [Drafts -> Nat], NEW g \in [Drafts -> Nat], \A o \in Drafts : f[o] <= g[o]
    PROVE  Total(f) <= Total(g)
<1>1. Each(f) \subseteq Each(g)
  <2> SUFFICES ASSUME NEW x \in Each(f) PROVE x \in Each(g)
    OBVIOUS
  <2>1. x = <<x[1], x[2]>> /\ x[1] \in Drafts /\ x[2] \in 1..f[x[1]]
    BY InEach
  <2>2. f[x[1]] \in Nat /\ g[x[1]] \in Nat /\ f[x[1]] <= g[x[1]]
    BY <2>1
  <2>3. x[2] \in 1..g[x[1]]
    BY <2>1, <2>2
  <2> QED BY <2>1, <2>3, InEach
<1> QED BY <1>1, EachFinite, FS_Subset DEF Total

LEMMA TotalOneMore ==
    ASSUME NEW f \in [Drafts -> Nat], NEW g \in [Drafts -> Nat], NEW o \in Drafts, g[o] <= f[o] + 1,
           \A x \in Drafts : x # o => g[x] <= f[x]
    PROVE  Total(g) <= Total(f) + 1
<1> DEFINE more == Each(f) \cup {<<o, f[o] + 1>>}
<1>1. IsFiniteSet(more) /\ Cardinality(more) <= Total(f) + 1
  <2>1. IsFiniteSet(Each(f)) /\ Cardinality(Each(f)) \in Nat
    BY EachFinite DEF Total
  <2> DEFINE next == <<o, f[o] + 1>>
  <2>2. IsFiniteSet(Each(f) \cup {next})
        /\ Cardinality(Each(f) \cup {next}) =
               IF next \in Each(f) THEN Cardinality(Each(f)) ELSE Cardinality(Each(f)) + 1
    <3> HIDE DEF next
    <3> QED BY <2>1, FS_AddElement
  <2> QED BY <2>1, <2>2 DEF Total
<1>2. Each(g) \subseteq more
  <2> SUFFICES ASSUME NEW x \in Each(g) PROVE x \in more
    OBVIOUS
  <2>1. x = <<x[1], x[2]>> /\ x[1] \in Drafts /\ x[2] \in 1..g[x[1]]
    BY InEach
  <2>2. f[x[1]] \in Nat /\ g[x[1]] \in Nat
    BY <2>1
  <2>3. x[2] \in 1..f[x[1]] \/ (x[1] = o /\ x[2] = f[o] + 1)
    BY <2>1, <2>2
  <2> QED BY <2>1, <2>3, InEach
<1> HIDE DEF more
<1>3. IsFiniteSet(Each(g)) /\ Cardinality(Each(g)) <= Cardinality(more)
  BY <1>1, <1>2, FS_Subset
<1>4. Cardinality(more) \in Nat /\ Total(f) \in Nat /\ Total(g) \in Nat
  BY <1>1, EachFinite, FS_CardinalityType
<1> QED BY <1>1, <1>3, <1>4 DEF Total

-----------------------------------------------------------------------------
(* The cap: requests that have a draft in hand *)

Having(ops, o) == {s \in Sessions : session[s].op \in ops /\ o \in session[s].drafts}
Number(ops, o) == Cardinality(Having(ops, o))

Requests == Cardinality(Sessions)

LEMMA NumberType ==
    ASSUME NEW ops, NEW o
    PROVE  IsFiniteSet(Having(ops, o)) /\ Number(ops, o) \in Nat /\ Number(ops, o) <= Requests /\ Requests \in Nat
<1>1. Having(ops, o) \subseteq Sessions /\ IsFiniteSet(Sessions)
  BY OutreachBounds DEF Having
<1> QED BY <1>1, FS_Subset, FS_CardinalityType DEF Number, Requests

\* A request does one thing at a time.
LEMMA NumbersApart ==
    ASSUME NEW o
    PROVE  Number({"sending"}, o) + Number({"mailed"}, o) + Number({"reviewing", "opting_out"}, o) <= Requests
<1> DEFINE a == Having({"sending"}, o)
           b == Having({"mailed"}, o)
           c == Having({"reviewing", "opting_out"}, o)
<1>1. a \cap b = {} /\ (a \cup b) \cap c = {} /\ a \cup b \cup c \subseteq Sessions
  BY DEF Having
<1>2. IsFiniteSet(a) /\ IsFiniteSet(b) /\ IsFiniteSet(c)
      /\ Cardinality(a) \in Nat /\ Cardinality(b) \in Nat /\ Cardinality(c) \in Nat /\ Requests \in Nat
  BY NumberType DEF Number
<1> HIDE DEF a, b, c
<1>e. Cardinality({}) = 0
  BY FS_EmptySet
<1>3. IsFiniteSet(a \cup b) /\ Cardinality(a \cup b) = Cardinality(a) + Cardinality(b)
  <2>1. IsFiniteSet(a \cup b) /\ Cardinality(a \cup b) = Cardinality(a) + Cardinality(b) - Cardinality(a \cap b)
    BY <1>2, FS_Union
  <2>2. Cardinality(a \cap b) = 0
    BY <1>1, <1>e
  <2> QED BY <1>2, <2>1, <2>2
<1>4. Cardinality((a \cup b) \cup c) = Cardinality(a) + Cardinality(b) + Cardinality(c)
  <2>1. Cardinality((a \cup b) \cup c) = Cardinality(a \cup b) + Cardinality(c) - Cardinality((a \cup b) \cap c)
    BY <1>2, <1>3, FS_Union
  <2>2. Cardinality((a \cup b) \cap c) = 0
    BY <1>1, <1>e
  <2> QED BY <1>2, <1>3, <2>1, <2>2
<1>5. Cardinality((a \cup b) \cup c) <= Requests
  BY <1>1, OutreachBounds, FS_Subset DEF Requests
<1> QED BY <1>2, <1>4, <1>5 DEF Number, a, b, c

Holds(ops, s, o) == session[s].op \in ops /\ o \in session[s].drafts

\* What the number becomes when one request moves on.
LEMMA NumberMoves ==
    ASSUME NEW s \in Sessions, \A t \in Sessions : t # s => session'[t] = session[t], NEW ops, NEW o
    PROVE  /\ Number(ops, o) \in Nat /\ Number(ops, o)' \in Nat
           /\ Number(ops, o)' = Number(ops, o) - (IF Holds(ops, s, o) THEN 1 ELSE 0)
                                              + (IF Holds(ops, s, o)' THEN 1 ELSE 0)
           /\ Holds(ops, s, o) => Number(ops, o) >= 1
<1> DEFINE set == Having(ops, o)
           rest == set \ {s}
           after == set'
<1>1. after = IF Holds(ops, s, o)' THEN rest \cup {s} ELSE rest
  BY DEF Having, Holds
<1>2. s \in set <=> Holds(ops, s, o)
  BY DEF Having, Holds
<1>3. IsFiniteSet(set) /\ Cardinality(set) \in Nat
  BY NumberType DEF Number
<1>4. Number(ops, o)' = Cardinality(after) /\ Number(ops, o) = Cardinality(set)
  BY DEF Number
<1> HIDE DEF set, after
<1>5. IsFiniteSet(rest) /\ Cardinality(rest) = (IF s \in set THEN Cardinality(set) - 1 ELSE Cardinality(set))
  BY <1>3, FS_RemoveElement
<1>6. Cardinality(rest) \in Nat
  BY <1>5, FS_CardinalityType
<1>7. Cardinality(rest \cup {s}) = Cardinality(rest) + 1
  BY <1>5, FS_AddElement
<1> HIDE DEF rest
<1> QED BY <1>1, <1>2, <1>3, <1>4, <1>5, <1>6, <1>7

LEMMA NumberSplits ==
    ASSUME NEW o
    PROVE  Number({"sending", "mailed"}, o) = Number({"sending"}, o) + Number({"mailed"}, o)
<1> DEFINE a == Having({"sending"}, o)
           b == Having({"mailed"}, o)
<1>1. a \cap b = {} /\ Having({"sending", "mailed"}, o) = a \cup b
  BY DEF Having
<1>2. IsFiniteSet(a) /\ IsFiniteSet(b) /\ Cardinality(a) \in Nat /\ Cardinality(b) \in Nat
  BY NumberType DEF Number
<1> HIDE DEF a, b
<1>3. Cardinality(a \cup b) = Cardinality(a) + Cardinality(b) - Cardinality(a \cap b)
  BY <1>2, FS_Union
<1>4. Cardinality(a \cap b) = 0
  BY <1>1, FS_EmptySet
<1>5. Cardinality(a \cup b) = Cardinality(a) + Cardinality(b)
  BY <1>2, <1>3, <1>4
<1> QED BY <1>1, <1>5 DEF Number, a, b

LEMMA UnionBound ==
    ASSUME NEW S, NEW T, IsFiniteSet(S), IsFiniteSet(T)
    PROVE  IsFiniteSet(S \cup T) /\ Cardinality(S \cup T) <= Cardinality(S) + Cardinality(T)
<1>1. /\ IsFiniteSet(S \cup T)
      /\ Cardinality(S \cup T) = Cardinality(S) + Cardinality(T) - Cardinality(S \cap T)
  BY FS_Union
<1>2. S \cap T \subseteq S
  OBVIOUS
<1>3. IsFiniteSet(S \cap T)
  BY <1>2, FS_Subset
<1>4. Cardinality(S) \in Nat /\ Cardinality(T) \in Nat /\ Cardinality(S \cap T) \in Nat
  BY <1>3, FS_CardinalityType
<1> QED BY <1>1, <1>4

LEMMA TimesGrows == ASSUME NEW a \in Nat, NEW b \in Nat, NEW n \in Nat, a <= b PROVE a * n <= b * n
<1>1. PICK d \in Nat : b = a + d
  <2>1. b - a \in Nat /\ b = a + (b - a)
    OBVIOUS
  <2> QED BY <2>1
<1>2. b * n = a * n + d * n /\ a * n \in Nat /\ d * n \in Nat
  BY <1>1
<1> QED BY <1>2

-----------------------------------------------------------------------------
(* The cap: what was sent and what may still be *)

Hides == IF Requests > 1 THEN Requests - 1 ELSE 1

\* The e-mails that lost records of a draft excuse.
Excused(o) == Hides * lost[o]
Excuses    == [o \in Drafts |-> Excused(o)]

\* The e-mails that left or that a request past the gates is about to send.
Underway(o) == mails[o] + Number({"sending"}, o)
Planned     == [o \in Drafts |-> Underway(o)]

OneInHand == \A s \in Sessions :
    session[s].op \in {"sending", "mailed"} => \E o \in Drafts : session[s].drafts = {o}

\* A draft the cap does not count was mailed by requests that are about to say
\* so.  One that it counts was mailed by any request that had passed the gates
\* before, and by none that may still write over it.
DraftAccount(o) ==
    IF Counted(o)
    THEN Underway(o) + Number({"reviewing", "opting_out"}, o) <= Requests + Excused(o)
    ELSE mails[o] <= Number({"mailed"}, o) + Excused(o)

WindowAccount == Total(Planned) <= Requests * MaxPerWindow + Total(Excuses)

Accounts == OneInHand /\ (\A o \in Drafts : DraftAccount(o)) /\ WindowAccount

LEMMA Terms ==
    ASSUME Types
    PROVE  /\ Requests \in Nat /\ Hides \in Nat \ {0} /\ Requests <= Hides + 1
           /\ \A o \in Drafts : mails[o] \in Nat /\ Underway(o) \in Nat /\ Excused(o) \in Nat
           /\ Planned \in [Drafts -> Nat] /\ Excuses \in [Drafts -> Nat]
<1>1. Requests \in Nat /\ Hides \in Nat \ {0} /\ Requests <= Hides + 1
  BY NumberType DEF Hides
<1>2. ASSUME NEW o \in Drafts PROVE mails[o] \in Nat /\ Underway(o) \in Nat /\ Excused(o) \in Nat
  <2>1. mails[o] \in Nat /\ lost[o] \in Nat
    BY DEF Types, OutreachTypeOK
  <2> QED BY <1>1, <2>1, NumberType DEF Underway, Excused
<1> QED BY <1>1, <1>2 DEF Planned, Excuses

\* When the cap lets a draft through, the e-mails of the drafts it counts, those
\* of the requests under way and those that lost records excuse leave room for
\* one more.
LEMMA CapLeavesRoom ==
    ASSUME Types, OneInHand, \A o \in Drafts : DraftAccount(o),
           NEW s \in Sessions, session[s].op = "idle",
           Cardinality({a \in Drafts : Counted(a)}) < MaxPerWindow
    PROVE  Total(Planned) + 1 <= Requests * MaxPerWindow + Total(Excuses)
<1> DEFINE counted == {a \in Drafts : Counted(a)}
           busy    == {"sending", "mailed"}
           excused == {x \in Each(Planned) : x[2] <= Excused(x[1])}
           beyond  == {x \in Each(Planned) : x[2] > Excused(x[1])}
           sent    == {x \in beyond : Counted(x[1])}
           open    == {x \in beyond : ~Counted(x[1])}
<1>t. Requests \in Nat /\ MaxPerWindow \in Nat \ {0} /\ IsFiniteSet(Sessions)
  BY Terms, OutreachBounds
<1>e. ASSUME NEW x \in Each(Planned)
      PROVE  /\ x = <<x[1], x[2]>> /\ x[1] \in Drafts /\ x[2] \in 1..Underway(x[1])
             /\ Underway(x[1]) \in Nat /\ Excused(x[1]) \in Nat /\ x[2] \in Nat
  <2>1. x = <<x[1], x[2]>> /\ x[1] \in Drafts /\ x[2] \in 1..Planned[x[1]]
    BY InEach
  <2>2. Planned[x[1]] = Underway(x[1])
    BY <2>1 DEF Planned
  <2> QED BY <2>1, <2>2, Terms
<1>f. IsFiniteSet(Each(Planned)) /\ Total(Planned) \in Nat /\ IsFiniteSet(Each(Excuses)) /\ Total(Excuses) \in Nat
  BY Terms, EachFinite
<1>p. /\ excused \subseteq Each(Planned) /\ sent \subseteq Each(Planned) /\ open \subseteq Each(Planned)
      /\ IsFiniteSet(excused) /\ IsFiniteSet(sent) /\ IsFiniteSet(open)
  BY <1>f, FS_Subset
<1>1. Cardinality(excused) <= Total(Excuses)
  <2>1. excused \subseteq Each(Excuses)
    <3> SUFFICES ASSUME NEW x \in excused PROVE x \in Each(Excuses)
      OBVIOUS
    <3>1. x = <<x[1], x[2]>> /\ x[1] \in Drafts /\ x[2] \in 1..Excused(x[1])
      BY <1>e
    <3>2. Excuses[x[1]] = Excused(x[1])
      BY <3>1 DEF Excuses
    <3> QED BY <3>1, <3>2, InEach
  <2> QED BY <1>f, <2>1, FS_Subset DEF Total
<1>2. Cardinality(sent) <= Cardinality(counted) * Requests
  <2> DEFINE slots == counted \X (1..Requests)
             f     == [x \in sent |-> <<x[1], x[2] - Excused(x[1])>>]
  <2>1. IsFiniteSet(counted) /\ IsFiniteSet(1..Requests)
    <3>1. IsFiniteSet(Drafts)
      BY OutreachBounds, FS_Interval DEF Drafts
    <3>2. Requests \in Int
      BY <1>t
    <3> QED BY <3>1, <3>2, FS_Subset, FS_Interval
  <2>2. Cardinality(1..Requests) = Requests
    <3>1. Requests \in Int /\ 1 \in Int
      BY <1>t
    <3>2. Cardinality(1..Requests) = IF 1 > Requests THEN 0 ELSE Requests - 1 + 1
      BY <3>1, FS_Interval
    <3> QED BY <1>t, <3>2
  <2>3. IsFiniteSet(slots) /\ Cardinality(slots) = Cardinality(counted) * Requests
    BY <2>1, <2>2, FS_Product
  <2>4. ASSUME NEW x \in sent PROVE x[1] \in counted /\ x[2] - Excused(x[1]) \in 1..Requests
    <3>1. x[1] \in Drafts /\ Counted(x[1]) /\ x[2] > Excused(x[1]) /\ x[2] <= Underway(x[1])
          /\ Underway(x[1]) \in Nat /\ Excused(x[1]) \in Nat /\ x[2] \in Nat
      BY <1>e
    <3>2. Underway(x[1]) + Number({"reviewing", "opting_out"}, x[1]) <= Requests + Excused(x[1])
      BY <3>1 DEF DraftAccount
    <3>3. Number({"reviewing", "opting_out"}, x[1]) \in Nat
      BY NumberType
    <3> QED BY <1>t, <3>1, <3>2, <3>3
  <2>5. f \in Injection(sent, slots)
    <3>1. f \in [sent -> slots]
      BY <2>4
    <3>2. ASSUME NEW x \in sent, NEW y \in sent, f[x] = f[y] PROVE x = y
      <4>1. x[1] = y[1] /\ x[2] - Excused(x[1]) = y[2] - Excused(y[1])
        BY <3>2
      <4>2. x[2] \in Nat /\ y[2] \in Nat /\ Excused(x[1]) \in Nat /\ x = <<x[1], x[2]>> /\ y = <<y[1], y[2]>>
        BY <1>e
      <4>3. x[2] = y[2]
        BY <4>1, <4>2
      <4> QED BY <4>1, <4>2, <4>3
    <3> HIDE DEF f, slots, sent
    <3> QED BY <3>1, <3>2 DEF Injection, IsInjective
  <2> HIDE DEF f, slots, sent
  <2> QED BY <2>3, <2>5, FS_Injection
<1>3. Cardinality(open) <= Requests - 1
  <2> DEFINE count(o) == Number(busy, o)
             nth(o) == CHOOSE b : b \in Bijection(1..count(o), Having(busy, o))
             f      == [x \in open |-> nth(x[1])[x[2] - Excused(x[1])]]
             rest   == Sessions \ {s}
  <2>1. IsFiniteSet(rest) /\ Cardinality(rest) = Requests - 1
    BY <1>t, FS_RemoveElement DEF Requests
  <2>2. ASSUME NEW o PROVE nth(o) \in Bijection(1..count(o), Having(busy, o))
    <3>1. ExistsBijection(1..Cardinality(Having(busy, o)), Having(busy, o))
      BY NumberType, FS_CardinalityType
    <3> QED BY <3>1 DEF ExistsBijection, Number
  <2>3. ASSUME NEW x \in open
        PROVE  x[2] - Excused(x[1]) \in 1..count(x[1])
    <3>1. x[1] \in Drafts /\ ~Counted(x[1]) /\ x[2] > Excused(x[1]) /\ x[2] <= Underway(x[1])
          /\ Underway(x[1]) \in Nat /\ Excused(x[1]) \in Nat /\ x[2] \in Nat
      BY <1>e
    <3>2. mails[x[1]] <= Number({"mailed"}, x[1]) + Excused(x[1])
      BY <3>1 DEF DraftAccount
    <3>3. count(x[1]) = Number({"sending"}, x[1]) + Number({"mailed"}, x[1])
      BY NumberSplits
    <3>4. mails[x[1]] \in Nat /\ Number({"mailed"}, x[1]) \in Nat /\ Number({"sending"}, x[1]) \in Nat
      BY <3>1, Terms, NumberType
    <3> QED BY <3>1, <3>2, <3>3, <3>4 DEF Underway
  <2> HIDE DEF count, nth
  <2>4. ASSUME NEW x \in open
        PROVE  f[x] \in rest /\ session[f[x]].drafts = {x[1]}
    <3>1. f[x] = nth(x[1])[x[2] - Excused(x[1])]
      OBVIOUS
    <3>2. f[x] \in Having(busy, x[1])
      BY <2>2, <2>3, <3>1 DEF Bijection, Injection
    <3>3. f[x] \in Sessions /\ session[f[x]].op \in busy /\ x[1] \in session[f[x]].drafts
      BY <3>2 DEF Having
    <3> HIDE DEF f
    <3> QED BY <3>3 DEF OneInHand
  <2>5. f \in [open -> rest]
    BY <2>4
  <2>6. ASSUME NEW x \in open, NEW y \in open, f[x] = f[y] PROVE x = y
    <3>1. x[1] = y[1]
      <4>1. {x[1]} = {y[1]}
        <5> HIDE DEF f
        <5> QED BY <2>4, <2>6
      <4> QED BY <4>1
    <3> DEFINE i == x[2] - Excused(x[1])
               k == y[2] - Excused(y[1])
    <3>2. nth(x[1])[i] = nth(x[1])[k]
      BY <2>6, <3>1
    <3>3. i \in 1..count(x[1]) /\ k \in 1..count(x[1])
      BY <2>3, <3>1
    <3>4. i = k
      <4> HIDE DEF i, k
      <4> QED BY <2>2, <3>2, <3>3 DEF Bijection, Injection, IsInjective
    <3>5. x[2] \in Nat /\ y[2] \in Nat /\ Excused(x[1]) \in Nat /\ x = <<x[1], x[2]>> /\ y = <<y[1], y[2]>>
      BY <1>e
    <3>6. x[2] = y[2]
      BY <3>1, <3>4, <3>5
    <3> QED BY <3>1, <3>5, <3>6
  <2> HIDE DEF f, rest, open
  <2>7. f \in Injection(open, rest)
    BY <2>5, <2>6 DEF Injection, IsInjective
  <2> QED BY <2>1, <2>7, FS_Injection
<1>4. Total(Planned) <= Cardinality(excused) + Cardinality(sent) + Cardinality(open)
  <2>1. Each(Planned) = (excused \cup sent) \cup open
    <3>1. ASSUME NEW x \in Each(Planned) PROVE x[2] <= Excused(x[1]) \/ x[2] > Excused(x[1])
      BY <1>e
    <3> QED BY <3>1
  <2> HIDE DEF excused, sent, open
  <2>2. IsFiniteSet(excused \cup sent) /\ Cardinality(excused \cup sent) <= Cardinality(excused) + Cardinality(sent)
    BY <1>p, UnionBound
  <2>3. Cardinality((excused \cup sent) \cup open) <= Cardinality(excused \cup sent) + Cardinality(open)
    BY <1>p, <2>2, UnionBound
  <2>4. Cardinality(excused) \in Nat /\ Cardinality(sent) \in Nat /\ Cardinality(open) \in Nat
        /\ Cardinality(excused \cup sent) \in Nat
    BY <1>p, <2>2, FS_CardinalityType
  <2> QED BY <1>f, <2>1, <2>2, <2>3, <2>4 DEF Total
<1>5. Cardinality(counted) * Requests <= (MaxPerWindow - 1) * Requests
  <2>1. Cardinality(counted) \in Nat
    <3>1. IsFiniteSet(Drafts)
      BY OutreachBounds, FS_Interval DEF Drafts
    <3> QED BY <3>1, FS_Subset, FS_CardinalityType
  <2>2. Cardinality(counted) <= MaxPerWindow - 1
    BY <1>t, <2>1
  <2> HIDE DEF counted
  <2> QED BY <1>t, <2>1, <2>2, TimesGrows
<1>6. (MaxPerWindow - 1) * Requests = Requests * MaxPerWindow - Requests
  BY <1>t
<1>7. Cardinality(excused) \in Nat /\ Cardinality(sent) \in Nat /\ Cardinality(open) \in Nat
      /\ Requests * MaxPerWindow \in Nat
  BY <1>t, <1>p, FS_CardinalityType
<1> DEFINE product == Requests * MaxPerWindow
<1>8. Cardinality(sent) <= product - Requests
  <2>1. Cardinality(counted) * Requests \in Nat
    <3>1. IsFiniteSet(Drafts)
      BY OutreachBounds, FS_Interval DEF Drafts
    <3>2. Cardinality(counted) \in Nat
      BY <3>1, FS_Subset, FS_CardinalityType
    <3> HIDE DEF counted
    <3> QED BY <1>t, <3>2
  <2> DEFINE c == Cardinality(counted) * Requests
             d == (MaxPerWindow - 1) * Requests
  <2>2. Cardinality(sent) <= c /\ c <= d /\ d = product - Requests /\ c \in Nat /\ product \in Nat
    BY <1>2, <1>5, <1>6, <1>7, <2>1
  <2> HIDE DEF c, d, product, sent
  <2> QED BY <1>t, <1>7, <2>2
<1> HIDE DEF excused, sent, open, product
<1>9. product \in Nat
  BY <1>7 DEF product
<1>10. Total(Planned) + 1 <= product + Total(Excuses)
  BY <1>t, <1>f, <1>1, <1>3, <1>4, <1>7, <1>8, <1>9
<1> QED BY <1>10 DEF product

-----------------------------------------------------------------------------
(* The cap: every step keeps the accounts *)

LEMMA AccountsParts ==
    ASSUME Types, Accounts, OneInHand',
           \A x \in Drafts : /\ DraftAccount(x)'
                             /\ Underway(x)' \in Nat /\ Underway(x)' <= Underway(x)
                             /\ Excused(x)' \in Nat /\ Excused(x) <= Excused(x)'
    PROVE  Accounts'
<1> DEFINE planned == Planned'
           excuses == Excuses'
<1>1. /\ planned \in [Drafts -> Nat] /\ excuses \in [Drafts -> Nat]
      /\ \A x \in Drafts : planned[x] <= Planned[x] /\ Excuses[x] <= excuses[x]
  BY DEF Planned, Excuses
<1>2. Total(planned) = Total(Planned)' /\ Total(excuses) = Total(Excuses)'
  OBVIOUS
<1> HIDE DEF planned, excuses
<1>3. Total(planned) <= Total(Planned) /\ Total(Excuses) <= Total(excuses)
  BY <1>1, Terms, TotalGrows
<1>4. Total(planned) \in Nat /\ Total(Planned) \in Nat /\ Total(Excuses) \in Nat /\ Total(excuses) \in Nat
  BY <1>1, Terms, EachFinite
<1> DEFINE cap == Requests * MaxPerWindow
<1>5. cap \in Nat
  BY Terms, OutreachBounds
<1>6. Total(Planned) <= cap + Total(Excuses)
  BY DEF Accounts, WindowAccount
<1>7. WindowAccount' <=> Total(planned) <= cap + Total(excuses)
  BY <1>2 DEF WindowAccount
<1> HIDE DEF cap
<1>8. WindowAccount'
  BY <1>3, <1>4, <1>5, <1>6, <1>7
<1> QED BY <1>8 DEF Accounts

LEMMA ExcusedMoves ==
    ASSUME Types, NEW x \in Drafts, lost'[x] = lost[x] \/ lost'[x] = lost[x] + 1
    PROVE  /\ Excused(x) \in Nat /\ Excused(x)' \in Nat /\ Excused(x) <= Excused(x)'
           /\ lost'[x] = lost[x] => Excused(x)' = Excused(x)
           /\ lost'[x] = lost[x] + 1 => Excused(x)' = Excused(x) + Hides
<1>1. lost[x] \in Nat /\ Hides \in Nat
  BY Terms DEF Types, OutreachTypeOK
<1>2. Hides * lost[x] \in Nat /\ Hides * (lost[x] + 1) = Hides * lost[x] + Hides
  BY <1>1
<1>3. Excused(x) = Hides * lost[x] /\ Excused(x)' = Hides * lost'[x]
  BY DEF Excused
<1>4. CASE lost'[x] = lost[x]
  <2>1. Excused(x)' = Excused(x) /\ Excused(x) \in Nat
    BY <1>2, <1>3, <1>4
  <2>2. lost'[x] # lost[x] + 1
    BY <1>1, <1>4
  <2> QED BY <2>1, <2>2
<1>5. CASE lost'[x] = lost[x] + 1
  <2>1. Excused(x)' = Excused(x) + Hides /\ Excused(x) \in Nat
    BY <1>2, <1>3, <1>5
  <2>2. lost'[x] # lost[x]
    BY <1>1, <1>5
  <2> QED BY <1>1, <2>1, <2>2
<1> QED BY <1>4, <1>5

\* The request that moves is all that changes what is in hand.
LEMMA OneInHandMoves ==
    ASSUME OneInHand, NEW s \in Sessions, \A t \in Sessions : t # s => session'[t] = session[t],
           session'[s].op \in {"sending", "mailed"} => \E o \in Drafts : session'[s].drafts = {o}
    PROVE  OneInHand'
BY DEF OneInHand

\* The terms of a draft's account before and after one request moves.
LEMMA TermsMove ==
    ASSUME Types, NEW s \in Sessions, \A t \in Sessions : t # s => session'[t] = session[t], NEW x \in Drafts
    PROVE  /\ \A ops \in {{"sending"}, {"mailed"}, {"reviewing", "opting_out"}} :
               /\ Number(ops, x) \in Nat /\ Number(ops, x)' \in Nat
               /\ Number(ops, x)' = Number(ops, x) - (IF Holds(ops, s, x) THEN 1 ELSE 0)
                                                  + (IF Holds(ops, s, x)' THEN 1 ELSE 0)
               /\ Holds(ops, s, x) => Number(ops, x) >= 1
           /\ Number({"sending"}, x) + Number({"mailed"}, x) + Number({"reviewing", "opting_out"}, x) <= Requests
           /\ mails[x] \in Nat /\ Requests \in Nat /\ Hides \in Nat \ {0} /\ Requests <= Hides + 1
<1>1. ASSUME NEW ops
      PROVE  /\ Number(ops, x) \in Nat /\ Number(ops, x)' \in Nat
             /\ Number(ops, x)' = Number(ops, x) - (IF Holds(ops, s, x) THEN 1 ELSE 0)
                                                + (IF Holds(ops, s, x)' THEN 1 ELSE 0)
             /\ Holds(ops, s, x) => Number(ops, x) >= 1
  BY NumberMoves
<1>2. Number({"sending"}, x) + Number({"mailed"}, x) + Number({"reviewing", "opting_out"}, x) <= Requests
  BY NumbersApart
<1>3. mails[x] \in Nat /\ Requests \in Nat /\ Hides \in Nat \ {0} /\ Requests <= Hides + 1
  BY Terms
<1> QED BY <1>1, <1>2, <1>3

\* Requests that have no message in hand may move as they like.
LEMMA QuietAccounts ==
    ASSUME Types, Accounts, UNCHANGED <<mails, lost>>,
           \A x \in Drafts : Counted(x)' <=> Counted(x),
           \A t \in Sessions : LET ops == {"sending", "mailed", "reviewing", "opting_out"}
                               IN session[t].op \in ops \/ session'[t].op \in ops => session'[t] = session[t]
    PROVE  Accounts'
<1>1. ASSUME NEW ops \in {{"sending"}, {"mailed"}, {"reviewing", "opting_out"}}, NEW x
      PROVE  Number(ops, x)' = Number(ops, x)
  <2>1. Having(ops, x)' = Having(ops, x)
    BY DEF Having
  <2> QED BY <2>1 DEF Number
<1>2. ASSUME NEW x \in Drafts
      PROVE  /\ DraftAccount(x)' /\ Underway(x)' = Underway(x) /\ Excused(x)' = Excused(x)
  <2>1. DraftAccount(x)
    BY DEF Accounts
  <2>2. Underway(x)' = Underway(x) /\ Excused(x)' = Excused(x)
    BY <1>1 DEF Underway, Excused
  <2> QED BY <1>1, <2>1, <2>2 DEF DraftAccount
<1>3. OneInHand'
  BY DEF Accounts, OneInHand
<1>4. \A x \in Drafts : Underway(x) \in Nat /\ Excused(x) \in Nat
  BY Terms
<1>5. \A x \in Drafts : /\ DraftAccount(x)'
                        /\ Underway(x)' \in Nat /\ Underway(x)' <= Underway(x)
                        /\ Excused(x)' \in Nat /\ Excused(x) <= Excused(x)'
  BY <1>2, <1>4
<1> QED BY <1>3, <1>5, AccountsParts

\* A request that ends without a trace: nothing of the rows changes.
LEMMA GiveUpAccounts == ASSUME Types, Accounts, NEW s \in Sessions, GiveUp(s) PROVE Accounts'
<1>1. session' = [session EXCEPT ![s] = Idle] /\ session[s].op # "mailed"
      /\ UNCHANGED <<draft, recent, mails, lost>>
  BY DEF GiveUp, End, rows
<1>m. /\ \A t \in Sessions : t # s => session'[t] = session[t]
      /\ session'[s].op = "idle" /\ session'[s].drafts = {}
  BY <1>1, IdleRows DEF Types
<1>2. ASSUME NEW x \in Drafts
      PROVE  /\ DraftAccount(x)'
             /\ Underway(x)' \in Nat /\ Underway(x)' <= Underway(x)
             /\ Excused(x)' \in Nat /\ Excused(x) <= Excused(x)'
  <2>1. Counted(x)' <=> Counted(x)
    BY <1>1 DEF Counted
  <2>2. DraftAccount(x) /\ mails'[x] = mails[x] /\ lost'[x] = lost[x]
    BY <1>1 DEF Accounts
  <2>3. Excused(x)' = Excused(x) /\ Excused(x) \in Nat
    BY <2>2, ExcusedMoves
  <2>4. /\ Number({"sending"}, x)' <= Number({"sending"}, x)
        /\ Number({"mailed"}, x)' = Number({"mailed"}, x)
        /\ Number({"reviewing", "opting_out"}, x)' <= Number({"reviewing", "opting_out"}, x)
        /\ Number({"sending"}, x) \in Nat
        /\ Number({"mailed"}, x) \in Nat
        /\ Number({"reviewing", "opting_out"}, x) \in Nat
        /\ Number({"sending"}, x)' \in Nat
        /\ Number({"mailed"}, x)' \in Nat
        /\ Number({"reviewing", "opting_out"}, x)' \in Nat
        /\ mails[x] \in Nat /\ Requests \in Nat
    BY <1>m, <1>1, TermsMove DEF Holds
  <2> QED BY <2>1, <2>2, <2>3, <2>4 DEF DraftAccount, Underway
<1>3. OneInHand'
  BY <1>m, OneInHandMoves DEF Accounts
<1> QED BY <1>2, <1>3, AccountsParts

\* A request that takes drafts in hand which the cap does not count.
LEMMA TakesAccounts ==
    ASSUME Types, Accounts, NEW s \in Sessions, NEW op \in {"reviewing", "opting_out"}, NEW ps, NEW columns,
           NEW os \in SUBSET Drafts, \A o \in os : ~Counted(o),
           Load(s, op, ps, columns, os), UNCHANGED <<draft, recent, mails, lost>>
    PROVE  Accounts'
<1> DEFINE new == [op |-> op, rows |-> [p \in ps |-> Restrict(prospect[p], columns)], drafts |-> os]
<1>1. session' = [session EXCEPT ![s] = new] /\ session[s].op = "idle"
  BY DEF Load, At
<1>2. new.op = op /\ new.drafts = os
  OBVIOUS
<1> HIDE DEF new
<1>m. /\ \A t \in Sessions : t # s => session'[t] = session[t]
      /\ session'[s].op = op /\ session'[s].drafts = os
  BY <1>1, <1>2 DEF Types
<1>3. ASSUME NEW x \in Drafts
      PROVE  /\ DraftAccount(x)'
             /\ Underway(x)' \in Nat /\ Underway(x)' <= Underway(x)
             /\ Excused(x)' \in Nat /\ Excused(x) <= Excused(x)'
  <2>1. Counted(x)' <=> Counted(x)
    BY DEF Counted
  <2>2. DraftAccount(x) /\ mails'[x] = mails[x] /\ lost'[x] = lost[x]
    BY DEF Accounts
  <2>3. Excused(x)' = Excused(x) /\ Excused(x) \in Nat
    BY <2>2, ExcusedMoves
  <2>4. /\ Number({"sending"}, x)' = Number({"sending"}, x) /\ Number({"mailed"}, x)' = Number({"mailed"}, x)
        /\ Counted(x) => Number({"reviewing", "opting_out"}, x)' = Number({"reviewing", "opting_out"}, x)
        /\ Number({"sending"}, x) \in Nat
        /\ Number({"mailed"}, x) \in Nat
        /\ Number({"reviewing", "opting_out"}, x) \in Nat
        /\ Number({"sending"}, x)' \in Nat
        /\ Number({"mailed"}, x)' \in Nat
        /\ Number({"reviewing", "opting_out"}, x)' \in Nat
        /\ mails[x] \in Nat /\ Requests \in Nat
    BY <1>m, <1>1, <1>2, TermsMove DEF Holds
  <2> QED BY <2>1, <2>2, <2>3, <2>4 DEF DraftAccount, Underway
<1>4. OneInHand'
  BY <1>m, OneInHandMoves DEF Accounts
<1> QED BY <1>3, <1>4, AccountsParts

\* The one step that adds to what is under way, and the gate that bounds it.
LEMMA SendAccounts == ASSUME Types, Accounts, NEW s \in Sessions, NEW o \in Drafts, Send(s, o) PROVE Accounts'
<1> DEFINE new == [op |-> "sending", rows |-> [p \in {} |-> Restrict(prospect[p], {})], drafts |-> {o}]
<1>1. session' = [session EXCEPT ![s] = new] /\ session[s].op = "idle"
      /\ UNCHANGED <<draft, recent, mails, lost>>
  BY DEF Send, Load, At, rows
<1>2. ~Counted(o) /\ Cardinality({a \in Drafts : Counted(a)}) < MaxPerWindow
  BY DEF Send, MayContact, FrequencyBlock, Counted
<1>3. new.op = "sending" /\ new.drafts = {o}
  OBVIOUS
<1> HIDE DEF new
<1>m. /\ \A t \in Sessions : t # s => session'[t] = session[t]
      /\ session'[s].op = "sending" /\ session'[s].drafts = {o}
  BY <1>1, <1>3 DEF Types
<1>4. ASSUME NEW x \in Drafts
      PROVE  /\ DraftAccount(x)'
             /\ Underway(x)' \in Nat /\ Underway(x)' = Underway(x) + (IF x = o THEN 1 ELSE 0)
             /\ Excused(x)' = Excused(x)
  <2>1. Counted(x)' <=> Counted(x)
    BY <1>1 DEF Counted
  <2>2. DraftAccount(x) /\ mails'[x] = mails[x] /\ lost'[x] = lost[x]
    BY <1>1 DEF Accounts
  <2>3. Excused(x)' = Excused(x) /\ Excused(x) \in Nat
    BY <2>2, ExcusedMoves
  <2>4. /\ Number({"sending"}, x)' = Number({"sending"}, x) + (IF x = o THEN 1 ELSE 0)
        /\ Number({"mailed"}, x)' = Number({"mailed"}, x)
        /\ Number({"reviewing", "opting_out"}, x)' = Number({"reviewing", "opting_out"}, x)
        /\ Number({"sending"}, x) \in Nat
        /\ Number({"mailed"}, x) \in Nat
        /\ Number({"reviewing", "opting_out"}, x) \in Nat
        /\ Number({"sending"}, x)' \in Nat
        /\ Number({"mailed"}, x)' \in Nat
        /\ Number({"reviewing", "opting_out"}, x)' \in Nat
        /\ mails[x] \in Nat /\ Requests \in Nat
    BY <1>m, <1>1, <1>3, TermsMove DEF Holds
  <2> QED BY <1>2, <2>1, <2>2, <2>3, <2>4 DEF DraftAccount, Underway
<1>5. OneInHand'
  BY <1>m, OneInHandMoves DEF Accounts
<1>6. WindowAccount'
  <2> DEFINE planned == Planned'
             cap == Requests * MaxPerWindow
  <2>1. planned \in [Drafts -> Nat] /\ planned[o] <= Planned[o] + 1
        /\ \A x \in Drafts : x # o => planned[x] <= Planned[x]
    BY <1>4, Terms DEF Planned
  <2>2. Excuses' = Excuses
    BY <1>4 DEF Excuses
  <2>3. Total(planned) = Total(Planned)' /\ Total(Excuses)' = Total(Excuses)
    BY <2>2
  <2> HIDE DEF planned
  <2>4. Total(planned) <= Total(Planned) + 1
    BY <2>1, Terms, TotalOneMore
  <2>5. Total(Planned) + 1 <= cap + Total(Excuses)
    BY <1>1, <1>2, CapLeavesRoom DEF Accounts
  <2>6. Total(planned) \in Nat /\ Total(Planned) \in Nat /\ Total(Excuses) \in Nat
    BY <2>1, Terms, EachFinite
  <2>7. cap \in Nat
    BY Terms, OutreachBounds
  <2>8. WindowAccount' <=> Total(planned) <= cap + Total(Excuses)
    BY <2>3 DEF WindowAccount
  <2> HIDE DEF cap
  <2> QED BY <2>4, <2>5, <2>6, <2>7, <2>8
<1> QED BY <1>4, <1>5, <1>6 DEF Accounts

LEMMA MailAccounts == ASSUME Types, Accounts, NEW s \in Sessions, NEW o \in Drafts, MailProspect(s, o) PROVE Accounts'
<1> DEFINE new == [session[s] EXCEPT !.op = "mailed"]
<1>1. session' = [session EXCEPT ![s] = new] /\ session[s].op = "sending" /\ session[s].drafts = {o}
      /\ mails' = [mails EXCEPT ![o] = @ + 1] /\ UNCHANGED <<draft, recent, lost>>
  BY DEF MailProspect, At, rows, Accounts, OneInHand
<1>2. new.op = "mailed" /\ new.drafts = {o}
  <2>1. session[s] = [op |-> session[s].op, rows |-> session[s].rows, drafts |-> session[s].drafts]
    BY DEF Types, SessionOK
  <2> QED BY <1>1, <2>1
<1> HIDE DEF new
<1>m. /\ \A t \in Sessions : t # s => session'[t] = session[t]
      /\ session'[s].op = "mailed" /\ session'[s].drafts = {o}
  BY <1>1, <1>2 DEF Types
<1>3. ASSUME NEW x \in Drafts
      PROVE  /\ DraftAccount(x)'
             /\ Underway(x)' \in Nat /\ Underway(x)' <= Underway(x)
             /\ Excused(x)' \in Nat /\ Excused(x) <= Excused(x)'
  <2>1. Counted(x)' <=> Counted(x)
    BY <1>1 DEF Counted
  <2>2. DraftAccount(x) /\ mails'[x] = mails[x] + (IF x = o THEN 1 ELSE 0) /\ lost'[x] = lost[x]
    BY <1>1, Terms DEF Accounts, Types, OutreachTypeOK
  <2>3. Excused(x)' = Excused(x) /\ Excused(x) \in Nat
    BY <2>2, ExcusedMoves
  <2>4. /\ Number({"reviewing", "opting_out"}, x)' = Number({"reviewing", "opting_out"}, x)
        /\ Number({"sending"}, x)' = Number({"sending"}, x) - (IF x = o THEN 1 ELSE 0)
        /\ Number({"mailed"}, x)' = Number({"mailed"}, x) + (IF x = o THEN 1 ELSE 0)
        /\ Number({"sending"}, x) \in Nat
        /\ Number({"mailed"}, x) \in Nat
        /\ Number({"reviewing", "opting_out"}, x) \in Nat
        /\ Number({"sending"}, x)' \in Nat
        /\ Number({"mailed"}, x)' \in Nat
        /\ Number({"reviewing", "opting_out"}, x)' \in Nat
        /\ mails[x] \in Nat /\ Requests \in Nat
    BY <1>m, <1>1, <1>2, TermsMove DEF Holds
  <2> QED BY <2>1, <2>2, <2>3, <2>4 DEF DraftAccount, Underway
<1>4. OneInHand'
  BY <1>m, OneInHandMoves DEF Accounts
<1> QED BY <1>3, <1>4, AccountsParts

\* From here on the cap counts the draft, and nobody takes it in hand any more.
LEMMA SentAccounts == ASSUME Types, Accounts, NEW s \in Sessions, NEW o \in Drafts, CommitSend(s, o) PROVE Accounts'
<1>1. session' = [session EXCEPT ![s] = Idle] /\ session[s].op = "mailed" /\ session[s].drafts = {o}
      /\ draft' = [draft EXCEPT ![o].status = "sent"] /\ recent' = recent \cup {o} /\ UNCHANGED <<mails, lost>>
  BY DEF CommitSend, End, At, Accounts, OneInHand
<1>m. /\ \A t \in Sessions : t # s => session'[t] = session[t]
      /\ session'[s].op = "idle" /\ session'[s].drafts = {}
  BY <1>1, IdleRows DEF Types
<1>2. ASSUME NEW x \in Drafts
      PROVE  /\ DraftAccount(x)'
             /\ Underway(x)' \in Nat /\ Underway(x)' <= Underway(x)
             /\ Excused(x)' \in Nat /\ Excused(x) <= Excused(x)'
  <2>1. (x # o => (Counted(x)' <=> Counted(x))) /\ Counted(o)'
    <3>1. draft \in [Drafts -> Draft]
      BY DEF Types, OutreachTypeOK
    <3>2. draft'[o].status = "sent" /\ (x # o => draft'[x] = draft[x])
      BY <1>1, <3>1 DEF Draft
    <3> QED BY <1>1, <3>2 DEF Counted
  <2>2. DraftAccount(x) /\ mails'[x] = mails[x] /\ lost'[x] = lost[x]
    BY <1>1 DEF Accounts
  <2>3. Excused(x)' = Excused(x) /\ Excused(x) \in Nat
    BY <2>2, ExcusedMoves
  <2>4. /\ Number({"sending"}, x)' = Number({"sending"}, x)
        /\ Number({"reviewing", "opting_out"}, x)' = Number({"reviewing", "opting_out"}, x)
        /\ x # o => Number({"mailed"}, x)' = Number({"mailed"}, x)
        /\ Number({"sending"}, x) + Number({"mailed"}, x) + Number({"reviewing", "opting_out"}, x) <= Requests
        /\ Number({"sending"}, x) \in Nat
        /\ Number({"mailed"}, x) \in Nat
        /\ Number({"reviewing", "opting_out"}, x) \in Nat
        /\ Number({"sending"}, x)' \in Nat
        /\ Number({"mailed"}, x)' \in Nat
        /\ Number({"reviewing", "opting_out"}, x)' \in Nat
        /\ mails[x] \in Nat /\ Requests \in Nat
    BY <1>m, <1>1, TermsMove DEF Holds
  <2> QED BY <2>1, <2>2, <2>3, <2>4 DEF DraftAccount, Underway
<1>3. OneInHand'
  BY <1>m, OneInHandMoves DEF Accounts
<1> QED BY <1>2, <1>3, AccountsParts

LEMMA DieAccounts == ASSUME Types, Accounts, NEW s \in Sessions, Die(s) PROVE Accounts'
<1>1. session' = [session EXCEPT ![s] = Idle] /\ session[s].op = "mailed"
      /\ UNCHANGED <<draft, recent, mails>>
      /\ lost' = [o \in Drafts |-> IF o \in session[s].drafts THEN lost[o] + 1 ELSE lost[o]]
  BY DEF Die, End, At, rows
<1>m. /\ \A t \in Sessions : t # s => session'[t] = session[t]
      /\ session'[s].op = "idle" /\ session'[s].drafts = {}
  BY <1>1, IdleRows DEF Types
<1>2. ASSUME NEW x \in Drafts
      PROVE  /\ DraftAccount(x)'
             /\ Underway(x)' \in Nat /\ Underway(x)' <= Underway(x)
             /\ Excused(x)' \in Nat /\ Excused(x) <= Excused(x)'
  <2>1. Counted(x)' <=> Counted(x)
    BY <1>1 DEF Counted
  <2>2. DraftAccount(x) /\ mails'[x] = mails[x]
        /\ lost'[x] = IF x \in session[s].drafts THEN lost[x] + 1 ELSE lost[x]
    BY <1>1 DEF Accounts
  <2>3. /\ Excused(x) \in Nat /\ Excused(x)' \in Nat
        /\ Excused(x)' = IF x \in session[s].drafts THEN Excused(x) + Hides ELSE Excused(x)
    BY <2>2, ExcusedMoves
  <2>4. /\ Number({"sending"}, x)' = Number({"sending"}, x)
        /\ Number({"reviewing", "opting_out"}, x)' = Number({"reviewing", "opting_out"}, x)
        /\ Hides \in Nat \ {0}
        /\ IF x \in session[s].drafts
           THEN Number({"mailed"}, x)' = Number({"mailed"}, x) - 1 ELSE Number({"mailed"}, x)' = Number({"mailed"}, x)
        /\ Number({"sending"}, x) \in Nat
        /\ Number({"mailed"}, x) \in Nat
        /\ Number({"reviewing", "opting_out"}, x) \in Nat
        /\ Number({"sending"}, x)' \in Nat
        /\ Number({"mailed"}, x)' \in Nat
        /\ Number({"reviewing", "opting_out"}, x)' \in Nat
        /\ mails[x] \in Nat /\ Requests \in Nat
    BY <1>m, <1>1, TermsMove DEF Holds
  <2> QED BY <2>1, <2>2, <2>3, <2>4 DEF DraftAccount, Underway
<1>3. OneInHand'
  BY <1>m, OneInHandMoves DEF Accounts
<1> QED BY <1>2, <1>3, AccountsParts

\* A commit that writes over drafts in hand: of one the cap counted, the writer
\* had sent no e-mail while it was counted.
LEMMA OverwritingAccounts ==
    ASSUME Types, Accounts, NEW s \in Sessions, session[s].op \in {"reviewing", "opting_out"}, End(s),
           NEW os, os \subseteq session[s].drafts, Overwrites(os), UNCHANGED <<recent, mails>>,
           \A x \in Drafts : IF x \in os THEN draft'[x].status # "sent" ELSE draft'[x] = draft[x]
    PROVE  Accounts'
<1>1. session' = [session EXCEPT ![s] = Idle]
  BY DEF End
<1>m. /\ \A t \in Sessions : t # s => session'[t] = session[t]
      /\ session'[s].op = "idle" /\ session'[s].drafts = {}
  BY <1>1, IdleRows DEF Types
<1>2. ASSUME NEW x \in Drafts
      PROVE  /\ DraftAccount(x)'
             /\ Underway(x)' \in Nat /\ Underway(x)' <= Underway(x)
             /\ Excused(x)' \in Nat /\ Excused(x) <= Excused(x)'
  <2>1. /\ x \in os => ~Counted(x)'
        /\ x \notin os => (Counted(x)' <=> Counted(x))
    BY DEF Counted
  <2>2. DraftAccount(x) /\ mails'[x] = mails[x]
        /\ lost'[x] = IF x \in os /\ Counted(x) THEN lost[x] + 1 ELSE lost[x]
    BY DEF Accounts, Overwrites
  <2>3. /\ Excused(x) \in Nat /\ Excused(x)' \in Nat
        /\ Excused(x)' = IF x \in os /\ Counted(x) THEN Excused(x) + Hides ELSE Excused(x)
    BY <2>2, ExcusedMoves
  <2>4. session[s].op \in {"reviewing", "opting_out"} /\ (x \in os => x \in session[s].drafts)
    OBVIOUS
  <2>5. /\ Number({"sending"}, x)' = Number({"sending"}, x)
        /\ Number({"mailed"}, x)' = Number({"mailed"}, x)
        /\ Number({"reviewing", "opting_out"}, x)' <= Number({"reviewing", "opting_out"}, x)
        /\ x \in os => Number({"reviewing", "opting_out"}, x) >= 1
        /\ Hides \in Nat /\ Requests <= Hides + 1
        /\ Number({"sending"}, x) \in Nat
        /\ Number({"mailed"}, x) \in Nat
        /\ Number({"reviewing", "opting_out"}, x) \in Nat
        /\ Number({"sending"}, x)' \in Nat
        /\ Number({"mailed"}, x)' \in Nat
        /\ Number({"reviewing", "opting_out"}, x)' \in Nat
        /\ mails[x] \in Nat /\ Requests \in Nat
    BY <1>m, <2>4, TermsMove DEF Holds
  <2> QED BY <2>1, <2>2, <2>3, <2>5 DEF DraftAccount, Underway
<1>3. OneInHand'
  BY <1>m, OneInHandMoves DEF Accounts
<1> QED BY <1>2, <1>3, AccountsParts

\* A new window starts with nothing sent and nobody sending.
LEMMA WindowAccounts == ASSUME Types, Accounts, WindowPasses PROVE Accounts'
<1>1. /\ recent' = {} /\ mails' = [o \in Drafts |-> 0] /\ UNCHANGED <<draft, session, lost>>
      /\ \A s \in Sessions : session[s].op = "idle"
  BY DEF WindowPasses, At, rows
<1>2. ASSUME NEW x \in Drafts
      PROVE  /\ DraftAccount(x)'
             /\ Underway(x)' \in Nat /\ Underway(x)' <= Underway(x)
             /\ Excused(x)' \in Nat /\ Excused(x) <= Excused(x)'
  <2>1. Having({"sending"}, x)' = {}
    BY <1>1 DEF Having
  <2>2. Number({"sending"}, x)' = 0
    BY <2>1, FS_EmptySet DEF Number
  <2>3. ~Counted(x)' /\ mails'[x] = 0 /\ lost'[x] = lost[x]
    BY <1>1 DEF Counted
  <2>4. Excused(x)' = Excused(x) /\ Excused(x) \in Nat
    BY <2>3, ExcusedMoves
  <2>5. Number({"mailed"}, x)' \in Nat
    <3>1. Having({"mailed"}, x)' = Having({"mailed"}, x)
      BY <1>1 DEF Having
    <3> QED BY <3>1, NumberType DEF Number
  <2>6. Underway(x) \in Nat
    BY Terms
  <2> QED BY <2>2, <2>3, <2>4, <2>5, <2>6 DEF DraftAccount, Underway
<1>3. OneInHand'
  BY <1>1 DEF OneInHand, Accounts
<1> QED BY <1>2, <1>3, AccountsParts

InHand == {"sending", "mailed", "reviewing", "opting_out"}

\* Candidates come in, are scored, enriched and promoted, messages are drafted:
\* none of these has a written message in hand.
LEMMA QualifyingAccounts ==
    ASSUME Types, Accounts, NEW s \in Sessions,
           \/ Qualifying(s)
           \/ \E p \in Records : StartDraft(s, p)
           \/ \E p \in Records, o \in Drafts : CommitDraft(s, p, o)
    PROVE  Accounts'
<1> DEFINE Quiet == \A t \in Sessions :
               session[t].op \in InHand \/ session'[t].op \in InHand => session'[t] = session[t]
<1>1. ASSUME NEW op \in Ops \ InHand, NEW ps, NEW columns, Load(s, op, ps, columns, {}) PROVE Quiet
  <2>1. session[s].op = "idle" /\ \A t \in Sessions : t # s => session'[t] = session[t]
    BY <1>1 DEF Load, At, Types
  <2>2. session'[s].op = op
    BY <1>1 DEF Load, Types
  <2> QED BY <1>1, <2>1, <2>2 DEF InHand
<1>2. ASSUME session[s].op \notin InHand, End(s) PROVE Quiet
  <2>1. session'[s].op = "idle" /\ \A t \in Sessions : t # s => session'[t] = session[t]
    BY <1>2, IdleRows DEF End, Types
  <2> QED BY <1>2, <2>1 DEF InHand
<1> HIDE DEF Quiet
<1>3. ASSUME Quiet, UNCHANGED <<draft, recent, mails, lost>> PROVE Accounts'
  <2>1. \A x \in Drafts : Counted(x)' <=> Counted(x)
    BY <1>3 DEF Counted
  <2> QED BY <1>3, <2>1, QuietAccounts DEF Quiet, InHand
<1>4. CASE Import(s)
  <2>1. Load(s, "importing", pool, {}, {}) /\ UNCHANGED <<draft, recent, mails, lost>>
    BY <1>4 DEF Import, rows
  <2> QED BY <1>1, <1>3, <2>1 DEF Ops, InHand
<1>5. ASSUME NEW v \in Vendors, NEW hs, CommitImport(s, v, hs) PROVE Accounts'
  <2>1. session[s].op = "importing" /\ End(s) /\ UNCHANGED <<draft, recent, mails, lost>>
    BY <1>5 DEF CommitImport, At
  <2> QED BY <1>2, <1>3, <2>1 DEF InHand
<1>6. ASSUME NEW ps, Score(s, ps) PROVE Accounts'
  <2>1. Load(s, "scoring", ps, {"score"}, {}) /\ UNCHANGED <<draft, recent, mails, lost>>
    BY <1>6 DEF Score, rows
  <2> QED BY <1>1, <1>3, <2>1 DEF Ops, InHand
<1>7. ASSUME NEW p, NEW score, SearchAgain(s, p, score) PROVE Accounts'
  <2>1. UNCHANGED <<draft, session, recent, mails, lost>>
    BY <1>7 DEF SearchAgain
  <2> QED BY <1>3, <2>1 DEF Quiet
<1>8. ASSUME NEW p, NEW score, CommitScore(s, p, score) PROVE Accounts'
  <2>1. session[s].op = "scoring" /\ UNCHANGED <<draft, recent, mails, lost>>
    BY <1>8 DEF CommitScore, At
  <2>2. CASE End(s)
    BY <1>2, <1>3, <2>1, <2>2 DEF InHand
  <2>3. CASE session' = [session EXCEPT ![s].rows = Restrict(@, Loaded(s) \ {p})]
    <3>1. session'[s].op = "scoring" /\ \A t \in Sessions : t # s => session'[t] = session[t]
      <4>1. session[s] = [op |-> session[s].op, rows |-> session[s].rows, drafts |-> session[s].drafts]
        BY DEF Types, SessionOK
      <4>2. session'[s] = [session[s] EXCEPT !.rows = Restrict(@, Loaded(s) \ {p})]
        BY <2>3 DEF Types
      <4>3. session'[s].op = session[s].op
        BY <4>1, <4>2
      <4> QED BY <2>1, <2>3, <4>3 DEF Types
    <3> QED BY <1>3, <2>1, <3>1 DEF Quiet, InHand
  <2> QED BY <1>8, <2>2, <2>3 DEF CommitScore
<1>9. ASSUME NEW p, Enrich(s, p) PROVE Accounts'
  <2>1. Load(s, "enriching", {p}, {"basis"}, {}) /\ UNCHANGED <<draft, recent, mails, lost>>
    BY <1>9 DEF Enrich, rows
  <2> QED BY <1>1, <1>3, <2>1 DEF Ops, InHand
<1>10. ASSUME NEW p, CommitEnrich(s, p) PROVE Accounts'
  <2>1. session[s].op = "enriching" /\ End(s) /\ UNCHANGED <<draft, recent, mails, lost>>
    BY <1>10 DEF CommitEnrich, At
  <2> QED BY <1>2, <1>3, <2>1 DEF InHand
<1>11. ASSUME NEW p, Promote(s, p) PROVE Accounts'
  <2>1. Load(s, "promoting", {p}, {"consent", "basis"}, {}) /\ UNCHANGED <<draft, recent, mails, lost>>
    BY <1>11 DEF Promote, rows
  <2> QED BY <1>1, <1>3, <2>1 DEF Ops, InHand
<1>12. ASSUME NEW p, NEW basis, CommitPromote(s, p, basis) PROVE Accounts'
  <2>1. session[s].op = "promoting" /\ End(s) /\ UNCHANGED <<draft, recent, mails, lost>>
    BY <1>12 DEF CommitPromote, At
  <2> QED BY <1>2, <1>3, <2>1 DEF InHand
<1>13. ASSUME NEW p, StartDraft(s, p) PROVE Accounts'
  <2>1. Load(s, "drafting", {p}, {"basis"}, {}) /\ UNCHANGED <<draft, recent, mails, lost>>
    BY <1>13 DEF StartDraft, rows
  <2> QED BY <1>1, <1>3, <2>1 DEF Ops, InHand
<1>14. ASSUME NEW p \in Records, NEW o \in Drafts, CommitDraft(s, p, o) PROVE Accounts'
  <2>1. session[s].op = "drafting" /\ End(s) /\ UNCHANGED <<recent, mails, lost>>
        /\ draft[o].status = "absent"
        /\ draft' = [draft EXCEPT ![o] = [status |-> "draft", of |-> p, basis |-> Seen(s, p).basis]]
    BY <1>14 DEF CommitDraft, NextDraft, At
  <2>2. ASSUME NEW x \in Drafts PROVE Counted(x)' <=> Counted(x)
    <3>1. draft \in [Drafts -> Draft]
      BY DEF Types, OutreachTypeOK
    <3>2. draft'[o].status = "draft" /\ (x # o => draft'[x] = draft[x])
      BY <2>1, <3>1
    <3> QED BY <2>1, <3>2 DEF Counted
  <2>3. Quiet
    BY <1>2, <2>1 DEF InHand
  <2> QED BY <2>1, <2>2, <2>3, QuietAccounts DEF Quiet, InHand
<1> QED BY <1>4, <1>5, <1>6, <1>7, <1>8, <1>9, <1>10, <1>11, <1>12, <1>13, <1>14 DEF Qualifying

LEMMA AccountsStep == ASSUME Types, Accounts, [OutreachNext]_vars PROVE Accounts'
<1>1. CASE UNCHANGED vars
  <2>1. UNCHANGED <<draft, session, recent, mails, lost>>
    BY <1>1 DEF vars
  <2>2. \A x \in Drafts : Counted(x)' <=> Counted(x)
    BY <2>1 DEF Counted
  <2> QED BY <2>1, <2>2, QuietAccounts
<1>2. ASSUME NEW s \in Sessions, NEW o \in Drafts, Review(s, o) PROVE Accounts'
  <2>1. Load(s, "reviewing", {}, {}, {o}) /\ ~Counted(o) /\ UNCHANGED <<draft, recent, mails, lost>>
    BY <1>2 DEF Review, Counted, rows
  <2> QED BY <2>1, TakesAccounts
<1>3. ASSUME NEW s \in Sessions, OptOut(s) PROVE Accounts'
  <2> DEFINE os == {o \in Drafts : draft[o].status \in {"draft", "approved"}}
  <2>1. Load(s, "opting_out", pool, {"consent"}, os) /\ UNCHANGED <<draft, recent, mails, lost>>
    BY <1>3 DEF OptOut, rows
  <2>2. os \in SUBSET Drafts /\ \A o \in os : ~Counted(o)
    BY DEF Counted
  <2> HIDE DEF os
  <2> QED BY <2>1, <2>2, TakesAccounts
<1>4. ASSUME NEW s \in Sessions, NEW o \in Drafts, NEW action \in {"approve", "reject"}, CommitReview(s, o, action)
      PROVE  Accounts'
  <2> DEFINE os == {o}
  <2>1. session[s].op = "reviewing" /\ End(s) /\ os \subseteq session[s].drafts /\ Overwrites(os)
        /\ UNCHANGED <<recent, mails>>
    BY <1>4 DEF CommitReview, At
  <2>2. \A x \in Drafts : IF x \in os THEN draft'[x].status # "sent" ELSE draft'[x] = draft[x]
    <3>1. draft \in [Drafts -> Draft]
      BY DEF Types, OutreachTypeOK
    <3>2. ReviewedStatus(action) # "sent"
      BY DEF ReviewedStatus
    <3> QED BY <1>4, <3>1, <3>2 DEF CommitReview, Draft
  <2> HIDE DEF os
  <2> QED BY <2>1, <2>2, OverwritingAccounts
<1>5. ASSUME NEW s \in Sessions, CommitOptOut(s) PROVE Accounts'
  <2> DEFINE os == session[s].drafts
  <2>1. session[s].op = "opting_out" /\ End(s) /\ os \subseteq session[s].drafts /\ Overwrites(os)
        /\ UNCHANGED <<recent, mails>>
    BY <1>5 DEF CommitOptOut, At
  <2>2. \A x \in Drafts : IF x \in os THEN draft'[x].status # "sent" ELSE draft'[x] = draft[x]
    <3>1. draft \in [Drafts -> Draft]
      BY DEF Types, OutreachTypeOK
    <3> QED BY <1>5, <3>1 DEF CommitOptOut, Draft
  <2> HIDE DEF os
  <2> QED BY <2>1, <2>2, OverwritingAccounts
<1>6. ASSUME NEW s \in Sessions, Qualifying(s) \/ Contacting(s) \/ GiveUp(s) \/ Die(s) PROVE Accounts'
  BY <1>2, <1>3, <1>4, <1>5, <1>6, QualifyingAccounts, SendAccounts, MailAccounts, SentAccounts,
     GiveUpAccounts, DieAccounts DEF Contacting
<1> QED BY <1>1, <1>6, WindowAccounts DEF OutreachNext

LEMMA AccountsInit == OutreachInit => Accounts
<1> SUFFICES ASSUME OutreachInit PROVE Accounts
  OBVIOUS
<1>t. Types
  BY InitTypes
<1>1. \A s \in Sessions : session[s].op = "idle"
  BY IdleRows DEF OutreachInit
<1>2. OneInHand
  BY <1>1 DEF OneInHand
<1>3. ASSUME NEW x \in Drafts PROVE DraftAccount(x) /\ Underway(x) = 0
  <2>1. Having({"sending"}, x) = {}
    BY <1>1 DEF Having
  <2>2. Number({"sending"}, x) = 0
    BY <2>1, FS_EmptySet DEF Number
  <2>3. ~Counted(x) /\ mails[x] = 0
    BY DEF OutreachInit, Counted
  <2>4. Number({"mailed"}, x) \in Nat /\ Excused(x) \in Nat
    BY <1>t, NumberType, Terms
  <2> QED BY <2>2, <2>3, <2>4 DEF DraftAccount, Underway
<1>4. WindowAccount
  <2>1. \A o \in Drafts : Planned[o] <= Excuses[o]
    <3> SUFFICES ASSUME NEW o \in Drafts PROVE Underway(o) <= Excused(o)
      BY DEF Planned, Excuses
    <3> QED BY <1>t, <1>3, Terms
  <2>2. Total(Planned) <= Total(Excuses)
    BY <1>t, <2>1, Terms, TotalGrows
  <2>3. Total(Planned) \in Nat /\ Total(Excuses) \in Nat
    BY <1>t, Terms, EachFinite
  <2> DEFINE cap == Requests * MaxPerWindow
  <2>4. cap \in Nat
    BY <1>t, Terms, OutreachBounds
  <2> HIDE DEF cap
  <2>5. Total(Planned) <= cap + Total(Excuses)
    BY <2>2, <2>3, <2>4
  <2> QED BY <2>5 DEF WindowAccount, cap
<1> QED BY <1>2, <1>3, <1>4 DEF Accounts

LEMMA AccountsGiveCap == ASSUME Types, Accounts PROVE CapHolds
<1>1. mails \in [Drafts -> Nat] /\ \A o \in Drafts : mails[o] <= Planned[o]
  <2>1. mails \in [Drafts -> Nat]
    BY DEF Types, OutreachTypeOK
  <2>2. ASSUME NEW o \in Drafts PROVE mails[o] <= Planned[o]
    <3>1. Planned[o] = mails[o] + Number({"sending"}, o) /\ mails[o] \in Nat
      BY Terms DEF Planned, Underway
    <3> QED BY <3>1, NumberType
  <2> QED BY <2>1, <2>2
<1>2. Total(mails) <= Total(Planned)
  BY <1>1, Terms, TotalGrows
<1>3. Total(mails) \in Nat /\ Total(Planned) \in Nat /\ Total(Excuses) \in Nat
  BY <1>1, Terms, EachFinite
<1> DEFINE cap == Requests * MaxPerWindow
<1>4. cap \in Nat
  BY Terms, OutreachBounds
<1>5. Total(Planned) <= cap + Total(Excuses)
  BY DEF Accounts, WindowAccount
<1> HIDE DEF cap
<1>6. Total(mails) <= cap + Total(Excuses)
  BY <1>2, <1>3, <1>4, <1>5
<1> QED BY <1>6 DEF CapHolds, Requests, Hides, Excuses, Excused, cap

\* For any requests, drafts and cap: the e-mails the recipient gets in a window
\* are bounded by the cap once per request (_frequency_block is read before the
\* e-mail leaves and the row says so after), and by what lost records hide.
THEOREM CapIsBounded == OutreachSpec => []CapHolds
<1>1. Types /\ Accounts /\ [OutreachNext]_vars => Accounts'
  BY AccountsStep
<1>2. Types /\ Accounts => CapHolds
  BY AccountsGiveCap
<1> QED BY <1>1, <1>2, AccountsInit, InitTypes, StepTypes, PTL DEF OutreachSpec

=============================================================================
