------------------------------- MODULE Sourcing -------------------------------
(***************************************************************************)
(* Collecting a prospecting source page by page (app/services/sourcing.py): *)
(* the worker or a request checks that no run is active, records a run,     *)
(* fetches one page, imports it, and records how far it got.  Each of these *)
(* is a commit of its own, and the position of the crawl is in the rows.    *)
(*                                                                         *)
(* One source of one tenant: every query filters by both.  The worker       *)
(* (src/worker/scheduler.py) polls it in a loop that an exception does not  *)
(* end and that is restarted after a death; a user may run it besides.      *)
(***************************************************************************)
EXTENDS Integers, FiniteSets, FiniteSetsExt, SequencesExt

CONSTANTS
    Pages,      \* how many pages the source has; as a page, any page past the last
    MaxCalls,   \* bound on the requests that run the source
    MaxFaults   \* bound on exceptions and deaths in the middle of a run

ASSUME SourcingBounds ==
    Pages \in Nat \ {0} /\ MaxCalls \in Nat /\ MaxFaults \in Nat

Callers == {"worker", "api"}

\* mock: pages that end; paged: a directory whose URL has a {page}; single: one
\* without; licensed_vendor: not implemented, every fetch of it fails.
Kinds == {"mock", "paged", "single", "licensed_vendor"}

VARIABLES
    kind,       \* what the source is configured to be
    runs,       \* the source_runs rows that can still matter, oldest first
    fetch,      \* per caller: how far its run_source is, and the page it is at
    imported,   \* pages whose prospects were ever committed
    calls,      \* requests so far
    faults      \* faults so far

vars == <<kind, runs, fetch, imported, calls, faults>>

\* How long ago a run started: less than prospecting_run_stale_minutes, the
\* interval and the rescan time of the settings; in this order.
JustNow == 0
Stale   == 1
Poll    == 2
Rescan  == 3

\* cursor: cursor_after, 0 (None in the code) the top.  owner: the run_source
\* that still holds the row.
Run == [status : {"running", "ok", "exhausted", "failed"}, cursor : 0..Pages,
        age : JustNow..Rescan, owner : Callers \cup {"nobody"}]

NoFetch == [at |-> "idle", page |-> 0]

\* The rows, the runs in flight and the pages keep their shape: no cursor of a
\* source that ends points past the page after its last.
SourcingTypeOK ==
    /\ kind \in Kinds
    /\ runs \in Seq(Run)
    /\ fetch \in [Callers -> [at : {"idle", "checked", "fetching", "importing", "imported"},
                              page : 0..Pages]]
    /\ imported \subseteq 0..Pages
    /\ calls \in 0..MaxCalls
    /\ faults \in 0..MaxFaults

SourcingInit ==
    /\ kind \in Kinds
    /\ runs = <<>>
    /\ fetch = [c \in Callers |-> NoFetch]
    /\ imported = {}
    /\ calls = 0
    /\ faults = 0

-----------------------------------------------------------------------------
(* What the queries find *)

Newest(rows, wanted) == LET at == {i \in DOMAIN rows : rows[i].status \in wanted}
                        IN IF at = {} THEN 0 ELSE Max(at)

Successes == {"ok", "exhausted"}

\* A row some query returns, or that somebody still holds.
Matters(rows, i) ==
    \/ i = Len(rows) \/ rows[i].owner # "nobody"
    \/ i = Newest(rows, Successes)
    \/ i = Newest(rows, {"running"}) /\ rows[i].age = JustNow

\* The rows that matter; of the age of one that is not the last, only whether
\* it is running and recent.
Remember(rows) ==
    LET dated == [i \in DOMAIN rows |->
                    IF i = Len(rows) \/ (rows[i].status = "running" /\ rows[i].age = JustNow)
                    THEN rows[i] ELSE [rows[i] EXCEPT !.age = Rescan]]
        kept  == {i \in DOMAIN rows : Matters(rows, i)}
    IN [n \in 1..Cardinality(kept) |->
           dated[CHOOSE i \in kept : Cardinality({j \in kept : j < i}) = n - 1]]

IsStillRunning ==
    LET recent == Newest(runs, {"running"})
    IN recent # 0 /\ runs[recent].age = JustNow

\* Mutant: a rescan starts at page 1, as if pages were counted from there.
ResumeFromPageOne(restart) ==
    LET last == Newest(runs, Successes)
    IN IF last = 0 THEN 0 ELSE IF restart THEN 1 ELSE runs[last].cursor

ResumeCursor(restart) ==
    LET last == Newest(runs, Successes)
    IN IF last = 0 \/ restart THEN 0 ELSE runs[last].cursor

Restarts == runs # <<>> /\ Last(runs).status = "exhausted"

\* Mutant: a run that failed is not due again.
IsDueUnlessFailed ==
    runs # <<>> =>
        /\ Last(runs).status \notin {"running", "failed"}
        /\ Last(runs).age >= IF Restarts THEN Rescan ELSE Poll

IsDue ==
    runs # <<>> =>
        /\ Last(runs).status # "running"
        /\ Last(runs).age >= IF Restarts THEN Rescan ELSE Poll

-----------------------------------------------------------------------------
(* run_source *)

At(c, place) == fetch[c].at = place
Goto(c, place) == fetch' = [fetch EXCEPT ![c].at = place]

\* Not a lock: another caller may look before this one has recorded its run.
CheckSource(c, restart) ==
    /\ At(c, "idle") /\ ~IsStillRunning
    /\ fetch' = [fetch EXCEPT ![c] = [at |-> "checked", page |-> ResumeCursor(restart)]]
    /\ UNCHANGED <<kind, runs, imported, faults>>

RecordRun(c) ==
    /\ At(c, "checked")
    /\ runs' = Remember(Append(runs,
           [status |-> "running", cursor |-> 0, age |-> JustNow, owner |-> c]))
    /\ Goto(c, "fetching")
    /\ UNCHANGED <<kind, imported, calls, faults>>

\* Mutant: an empty page names a next one all the same.
MockCursorPast(page) == page + 1

\* Beyond the last page there is nothing, and no cursor either.
MockCursor(page)    == IF page >= Pages THEN 0 ELSE page + 1
MockExhausted(page) == page + 1 >= Pages

\* A directory does not know where it ends: past the last page the site answers
\* with an error or with a page without rows.
DirectoryCursor(page) == IF kind = "single" THEN 0 ELSE Min({page + 1, Pages})
DirectoryExhausted    == kind = "single"

NextCursor(page)  == IF kind = "mock" THEN MockCursor(page) ELSE DirectoryCursor(page)
ExhaustedBy(page) == IF kind = "mock" THEN MockExhausted(page) ELSE DirectoryExhausted

\* The row of c's run, with its status and cursor set, out of its hands.
Closed(c, status, cursor) ==
    Remember([i \in DOMAIN runs |->
        IF runs[i].owner = c
        THEN [runs[i] EXCEPT !.status = status, !.cursor = cursor, !.owner = "nobody"]
        ELSE runs[i]])

\* Mutant: an error of the source passes for an empty page.
FetchFailsUnnoticed(c) ==
    /\ At(c, "fetching")
    /\ runs' = Closed(c, IF ExhaustedBy(fetch[c].page) THEN "exhausted" ELSE "ok",
                      NextCursor(fetch[c].page))
    /\ fetch' = [fetch EXCEPT ![c] = NoFetch]
    /\ UNCHANGED <<kind, imported, calls, faults>>

\* The source is misconfigured, forbidden by robots.txt, unreachable, past its
\* last page or not implemented: the cursor is untouched.
FetchFails(c) ==
    /\ At(c, "fetching")
    /\ runs' = Closed(c, "failed", 0)
    /\ fetch' = [fetch EXCEPT ![c] = NoFetch]
    /\ UNCHANGED <<kind, imported, calls, faults>>

Fetched(c) ==
    /\ At(c, "fetching") /\ kind # "licensed_vendor"
    /\ Goto(c, "importing")
    /\ UNCHANGED <<kind, runs, imported, calls, faults>>

ImportPage(c) ==
    /\ At(c, "importing")
    /\ imported' = imported \cup {fetch[c].page}
    /\ Goto(c, "imported")
    /\ UNCHANGED <<kind, runs, calls, faults>>

FinishRun(c) ==
    LET page == fetch[c].page
    IN /\ At(c, "imported")
       /\ runs' = Closed(c, IF ExhaustedBy(page) THEN "exhausted" ELSE "ok", NextCursor(page))
       /\ fetch' = [fetch EXCEPT ![c] = NoFetch]
       /\ UNCHANGED <<kind, imported, calls, faults>>

\* The import raises or the process dies: nobody closes the row.
Abandon(c) ==
    /\ ~At(c, "idle")
    /\ faults < MaxFaults /\ faults' = faults + 1
    /\ runs' = Remember([i \in DOMAIN runs |->
           IF runs[i].owner = c THEN [runs[i] EXCEPT !.owner = "nobody"] ELSE runs[i]])
    /\ fetch' = [fetch EXCEPT ![c] = NoFetch]
    /\ UNCHANGED <<kind, imported, calls>>

\* run_due_sources, from a poll of the worker.
RunDueSource == IsDue /\ CheckSource("worker", Restarts) /\ UNCHANGED calls

\* A user runs the source through the API: due or not, and never from the top.
UserRunsSource ==
    /\ calls < MaxCalls /\ calls' = calls + 1
    /\ CheckSource("api", FALSE)

RunSource(c) ==
    RecordRun(c) \/ FetchFails(c) \/ Fetched(c) \/ ImportPage(c) \/ FinishRun(c)

\* Time passes until run i, with all before it, reaches the next age.
TimePasses(i) ==
    /\ i \in DOMAIN runs /\ runs[i].age < Rescan
    /\ runs' = Remember([j \in DOMAIN runs |->
           IF j <= i /\ runs[j].age <= runs[i].age
           THEN [runs[j] EXCEPT !.age = runs[i].age + 1] ELSE runs[j]])
    /\ UNCHANGED <<kind, fetch, imported, calls, faults>>

AgesPass == \E i \in DOMAIN runs : TimePasses(i)

SourcingNext ==
    \/ RunDueSource \/ UserRunsSource
    \/ \E c \in Callers : RunSource(c) \/ Abandon(c)
    \/ AgesPass

\* The worker polls for ever (a poll that fails is followed by the next, and a
\* fetch has a timeout), a request that was accepted ends, and time passes.
Fairness ==
    /\ WF_vars(RunDueSource \/ RunSource("worker"))
    /\ WF_vars(RunSource("api"))
    /\ WF_vars(AgesPass)

SourcingSpec == SourcingInit /\ [][SourcingNext]_vars /\ Fairness

-----------------------------------------------------------------------------

\* No run skips a page: every page before the one the next run starts at was
\* imported, whatever failed, died or overlapped meanwhile (the module comment
\* of sourcing.py: "A failed run leaves its cursor untouched").
NoPageSkipped == \A page \in 0..(ResumeCursor(FALSE) - 1) : page \in imported

\* The last run says it is running and nobody is running it.
Abandoned == runs # <<>> /\ Last(runs).status = "running" /\ Last(runs).owner = "nobody"

\* The worker collects from the source over and over, whatever fails, unless a
\* run was abandoned: _is_due takes such a run for active for ever, whatever
\* prospecting_run_stale_minutes promises.
SourcePolledAgain == []<>At("worker", "fetching") \/ <>[]Abandoned

\* The source is read from the top over and over, an exhausted one included
\* (_resume_cursor: "a directory grows"; app/config.py:56, "re-read from the top
\* after this long"), unless a run was abandoned or the source fails over and
\* over.  No operator takes part, although the comment of the column has it that
\* "'exhausted' is terminal until an operator resets it" (app/models.py:76):
\* _is_due and run_due_sources do what the settings say.  A directory of several
\* pages is not read so: none of its fetches says it is exhausted, and it is
\* polled past its end for ever.
SourceReadFromTheTop ==
    \/ kind = "paged"
    \/ []<>(At("worker", "fetching") /\ fetch["worker"].page = 0)
    \/ <>[]Abandoned
    \/ []<>(runs # <<>> /\ Last(runs).status = "failed")

=============================================================================
