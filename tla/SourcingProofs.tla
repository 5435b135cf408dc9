----------------------------- MODULE SourcingProofs -----------------------------
(***************************************************************************)
(* Theorems of Sourcing, for a source of any kind and length, and any       *)
(* number of requests and faults.  Remember numbers the rows it keeps by    *)
(* how many kept rows are before them; that this names a row for each       *)
(* number, and that a query finds one, comes from the pigeon-hole lemma on  *)
(* ranks, so no induction is needed.                                        *)
(***************************************************************************)
EXTENDS Sourcing, FiniteSetTheorems, SequenceTheorems, TLAPS

-----------------------------------------------------------------------------
(* Ranks *)

\* How many members of S are below i: what Remember numbers the rows it keeps by.
Rank(S, i) == Cardinality({j \in S : j < i})

LEMMA RankBelow ==
    ASSUME NEW S \in SUBSET Nat, IsFiniteSet(S), NEW i \in S
    PROVE  Rank(S, i) \in 0..(Cardinality(S) - 1)
<1> DEFINE low == {j \in S : j < i}
<1>1. i \in Nat /\ low \subseteq S \ {i}
  OBVIOUS
<1>2. IsFiniteSet(S \ {i}) /\ Cardinality(S \ {i}) = Cardinality(S) - 1
  BY FS_RemoveElement
<1>3. IsFiniteSet(low) /\ Cardinality(low) <= Cardinality(S) - 1
  BY <1>1, <1>2, FS_Subset
<1>4. Cardinality(low) \in Nat /\ Cardinality(S) \in Nat
  BY <1>3, FS_CardinalityType
<1> QED BY <1>3, <1>4 DEF Rank

LEMMA RankGrows ==
    ASSUME NEW S \in SUBSET Nat, IsFiniteSet(S), NEW i \in S, NEW k \in S, i < k
    PROVE  Rank(S, i) # Rank(S, k)
<1> DEFINE low == {j \in S : j < i}
           high == {j \in S : j < k}
<1>1. low \subseteq high /\ i \in high /\ i \notin low
  <2>1. i \in Nat /\ k \in Nat
    OBVIOUS
  <2>2. \A j \in S : j < i => j < k
    <3> SUFFICES ASSUME NEW j \in S, j < i PROVE j < k
      OBVIOUS
    <3>1. j \in Nat
      OBVIOUS
    <3> QED BY <2>1, <3>1
  <2>3. i \in high /\ ~(i < i)
    BY <2>1
  <2> QED BY <2>2, <2>3
<1>2. IsFiniteSet(high)
  BY FS_Subset
<1> HIDE DEF low, high
<1>3. low # high
  BY <1>1
<1>4. Cardinality(low) # Cardinality(high)
  BY <1>1, <1>2, <1>3, FS_Subset
<1> QED BY <1>4 DEF Rank, low, high

\* Every rank below the cardinality is taken: ranks are distinct, and an
\* injection into one rank less would be onto too few.
LEMMA RankTaken ==
    ASSUME NEW S \in SUBSET Nat, IsFiniteSet(S), NEW n \in 0..(Cardinality(S) - 1)
    PROVE  \E i \in S : Rank(S, i) = n
<1> SUFFICES ASSUME \A i \in S : Rank(S, i) # n PROVE FALSE
  OBVIOUS
<1> DEFINE ranks == 0..(Cardinality(S) - 1)
           f == [i \in S |-> Rank(S, i)]
<1>1. Cardinality(S) \in Nat
  BY FS_CardinalityType
<1>2. IsFiniteSet(ranks) /\ Cardinality(ranks) = Cardinality(S)
  BY <1>1, FS_Interval
<1>3. IsFiniteSet(ranks \ {n}) /\ Cardinality(ranks \ {n}) = Cardinality(S) - 1
  BY <1>2, FS_RemoveElement
<1>4. f \in [S -> ranks \ {n}]
  BY RankBelow
<1>5. \A i, k \in S : i # k => f[i] # f[k]
  <2> SUFFICES ASSUME NEW i \in S, NEW k \in S, i # k PROVE Rank(S, i) # Rank(S, k)
    OBVIOUS
  <2>1. i < k \/ k < i
    OBVIOUS
  <2> QED BY <2>1, RankGrows
<1> HIDE DEF ranks, f
<1>6. Cardinality(ranks \ {n}) < Cardinality(S)
  BY <1>1, <1>3
<1>7. \E x, y \in S : x # y /\ f[x] = f[y]
  BY <1>3, <1>4, <1>6, FS_PigeonHole
<1> QED BY <1>5, <1>7

\* A set of naturals that is finite and not empty has a greatest member: the one
\* of the highest rank.
LEMMA MaxTaken ==
    ASSUME NEW S \in SUBSET Nat, IsFiniteSet(S), S # {}
    PROVE  Max(S) \in S /\ \A i \in S : i <= Max(S)
<1>1. Cardinality(S) \in Nat \ {0}
  BY FS_CardinalityType, FS_EmptySet
<1>2. PICK top \in S : Rank(S, top) = Cardinality(S) - 1
  BY <1>1, RankTaken
<1> DEFINE low == {j \in S : j < top}
<1>3. low \subseteq S \ {top} /\ Cardinality(low) = Cardinality(S) - 1
  BY <1>2 DEF Rank
<1>4. IsFiniteSet(S \ {top}) /\ Cardinality(S \ {top}) = Cardinality(S) - 1
  BY FS_RemoveElement
<1>5. low = S \ {top}
  BY <1>3, <1>4, FS_Subset
<1>6. \A i \in S : top >= i
  BY <1>5
<1> QED BY <1>6 DEF Max

-----------------------------------------------------------------------------
(* What the queries find and what is remembered *)

LEMMA IndexSet ==
    ASSUME NEW rows \in Seq(Run), NEW S \in SUBSET DOMAIN rows
    PROVE  S \in SUBSET Nat /\ IsFiniteSet(S)
<1>1. DOMAIN rows = 1..Len(rows) /\ Len(rows) \in Nat
  BY LenProperties
<1>2. IsFiniteSet(1..Len(rows))
  BY <1>1, FS_Interval
<1> QED BY <1>1, <1>2, FS_Subset

\* A query finds nothing, or a row of the status it asks for.
LEMMA NewestFound ==
    ASSUME NEW rows \in Seq(Run), NEW wanted, Newest(rows, wanted) # 0
    PROVE  Newest(rows, wanted) \in DOMAIN rows /\ rows[Newest(rows, wanted)].status \in wanted
<1> DEFINE at == {i \in DOMAIN rows : rows[i].status \in wanted}
<1>1. at \in SUBSET Nat /\ IsFiniteSet(at)
  BY IndexSet
<1>2. at # {} /\ Newest(rows, wanted) = Max(at)
  BY DEF Newest
<1>3. Max(at) \in at
  BY <1>1, <1>2, MaxTaken
<1> QED BY <1>2, <1>3

\* What tells two runs apart but their age.
SameButAge(r, s) == r.status = s.status /\ r.cursor = s.cursor /\ r.owner = s.owner

\* Every row remembered is a row there was, older perhaps.
LEMMA Remembered ==
    ASSUME NEW rows \in Seq(Run)
    PROVE  /\ Remember(rows) \in Seq(Run)
           /\ \A n \in DOMAIN Remember(rows) :
                  \E i \in DOMAIN rows : SameButAge(Remember(rows)[n], rows[i])
<1> DEFINE dated == [i \in DOMAIN rows |->
                       IF i = Len(rows) \/ (rows[i].status = "running" /\ rows[i].age = JustNow)
                       THEN rows[i] ELSE [rows[i] EXCEPT !.age = Rescan]]
           kept  == {i \in DOMAIN rows : Matters(rows, i)}
           Nth(n) == CHOOSE i \in kept : Cardinality({j \in kept : j < i}) = n - 1
<1>1. kept \in SUBSET DOMAIN rows /\ kept \in SUBSET Nat /\ IsFiniteSet(kept)
  BY IndexSet
<1>2. Cardinality(kept) \in Nat
  BY <1>1, FS_CardinalityType
<1>3. \A i \in DOMAIN rows : rows[i] \in Run /\ dated[i] \in Run /\ SameButAge(dated[i], rows[i])
  <2> SUFFICES ASSUME NEW i \in DOMAIN rows
               PROVE  rows[i] \in Run /\ dated[i] \in Run /\ SameButAge(dated[i], rows[i])
    OBVIOUS
  <2>1. rows[i] \in Run
    BY LenProperties
  <2> QED BY <2>1 DEF Run, SameButAge, JustNow, Rescan
<1>4. Remember(rows) = [n \in 1..Cardinality(kept) |-> dated[Nth(n)]]
  BY DEF Remember
<1> HIDE DEF dated, kept
<1>5. \A n \in 1..Cardinality(kept) : Nth(n) \in kept
  <2> SUFFICES ASSUME NEW n \in 1..Cardinality(kept) PROVE Nth(n) \in kept
    OBVIOUS
  <2>1. n - 1 \in 0..(Cardinality(kept) - 1)
    BY <1>2
  <2>2. \E i \in kept : Rank(kept, i) = n - 1
    BY <1>1, <2>1, RankTaken
  <2> QED BY <2>2 DEF Rank
<1> HIDE DEF Nth
<1>6. \A n \in 1..Cardinality(kept) :
          /\ dated[Nth(n)] \in Run
          /\ \E i \in DOMAIN rows : SameButAge(dated[Nth(n)], rows[i])
  BY <1>1, <1>3, <1>5
<1>7. Remember(rows) \in [1..Cardinality(kept) -> Run]
  BY <1>4, <1>6
<1>8. Remember(rows) \in Seq(Run)
  BY <1>2, <1>7, SeqDef
<1> QED BY <1>4, <1>6, <1>7, <1>8

-----------------------------------------------------------------------------
(* Shapes *)

LEMMA LeastOfTwo ==
    ASSUME NEW a \in Nat, NEW b \in Nat
    PROVE  Min({a, b}) = IF a <= b THEN a ELSE b
<1>1. CASE a <= b
  <2>1. a \in {a, b} /\ \A y \in {a, b} : a =< y
    BY <1>1
  <2>2. \A x \in {a, b} : (\A y \in {a, b} : x =< y) => x = a
    BY <1>1
  <2> QED BY <1>1, <2>1, <2>2 DEF Min
<1>2. CASE b < a
  <2>1. b \in {a, b} /\ \A y \in {a, b} : b =< y
    BY <1>2
  <2>2. \A x \in {a, b} : (\A y \in {a, b} : x =< y) => x = b
    BY <1>2
  <2> QED BY <1>2, <2>1, <2>2 DEF Min
<1> QED BY <1>1, <1>2

\* The cursor of a page is the top or no further than the page after it.
LEMMA CursorType ==
    ASSUME NEW page \in 0..Pages
    PROVE  NextCursor(page) \in 0..Pages /\ NextCursor(page) <= page + 1
<1>1. page \in Nat /\ page + 1 \in Nat /\ Pages \in Nat /\ page <= Pages
  BY SourcingBounds
<1>2. Min({page + 1, Pages}) = IF page + 1 <= Pages THEN page + 1 ELSE Pages
  BY <1>1, LeastOfTwo
<1>3. MockCursor(page) \in 0..Pages /\ MockCursor(page) <= page + 1
  BY <1>1 DEF MockCursor
<1>4. DirectoryCursor(page) \in 0..Pages /\ DirectoryCursor(page) <= page + 1
  BY <1>1, <1>2 DEF DirectoryCursor
<1> QED BY <1>3, <1>4 DEF NextCursor

\* A run starts at the top or at the cursor of a run that succeeded.
LEMMA ResumesAtASuccess ==
    ASSUME SourcingTypeOK, NEW restart
    PROVE  /\ ResumeCursor(restart) \in 0..Pages
           /\ \/ ResumeCursor(restart) = 0
              \/ \E i \in DOMAIN runs : runs[i].status \in Successes /\ ResumeCursor(restart) = runs[i].cursor
<1> DEFINE last == Newest(runs, Successes)
<1>1. CASE last = 0 \/ restart
  <2>1. ResumeCursor(restart) = 0
    BY <1>1 DEF ResumeCursor
  <2> QED BY <2>1, SourcingBounds
<1>2. CASE last # 0 /\ ~restart
  <2>1. ResumeCursor(restart) = runs[last].cursor
    BY <1>2 DEF ResumeCursor
  <2>2. runs \in Seq(Run)
    BY DEF SourcingTypeOK
  <2>3. last \in DOMAIN runs /\ runs[last].status \in Successes
    BY <1>2, <2>2, NewestFound
  <2>4. runs[last] \in Run
    BY <2>2, <2>3, LenProperties
  <2> QED BY <2>1, <2>3, <2>4 DEF Run
<1> QED BY <1>1, <1>2

\* Rewriting rows one by one keeps a table of rows.
LEMMA RowsRewritten ==
    ASSUME NEW rows \in Seq(Run), NEW new, DOMAIN new = DOMAIN rows, new = [i \in DOMAIN rows |-> new[i]],
           \A i \in DOMAIN rows : new[i] \in Run
    PROVE  new \in Seq(Run)
<1>1. DOMAIN rows = 1..Len(rows) /\ Len(rows) \in Nat
  BY LenProperties
<1>2. new \in [1..Len(rows) -> Run]
  BY <1>1
<1> QED BY <1>1, <1>2, SeqDef

\* The rows a run closes, and those it leaves behind, before forgetting any.
ClosedRows(c, status, cursor) ==
    [i \in DOMAIN runs |->
        IF runs[i].owner = c
        THEN [runs[i] EXCEPT !.status = status, !.cursor = cursor, !.owner = "nobody"]
        ELSE runs[i]]

LeftRows(c) == [i \in DOMAIN runs |->
    IF runs[i].owner = c THEN [runs[i] EXCEPT !.owner = "nobody"] ELSE runs[i]]

AgedRows(i) == [j \in DOMAIN runs |->
    IF j <= i /\ runs[j].age <= runs[i].age
    THEN [runs[j] EXCEPT !.age = runs[i].age + 1] ELSE runs[j]]

LEMMA RunRow == ASSUME SourcingTypeOK PROVE \A i \in DOMAIN runs : runs[i] \in Run
<1>1. runs \in Seq(Run)
  BY DEF SourcingTypeOK
<1> QED BY <1>1, LenProperties

LEMMA ClosedRowsType ==
    ASSUME SourcingTypeOK, NEW c \in Callers, NEW status \in {"ok", "exhausted", "failed"}, NEW cursor \in 0..Pages
    PROVE  ClosedRows(c, status, cursor) \in Seq(Run)
<1>1. \A i \in DOMAIN runs : ClosedRows(c, status, cursor)[i] \in Run
  BY RunRow DEF ClosedRows, Run
<1>2. runs \in Seq(Run)
  BY DEF SourcingTypeOK
<1> QED BY <1>1, <1>2, RowsRewritten DEF ClosedRows

LEMMA LeftRowsType ==
    ASSUME SourcingTypeOK, NEW c \in Callers PROVE LeftRows(c) \in Seq(Run)
<1>1. \A i \in DOMAIN runs : LeftRows(c)[i] \in Run
  BY RunRow DEF LeftRows, Run
<1>2. runs \in Seq(Run)
  BY DEF SourcingTypeOK
<1> QED BY <1>1, <1>2, RowsRewritten DEF LeftRows

LEMMA AgedRowsType ==
    ASSUME SourcingTypeOK, NEW i \in DOMAIN runs, runs[i].age < Rescan PROVE AgedRows(i) \in Seq(Run)
<1>1. runs[i].age + 1 \in JustNow..Rescan
  BY RunRow DEF Run, JustNow, Rescan
<1>2. \A j \in DOMAIN runs : AgedRows(i)[j] \in Run
  BY <1>1, RunRow DEF AgedRows, Run
<1>3. runs \in Seq(Run)
  BY DEF SourcingTypeOK
<1> QED BY <1>2, <1>3, RowsRewritten DEF AgedRows

NewRow(c) == [status |-> "running", cursor |-> 0, age |-> JustNow, owner |-> c]

LEMMA AppendedType ==
    ASSUME SourcingTypeOK, NEW c \in Callers
    PROVE  /\ Append(runs, NewRow(c)) \in Seq(Run)
           /\ \A i \in DOMAIN Append(runs, NewRow(c)) :
                  \/ Append(runs, NewRow(c))[i] = NewRow(c)
                  \/ i \in DOMAIN runs /\ Append(runs, NewRow(c))[i] = runs[i]
<1>1. runs \in Seq(Run)
  BY DEF SourcingTypeOK
<1>2. NewRow(c) \in Run
  BY SourcingBounds DEF NewRow, Run, JustNow, Rescan
<1> QED BY <1>1, <1>2, AppendProperties, LenProperties

Place == [at : {"idle", "checked", "fetching", "importing", "imported"}, page : 0..Pages]

LEMMA PlaceType ==
    ASSUME SourcingTypeOK, NEW c \in Callers
    PROVE  /\ fetch[c] \in Place
           /\ \A at \in {"idle", "checked", "fetching", "importing", "imported"} :
                  [fetch EXCEPT ![c].at = at] \in [Callers -> Place]
           /\ \A p \in Place : [fetch EXCEPT ![c] = p] \in [Callers -> Place]
           /\ NoFetch \in Place
  BY SourcingBounds DEF SourcingTypeOK, Place, NoFetch

LEMMA SourcingTypeStep == ASSUME SourcingTypeOK, [SourcingNext]_vars PROVE SourcingTypeOK'
<1> SUFFICES ASSUME SourcingTypeOK, SourcingNext PROVE SourcingTypeOK'
  BY DEF vars, SourcingTypeOK
<1> DEFINE Kept == UNCHANGED <<kind, calls, faults>>
<1>0. /\ SourcingTypeOK => kind \in Kinds /\ runs \in Seq(Run) /\ fetch \in [Callers -> Place]
                          /\ imported \subseteq 0..Pages /\ calls \in 0..MaxCalls /\ faults \in 0..MaxFaults
      /\ (kind \in Kinds /\ runs \in Seq(Run) /\ fetch \in [Callers -> Place]
                          /\ imported \subseteq 0..Pages /\ calls \in 0..MaxCalls /\ faults \in 0..MaxFaults)'
             => SourcingTypeOK'
  BY DEF SourcingTypeOK, Place
<1>1. ASSUME NEW c \in Callers, NEW restart, CheckSource(c, restart)
      PROVE  UNCHANGED <<kind, runs, imported, faults>> /\ fetch' \in [Callers -> Place]
  <2>1. [at |-> "checked", page |-> ResumeCursor(restart)] \in Place
    BY ResumesAtASuccess DEF Place
  <2> QED BY <1>1, <2>1, PlaceType DEF CheckSource
<1>2. CASE RunDueSource
  <2>1. CheckSource("worker", Restarts) /\ calls' = calls
    BY <1>2 DEF RunDueSource
  <2> QED BY <1>0, <1>1, <2>1 DEF Callers
<1>3. CASE UserRunsSource
  <2>1. CheckSource("api", FALSE) /\ calls < MaxCalls /\ calls' = calls + 1
    BY <1>3 DEF UserRunsSource
  <2>2. calls \in 0..MaxCalls /\ MaxCalls \in Nat
    BY <1>0, SourcingBounds
  <2>3. calls' \in 0..MaxCalls
    BY <2>1, <2>2
  <2> QED BY <1>0, <1>1, <2>1, <2>3 DEF Callers
<1>4. ASSUME NEW c \in Callers, RecordRun(c) PROVE SourcingTypeOK'
  <2>1. runs' = Remember(Append(runs, NewRow(c))) /\ Goto(c, "fetching") /\ Kept /\ UNCHANGED imported
    BY <1>4 DEF RecordRun, NewRow
  <2>2. runs' \in Seq(Run)
    BY <2>1, AppendedType, Remembered
  <2>3. fetch' \in [Callers -> Place]
    BY <2>1, PlaceType DEF Goto
  <2> QED BY <1>0, <2>1, <2>2, <2>3
<1>5. ASSUME NEW c \in Callers, NEW status \in {"ok", "exhausted", "failed"}, NEW cursor \in 0..Pages,
             runs' = Closed(c, status, cursor), fetch' = [fetch EXCEPT ![c] = NoFetch],
             Kept, UNCHANGED imported
      PROVE  SourcingTypeOK'
  <2>1. runs' = Remember(ClosedRows(c, status, cursor))
    BY <1>5 DEF Closed, ClosedRows
  <2>2. runs' \in Seq(Run)
    BY <2>1, ClosedRowsType, Remembered
  <2>3. fetch' \in [Callers -> Place]
    BY <1>5, PlaceType
  <2> QED BY <1>0, <1>5, <2>2, <2>3
<1>6. ASSUME NEW c \in Callers, FetchFails(c) PROVE SourcingTypeOK'
  <2>1. 0 \in 0..Pages
    BY SourcingBounds
  <2> QED BY <1>5, <1>6, <2>1 DEF FetchFails
<1>7. ASSUME NEW c \in Callers, Fetched(c) PROVE SourcingTypeOK'
  BY <1>0, <1>7, PlaceType DEF Fetched, Goto
<1>8. ASSUME NEW c \in Callers, ImportPage(c) PROVE SourcingTypeOK'
  <2>1. fetch[c].page \in 0..Pages
    BY PlaceType DEF Place
  <2>2. imported' \subseteq 0..Pages
    BY <1>0, <1>8, <2>1 DEF ImportPage
  <2> QED BY <1>0, <1>8, <2>2, PlaceType DEF ImportPage, Goto
<1>9. ASSUME NEW c \in Callers, FinishRun(c) PROVE SourcingTypeOK'
  <2>1. fetch[c].page \in 0..Pages
    BY PlaceType DEF Place
  <2>2. NextCursor(fetch[c].page) \in 0..Pages
    BY <2>1, CursorType
  <2> QED BY <1>5, <1>9, <2>2 DEF FinishRun
<1>10. ASSUME NEW c \in Callers, Abandon(c) PROVE SourcingTypeOK'
  <2>1. runs' = Remember(LeftRows(c)) /\ fetch' = [fetch EXCEPT ![c] = NoFetch] /\ UNCHANGED <<kind, imported, calls>>
    BY <1>10 DEF Abandon, LeftRows
  <2>2. faults' \in 0..MaxFaults
    BY <1>0, <1>10, SourcingBounds DEF Abandon
  <2>3. runs' \in Seq(Run)
    BY <2>1, LeftRowsType, Remembered
  <2> QED BY <1>0, <2>1, <2>2, <2>3, PlaceType
<1>11. ASSUME NEW i \in DOMAIN runs, TimePasses(i) PROVE SourcingTypeOK'
  <2>1. runs' = Remember(AgedRows(i)) /\ runs[i].age < Rescan /\ UNCHANGED <<kind, fetch, imported, calls, faults>>
    BY <1>11 DEF TimePasses, AgedRows
  <2>2. runs' \in Seq(Run)
    BY <2>1, AgedRowsType, Remembered
  <2> QED BY <1>0, <2>1, <2>2
<1> QED BY <1>2, <1>3, <1>4, <1>6, <1>7, <1>8, <1>9, <1>10, <1>11 DEF SourcingNext, RunSource, AgesPass

\* The rows, the runs in flight and the pages keep their shape, for any source,
\* number of requests and of faults (run_source and run_due_sources).
THEOREM SourcingTypes == SourcingSpec => []SourcingTypeOK
<1>1. SourcingInit => SourcingTypeOK
  <2>1. SourcingInit => fetch \in [Callers -> Place]
    BY SourcingBounds DEF SourcingInit, NoFetch, Place
  <2> QED BY <2>1, SourcingBounds DEF SourcingInit, SourcingTypeOK, Place
<1>2. SourcingTypeOK /\ [SourcingNext]_vars => SourcingTypeOK'
  BY SourcingTypeStep
<1> QED BY <1>1, <1>2, PTL DEF SourcingSpec

-----------------------------------------------------------------------------
(* No page is skipped *)

\* Every page before this one was imported.
Collected(upto) == \A page \in 0..(upto - 1) : page \in imported

\* What every success in the table claims is there, not the newest alone: the
\* newest may be the one that ended last and started lowest.  A run in flight
\* has below it what its cursor claimed, and with the import also its page.
CursorsCollected == \A i \in DOMAIN runs :
    runs[i].status \in Successes => Collected(runs[i].cursor)

FetchesCollected == \A c \in Callers :
    /\ Collected(fetch[c].page)
    /\ At(c, "imported") => fetch[c].page \in imported

PagesInv == SourcingTypeOK /\ CursorsCollected /\ FetchesCollected

LEMMA CollectedStays == ASSUME imported \subseteq imported', NEW n, Collected(n) PROVE Collected(n)'
  BY DEF Collected

\* A table is as good as the rows it remembers.
LEMMA CursorsRemembered ==
    ASSUME NEW rows \in Seq(Run), runs' = Remember(rows), imported \subseteq imported',
           \A i \in DOMAIN rows : rows[i].status \in Successes => Collected(rows[i].cursor)
    PROVE  CursorsCollected'
<1> SUFFICES ASSUME NEW n \in DOMAIN runs', runs'[n].status \in Successes
             PROVE  \A page \in 0..(runs'[n].cursor - 1) : page \in imported'
  BY DEF CursorsCollected, Collected
<1>1. PICK i \in DOMAIN rows : SameButAge(runs'[n], rows[i])
  BY Remembered
<1>2. rows[i].status \in Successes /\ rows[i].cursor = runs'[n].cursor
  BY <1>1 DEF SameButAge
<1>3. Collected(rows[i].cursor)
  BY <1>2
<1>4. \A page \in 0..(rows[i].cursor - 1) : page \in imported'
  BY <1>3 DEF Collected
<1> QED BY <1>2, <1>4

LEMMA PagesStep == ASSUME PagesInv, [SourcingNext]_vars PROVE (CursorsCollected /\ FetchesCollected)'
<1>0. CASE UNCHANGED vars
  BY <1>0 DEF PagesInv, CursorsCollected, FetchesCollected, Collected, At, vars
<1> SUFFICES ASSUME SourcingNext PROVE (CursorsCollected /\ FetchesCollected)'
  BY <1>0
<1> DEFINE Idle(c) == fetch' = [fetch EXCEPT ![c] = NoFetch]
<1>1. /\ runs \in Seq(Run) /\ fetch \in [Callers -> Place] /\ SourcingTypeOK
      /\ CursorsCollected /\ FetchesCollected
  BY DEF PagesInv, SourcingTypeOK, Place
<1>2. ASSUME UNCHANGED runs, imported \subseteq imported' PROVE CursorsCollected'
  BY <1>1, <1>2, CollectedStays DEF CursorsCollected, Collected
<1>3. ASSUME NEW c \in Callers, imported \subseteq imported', NEW p \in Place,
             fetch' = [fetch EXCEPT ![c] = p], Collected(p.page),
             p.at = "imported" => p.page \in imported'
      PROVE  FetchesCollected'
  <2>1. \A d \in Callers : fetch'[d] = IF d = c THEN p ELSE fetch[d]
    BY <1>1, <1>3
  <2> SUFFICES ASSUME NEW d \in Callers
               PROVE  /\ \A page \in 0..(fetch'[d].page - 1) : page \in imported'
                      /\ fetch'[d].at = "imported" => fetch'[d].page \in imported'
    BY DEF FetchesCollected, Collected, At
  <2>2. CASE d = c
    BY <1>3, <2>1, <2>2 DEF Collected
  <2>3. CASE d # c
    BY <1>1, <1>3, <2>1, <2>3 DEF FetchesCollected, Collected, At
  <2> QED BY <2>2, <2>3
<1>4. ASSUME NEW c \in Callers, NEW restart, CheckSource(c, restart)
      PROVE  (CursorsCollected /\ FetchesCollected)'
  <2> DEFINE upto == ResumeCursor(restart)
             p    == [at |-> "checked", page |-> upto]
  <2>1. UNCHANGED <<runs, imported>> /\ fetch' = [fetch EXCEPT ![c] = p]
    BY <1>4 DEF CheckSource
  <2>2. upto \in 0..Pages /\ Collected(upto)
    <3>1. upto = 0 \/ \E i \in DOMAIN runs : runs[i].status \in Successes /\ upto = runs[i].cursor
      BY <1>1, ResumesAtASuccess
    <3>2. Collected(0)
      BY DEF Collected
    <3>3. upto \in 0..Pages
      BY <1>1, ResumesAtASuccess
    <3> QED BY <1>1, <3>1, <3>2, <3>3 DEF CursorsCollected
  <2> HIDE DEF upto
  <2>3. p \in Place
    BY <2>2 DEF Place
  <2>4. FetchesCollected'
    BY <1>3, <2>1, <2>2, <2>3
  <2> QED BY <1>2, <2>1, <2>4
<1>5. ASSUME NEW c \in Callers, Idle(c), UNCHANGED imported PROVE FetchesCollected'
  <2>1. NoFetch \in Place /\ NoFetch.at # "imported" /\ NoFetch.page = 0
    BY <1>1, PlaceType DEF NoFetch
  <2>2. Collected(NoFetch.page)
    BY <2>1 DEF Collected
  <2>3. imported \subseteq imported'
    BY <1>5
  <2> QED BY <1>3, <1>5, <2>1, <2>2, <2>3
<1>6. ASSUME NEW c \in Callers, RecordRun(c) PROVE (CursorsCollected /\ FetchesCollected)'
  <2> DEFINE rows == Append(runs, NewRow(c))
  <2>1. runs' = Remember(rows) /\ Goto(c, "fetching") /\ UNCHANGED imported
    BY <1>6 DEF RecordRun, NewRow
  <2>2. rows \in Seq(Run)
    BY <1>1, AppendedType
  <2>3. \A i \in DOMAIN rows : rows[i].status \in Successes => Collected(rows[i].cursor)
    BY <1>1, AppendedType DEF NewRow, Successes, CursorsCollected
  <2> HIDE DEF rows
  <2>4. CursorsCollected'
    BY <2>1, <2>2, <2>3, CursorsRemembered
  <2>5. FetchesCollected'
    BY <1>1, <2>1 DEF Goto, FetchesCollected, Collected, At, Place
  <2> QED BY <2>4, <2>5
<1>7. ASSUME NEW c \in Callers, NEW status \in {"ok", "exhausted", "failed"}, NEW cursor \in 0..Pages,
             runs' = Closed(c, status, cursor), UNCHANGED imported,
             status # "failed" => Collected(cursor)
      PROVE  CursorsCollected'
  <2> DEFINE rows == ClosedRows(c, status, cursor)
  <2>1. runs' = Remember(rows) /\ rows \in Seq(Run)
    BY <1>1, <1>7, ClosedRowsType DEF Closed, ClosedRows
  <2>2. ASSUME NEW i \in DOMAIN rows, rows[i].status \in Successes PROVE Collected(rows[i].cursor)
    <3>1. i \in DOMAIN runs /\ runs[i] \in Run
      BY <1>1, RunRow DEF ClosedRows
    <3>2. CASE runs[i].owner = c
      <4>1. rows[i].status = status /\ rows[i].cursor = cursor
        BY <3>1, <3>2 DEF ClosedRows, Run
      <4> QED BY <1>7, <2>2, <4>1 DEF Successes
    <3>3. CASE runs[i].owner # c
      <4>1. rows[i] = runs[i]
        BY <3>1, <3>3 DEF ClosedRows
      <4> QED BY <1>1, <2>2, <3>1, <4>1 DEF CursorsCollected
    <3> QED BY <3>2, <3>3
  <2> HIDE DEF rows
  <2> QED BY <1>7, <2>1, <2>2, CursorsRemembered
<1>8. ASSUME NEW c \in Callers, FetchFails(c) PROVE (CursorsCollected /\ FetchesCollected)'
  <2>1. CursorsCollected'
    BY <1>7, <1>8, SourcingBounds DEF FetchFails
  <2> QED BY <1>5, <1>8, <2>1 DEF FetchFails
<1>9. ASSUME NEW c \in Callers, Fetched(c) PROVE (CursorsCollected /\ FetchesCollected)'
  <2>1. UNCHANGED <<runs, imported>> /\ Goto(c, "importing")
    BY <1>9 DEF Fetched
  <2>2. FetchesCollected'
    BY <1>1, <2>1 DEF Goto, FetchesCollected, Collected, At, Place
  <2> QED BY <1>2, <2>1, <2>2
<1>10. ASSUME NEW c \in Callers, ImportPage(c) PROVE (CursorsCollected /\ FetchesCollected)'
  <2>1. UNCHANGED runs /\ imported' = imported \cup {fetch[c].page} /\ Goto(c, "imported")
    BY <1>10 DEF ImportPage
  <2>2. FetchesCollected'
    BY <1>1, <2>1 DEF Goto, FetchesCollected, Collected, At, Place
  <2> QED BY <1>2, <2>1, <2>2
<1>11. ASSUME NEW c \in Callers, FinishRun(c) PROVE (CursorsCollected /\ FetchesCollected)'
  <2> DEFINE page == fetch[c].page
  <2>1. At(c, "imported") /\ Idle(c) /\ UNCHANGED imported
        /\ runs' = Closed(c, IF ExhaustedBy(page) THEN "exhausted" ELSE "ok", NextCursor(page))
    BY <1>11 DEF FinishRun
  <2>2. page \in 0..Pages /\ page \in imported /\ Collected(page)
    BY <1>1, <2>1 DEF FetchesCollected, Place
  <2>3. NextCursor(page) \in 0..Pages /\ NextCursor(page) <= page + 1
    BY <2>2, CursorType
  <2> HIDE DEF page
  <2>4. Collected(NextCursor(page))
    <3> SUFFICES ASSUME NEW p \in 0..(NextCursor(page) - 1) PROVE p \in imported
      BY DEF Collected
    <3>1. p \in 0..(page - 1) \/ p = page
      BY <2>2, <2>3, SourcingBounds
    <3> QED BY <2>2, <3>1 DEF Collected
  <2>5. CursorsCollected'
    BY <1>7, <2>1, <2>3, <2>4
  <2> QED BY <1>5, <2>1, <2>5
<1>12. ASSUME NEW c \in Callers, Abandon(c) PROVE (CursorsCollected /\ FetchesCollected)'
  <2> DEFINE rows == LeftRows(c)
  <2>1. runs' = Remember(rows) /\ rows \in Seq(Run) /\ Idle(c) /\ UNCHANGED imported
    BY <1>1, <1>12, LeftRowsType DEF Abandon, LeftRows
  <2>2. \A i \in DOMAIN rows : rows[i].status \in Successes => Collected(rows[i].cursor)
    BY <1>1, RunRow DEF LeftRows, Run, CursorsCollected
  <2> HIDE DEF rows
  <2>3. CursorsCollected'
    BY <2>1, <2>2, CursorsRemembered
  <2> QED BY <1>5, <2>1, <2>3
<1>13. ASSUME NEW i \in DOMAIN runs, TimePasses(i) PROVE (CursorsCollected /\ FetchesCollected)'
  <2> DEFINE rows == AgedRows(i)
  <2>1. runs' = Remember(rows) /\ rows \in Seq(Run) /\ UNCHANGED <<fetch, imported>>
    BY <1>1, <1>13, AgedRowsType DEF TimePasses, AgedRows
  <2>2. \A j \in DOMAIN rows : rows[j].status \in Successes => Collected(rows[j].cursor)
    BY <1>1, RunRow DEF AgedRows, Run, CursorsCollected
  <2> HIDE DEF rows
  <2>3. CursorsCollected'
    BY <2>1, <2>2, CursorsRemembered
  <2>4. FetchesCollected'
    BY <1>1, <2>1 DEF FetchesCollected, Collected, At
  <2> QED BY <2>3, <2>4
<1>14. RunDueSource => \E restart : CheckSource("worker", restart)
  BY DEF RunDueSource
<1>15. UserRunsSource => \E restart : CheckSource("api", restart)
  BY DEF UserRunsSource
<1> QED BY <1>4, <1>14, <1>15, <1>6, <1>8, <1>9, <1>10, <1>11, <1>12, <1>13
        DEF SourcingNext, RunSource, AgesPass, Callers

LEMMA PagesHold == SourcingSpec => []PagesInv
<1>1. SourcingInit => CursorsCollected /\ FetchesCollected
  BY DEF SourcingInit, CursorsCollected, FetchesCollected, Collected, At, NoFetch
<1>2. PagesInv /\ SourcingTypeOK' /\ [SourcingNext]_vars => PagesInv'
  BY PagesStep DEF PagesInv
<1>3. SourcingTypeOK /\ CursorsCollected /\ FetchesCollected => PagesInv
  BY DEF PagesInv
<1> QED BY <1>1, <1>2, <1>3, SourcingTypes, PTL DEF SourcingSpec

\* However runs fail, die, overlap and outlive one another, every page before the
\* one the next run starts at was imported (_resume_cursor and run_source).
THEOREM PagesAreNotSkipped == SourcingSpec => []NoPageSkipped
<1>1. PagesInv => NoPageSkipped
  <2> SUFFICES ASSUME PagesInv PROVE Collected(ResumeCursor(FALSE))
    BY DEF NoPageSkipped, Collected
  <2>1. \/ ResumeCursor(FALSE) = 0
        \/ \E i \in DOMAIN runs : runs[i].status \in Successes /\ ResumeCursor(FALSE) = runs[i].cursor
    BY ResumesAtASuccess DEF PagesInv
  <2>2. Collected(0)
    BY DEF Collected
  <2> QED BY <2>1, <2>2 DEF PagesInv, CursorsCollected
<1> QED BY <1>1, PagesHold, PTL

=================================================================================
