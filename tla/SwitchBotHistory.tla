-------------------------- MODULE SwitchBotHistory --------------------------
(***************************************************************************)
(* SwitchBotImporter: exported histories are inspected and copied row by    *)
(* row into switchbot_observations, with a commit every Batch rows, and a   *)
(* row of switchbot_import_runs tells how it went.  An import that dies is  *)
(* repeated: the rows it had committed are recognised as duplicates by      *)
(* their canonical key.  Two different rows of one time are both kept and   *)
(* their conflict is recorded.  The gaps are rebuilt from all of them.      *)
(***************************************************************************)
EXTENDS Integers, Sequences, FiniteSets, SequencesExt

CONSTANTS
    History,  \* the exports: for each, its stem, its suffix and its rows
    Batch,    \* rows between two commits, 10,000 in the code
    MaxRuns   \* bound: rows of switchbot_import_runs

VARIABLES
    observations,  \* committed rows
    recorded,      \* committed rows of switchbot_import_conflicts
    runs,          \* committed rows of switchbot_import_runs
    dirty,         \* what the open transaction adds to the three, or nothing
    work,          \* the exports still to import, the first being imported
    counts,        \* rows of it inserted and recognised as duplicates
    gaps           \* switchbot_data_gaps

vars == <<observations, recorded, runs, dirty, work, counts, gaps>>

Export == DOMAIN History
Rows(f) == History[f].rows
RowsOfAll == UNION {ToSet(Rows(f)) : f \in Export}
Observation == [row : RowsOfAll, file : Export]

\* The exports are finitely many, and each is a list of timed rows.
HistoryAssumption ==
    /\ IsFiniteSet(Export)
    /\ \A f \in Export : Rows(f) \in Seq(RowsOfAll)
    /\ \A r \in RowsOfAll : r.at \in Int
    /\ Batch \in Nat \ {0}

Counts == [inserted : Nat, duplicates : Nat]
RunRow == [file : Export, status : {"running", "completed"}, counts : Counts]

\* No row is written before the inspection; a run row begins the transaction.
Clean == [open |-> FALSE, observations |-> {}, recorded |-> {}]

TypeOK ==
    /\ observations \subseteq Observation
    /\ dirty.observations \subseteq Observation
    /\ recorded \cup dirty.recorded \subseteq Observation \X Observation
    /\ runs \in Seq(RunRow)
    /\ ToSet(work) \subseteq Export
    /\ counts \in Counts
    /\ \A g \in gaps : g.from < g.to

Init ==
    /\ observations = {} /\ recorded = {} /\ runs = <<>>
    /\ dirty = Clean /\ work = <<>>
    /\ counts = [inserted |-> 0, duplicates |-> 0]
    /\ gaps = {}

-----------------------------------------------------------------------------
(* What is inspected before anything is written *)

\* _inspect_file, which compares a row with the one before it.
Blocked(f) ==
    \E i \in 2..Len(Rows(f)) :
        LET a == Rows(f)[i - 1]  b == Rows(f)[i] IN
        b.at < a.at \/ (b.at = a.at /\ b.value # a.value)

\* _comparisons: two exports of one stem have to hold the same rows.
Identical(files) ==
    \A f, g \in files : History[f].stem = History[g].stem => Rows(f) = Rows(g)

\* The path is an export or the directory of all.
Import ==
    /\ work = <<>>
    /\ Len(runs) + Cardinality(Export) <= MaxRuns
    /\ \E files \in {Export} \cup {{f} : f \in Export} :
         /\ Identical(files)
         /\ work' = SetToSeq(files)
    /\ UNCHANGED <<observations, recorded, runs, dirty, counts, gaps>>

\* A blocked export is reported, and the next one follows.
SkipBlocked ==
    /\ work # <<>> /\ ~dirty.open
    /\ counts = [inserted |-> 0, duplicates |-> 0]
    /\ Blocked(Head(work))
    /\ work' = Tail(work)
    /\ UNCHANGED <<observations, recorded, runs, dirty, counts, gaps>>

-----------------------------------------------------------------------------
(* insert_observation *)

\* Variant: the file belongs to the key.
CanonicalKeyOfFile(o) == <<o.row, o.file>>

\* What the key digests: device, time, kind and values, and not the source.
CanonicalKey(o) == o.row

Seen == observations \cup dirty.observations
Duplicate(o) == \E s \in Seen : CanonicalKey(s) = CanonicalKey(o)
SameTime(o) == {s \in Seen : s.row.at = o.row.at}

Done == counts.inserted + counts.duplicates
Incoming == [row |-> Rows(Head(work))[Done + 1], file |-> Head(work)]

\* The transaction with the next row in it: a conflict is recorded with one
\* of the rows of its time.
WithRow(o) ==
    IF Duplicate(o) THEN {[dirty EXCEPT !.open = (@ \/ Done = 0)]}
    ELSE {[open |-> TRUE,
           observations |-> dirty.observations \cup {o},
           recorded |-> dirty.recorded \cup c] :
             c \in IF SameTime(o) = {} THEN {{}} ELSE {{<<s, o>>} : s \in SameTime(o)}}

RunOf(f, status) == [file |-> f, status |-> status, counts |-> [inserted |-> 0, duplicates |-> 0]]

\* The run row is inserted with the first row, and committed with its batch.
RunsWithThis == IF Done < Batch THEN Append(runs, RunOf(Head(work), "running")) ELSE runs

ImportRow ==
    /\ work # <<>>
    /\ ~Blocked(Head(work))
    /\ Done < Len(Rows(Head(work)))
    /\ counts' = IF Duplicate(Incoming) THEN [counts EXCEPT !.duplicates = @ + 1]
                 ELSE [counts EXCEPT !.inserted = @ + 1]
    /\ \E d \in WithRow(Incoming) :
         IF (Done + 1) % Batch = 0
         THEN /\ observations' = observations \cup d.observations
              /\ recorded' = recorded \cup d.recorded
              /\ runs' = RunsWithThis
              /\ dirty' = Clean
         ELSE /\ dirty' = d
              /\ UNCHANGED <<observations, recorded, runs>>
    /\ UNCHANGED <<work, gaps>>

\* The run row is completed and everything left is committed.
CompleteImport ==
    /\ work # <<>>
    /\ ~Blocked(Head(work))
    /\ Done = Len(Rows(Head(work)))
    /\ observations' = observations \cup dirty.observations
    /\ recorded' = recorded \cup dirty.recorded
    /\ LET all == RunsWithThis IN
       runs' = [all EXCEPT ![Len(all)] = [RunOf(Head(work), "completed") EXCEPT !.counts = counts]]
    /\ dirty' = Clean
    /\ work' = Tail(work)
    /\ counts' = [inserted |-> 0, duplicates |-> 0]
    /\ UNCHANGED gaps

\* The transaction is rolled back, the batches before it stay.
ImportDies ==
    /\ work # <<>>
    /\ dirty' = Clean
    /\ work' = <<>>
    /\ counts' = [inserted |-> 0, duplicates |-> 0]
    /\ UNCHANGED <<observations, recorded, runs, gaps>>

-----------------------------------------------------------------------------
\* The gaps of a source: two rows of it in a row in time, too far apart.
GapsOf(rows) ==
    {g \in [suffix : {History[f].suffix : f \in Export},
            from : {o.row.at : o \in rows}, to : {o.row.at : o \in rows}] :
        LET times == {o.row.at : o \in {r \in rows : History[r.file].suffix = g.suffix}} IN
        /\ {g.from, g.to} \subseteq times
        /\ g.to - g.from > 2
        /\ \A t \in times : t <= g.from \/ t >= g.to}

\* rebuild_gaps of another process needs the database for itself.
RebuildGaps ==
    /\ ~dirty.open
    /\ gaps' = GapsOf(observations)
    /\ UNCHANGED <<observations, recorded, runs, dirty, work, counts>>

Next ==
    \/ Import
    \/ SkipBlocked
    \/ ImportRow
    \/ CompleteImport
    \/ ImportDies
    \/ RebuildGaps

Spec == Init /\ [][Next]_vars

-----------------------------------------------------------------------------
\* After any imports, also ones that died and were repeated, every row of an
\* export that a run calls completed is stored, no row is stored twice, and
\* of the different rows of one time all but the first are found in a
\* recorded conflict with one that was there before.
HistoryIsWhole ==
    /\ \A i \in DOMAIN runs : runs[i].status = "completed" =>
         /\ ToSet(Rows(runs[i].file)) \subseteq {o.row : o \in observations}
         /\ runs[i].counts.inserted + runs[i].counts.duplicates = Len(Rows(runs[i].file))
    /\ Cardinality({o.row : o \in observations}) = Cardinality(observations)
    /\ \A o, s \in observations : o # s /\ o.row.at = s.row.at =>
         \E c \in recorded : c[2] \in {o, s}
    /\ \A c \in recorded : {c[1], c[2]} \subseteq observations
=============================================================================
