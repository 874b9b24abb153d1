---------------------------- MODULE ReportImport ----------------------------
(***************************************************************************)
(* FusionSolarReportImporter.run: the station reports of a directory become *)
(* one raw row per file and one record per cell.  The records stored before *)
(* are read first, the files are compared with them and with each other,    *)
(* and nothing is written when a cell contradicts.  Then every raw row is   *)
(* committed by itself and all the records in one more commit: a run that   *)
(* dies in between is repaired by running again.                            *)
(***************************************************************************)
EXTENDS Integers, Sequences, FiniteSets, SequencesExt

CONSTANTS
    Key,        \* what a record is known by: a time and a metric
    Value,      \* with its unit, which the metric fixes
    Reports,    \* number of files; their names sort as their numbers
    MaxCells,   \* bound: readable cells of a file
    MaxRaw      \* bound: raw rows stored

VARIABLES
    sheet,     \* the readable cells of every file, in their order
    raw,       \* raw_data of the reports: the cells of a file each
    records,   \* records of the reports
    pending,   \* records to insert
    rawItems,  \* raw rows of the running or the last run
    unsaved,   \* how many of them are still to be stored
    run        \* "none", "writing", or how the last run ended

vars == <<sheet, raw, records, pending, rawItems, unsaved, run>>

ReportsAssumption == Reports \in Nat

Cell == [key : Key, value : Value]
Sheet == UNION {[1..n -> Cell] : n \in 0..MaxCells}

TypeOK ==
    /\ sheet \in [1..Reports -> Sheet]
    /\ ToSet(raw) \cup ToSet(rawItems) \subseteq Sheet
    /\ ToSet(records) \cup ToSet(pending) \subseteq Cell
    /\ unsaved \in 0..Len(rawItems)
    /\ run \in {"none", "writing", "completed", "blocked", "failed"}

Init ==
    /\ sheet \in [1..Reports -> Sheet]
    /\ raw = <<>> /\ records = <<>>
    /\ pending = <<>> /\ rawItems = <<>> /\ unsaved = 0
    /\ run = "none"

\* A report is exported again, with other cells.
Export ==
    /\ run # "writing"
    /\ \E f \in 1..Reports, s \in Sheet : sheet' = [sheet EXCEPT ![f] = s]
    /\ UNCHANGED <<raw, records, pending, rawItems, unsaved, run>>

-----------------------------------------------------------------------------
Keys(cells) == {cells[i].key : i \in DOMAIN cells}

\* Variant: `existing` is not told of the cells that are found.
CompareCellWithStored(known, c) ==
    IF c.key \notin Keys(records) THEN [known EXCEPT !.new = Append(@, c)]
    ELSE IF c \in ToSet(records) THEN known
    ELSE [known EXCEPT !.conflict = TRUE]

\* The next cell against `existing`: the stored records and the new ones.
CompareCell(known, c) ==
    IF c.key \notin Keys(records \o known.new) THEN [known EXCEPT !.new = Append(@, c)]
    ELSE IF c \in ToSet(records \o known.new) THEN known
    ELSE [known EXCEPT !.conflict = TRUE]

\* A file's cells one after the other; a file without any gets no raw row.
CompareFile(known, s) ==
    IF s = <<>> THEN known
    ELSE [FoldLeft(CompareCell, known, s) EXCEPT !.raws = Append(@, s)]

Compared ==
    FoldLeft(CompareFile, [new |-> <<>>, conflict |-> FALSE, raws |-> <<>>], sheet)

\* Everything up to the first write; inspect and a dry run end here.
CompareReports ==
    /\ run # "writing"
    /\ IF Compared.conflict
       THEN run' = "blocked" /\ UNCHANGED <<pending, rawItems, unsaved>>
       ELSE /\ pending' = Compared.new
            /\ rawItems' = Compared.raws
            /\ unsaved' = Len(rawItems')
            /\ Len(raw) + unsaved' <= MaxRaw
            /\ run' = "writing"
    /\ UNCHANGED <<sheet, raw, records>>

\* save_rawdata, which commits.
SaveReport ==
    /\ run = "writing"
    /\ unsaved > 0
    /\ raw' = Append(raw, rawItems[Len(rawItems) - unsaved + 1])
    /\ unsaved' = unsaved - 1
    /\ UNCHANGED <<sheet, records, pending, rawItems, run>>

\* executemany and the commit.
SaveReportRecords ==
    /\ run = "writing"
    /\ unsaved = 0
    /\ records' = records \o pending
    /\ pending' = <<>>
    /\ run' = "completed"
    /\ UNCHANGED <<sheet, raw, rawItems, unsaved>>

ReportImportDies ==
    /\ run = "writing"
    /\ run' = "failed"
    /\ pending' = <<>> /\ rawItems' = <<>> /\ unsaved' = 0
    /\ UNCHANGED <<sheet, raw, records>>

Next ==
    \/ Export
    \/ CompareReports
    \/ SaveReport
    \/ SaveReportRecords
    \/ ReportImportDies

Spec == Init /\ [][Next]_vars

-----------------------------------------------------------------------------
\* However often a run has died and was repeated, no cell is recorded twice,
\* every record is found in a raw row that was stored before it, and a run
\* that completes leaves every cell of its files recorded with its value.
ReportsAreWhole ==
    /\ Cardinality(Keys(records)) = Len(records)
    /\ ToSet(records) \subseteq UNION {ToSet(raw[i]) : i \in DOMAIN raw}
    /\ run = "completed" =>
         UNION {ToSet(rawItems[i]) : i \in DOMAIN rawItems} \subseteq ToSet(records)
=============================================================================
