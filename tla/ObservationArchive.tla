------------------------- MODULE ObservationArchive -------------------------
(***************************************************************************)
(* The cold archive of old SwitchBot observations and the compact database *)
(* made without them.  archive_switchbot_observations.py copies one month   *)
(* of the imported rows into a bundle (data and manifest), which appears    *)
(* under its name with one rename.  build_compact_database.py compares      *)
(* every bundle with the rows the database holds now, and writes a database *)
(* of all the other rows.  Neither changes the source, to which the         *)
(* collector and the importer go on adding rows.                            *)
(*                                                                          *)
(* A bundle is not synced before it is renamed: its contents reach the disk *)
(* some time later, and a power loss before that tears it.                  *)
(***************************************************************************)
CONSTANTS
    Month,     \* the months with observations
    Imported,  \* observations per month with the archived source
    Collected  \* observations per month with another source

VARIABLES
    stored,      \* rows of switchbot_observations
    bundle,      \* the archive under each month's name
    draft,       \* the verified temporary directory, if there is one
    compact,     \* the compact database under its name, if there is one
    compacting   \* the committed temporary database, if there is one

vars == <<stored, bundle, draft, compact, compacting>>

Row == Month \X (Imported \cup Collected)
NoBundle == [state |-> "absent", rows |-> {}]

\* `source` is the table as the build read it; it is there for the property.
CompactDatabase == [months : SUBSET Month, rows : SUBSET Row, source : SUBSET Row]

TypeOK ==
    /\ stored \subseteq Row
    /\ bundle \in [Month -> [state : {"absent", "fresh", "durable", "torn"},
                             rows : SUBSET Row]]
    /\ draft \subseteq [month : Month, rows : SUBSET Row]
    /\ compact \subseteq CompactDatabase
    /\ compacting \subseteq CompactDatabase

Init ==
    /\ stored = {}
    /\ bundle = [m \in Month |-> NoBundle]
    /\ draft = {}
    /\ compact = {}
    /\ compacting = {}

\* The collector or the importer commits an observation of any month.
Store ==
    /\ \E r \in Row \ stored : stored' = stored \cup {r}
    /\ UNCHANGED <<bundle, draft, compact, compacting>>

\* One SELECT over the half-open range of the month.
MonthRows(m) == {r \in stored : r[1] = m /\ r[2] \in Imported}

-----------------------------------------------------------------------------
(* archive_switchbot_observations.py *)

\* The count of the month decides whether there is anything to archive.
MayArchive(m) == bundle[m] = NoBundle /\ MonthRows(m) # {}

\* Writes data and manifest to a temporary directory and verifies them there.
CreateArchive(m) ==
    /\ draft = {}
    /\ MayArchive(m)
    /\ draft' = {[month |-> m, rows |-> MonthRows(m)]}
    /\ UNCHANGED <<stored, bundle, compact, compacting>>

PublishArchive ==
    /\ \E d \in draft :
         bundle' = [bundle EXCEPT ![d.month] = [state |-> "fresh", rows |-> d.rows]]
    /\ draft' = {}
    /\ UNCHANGED <<stored, compact, compacting>>

-----------------------------------------------------------------------------
(* build_compact_database.py *)

\* Checksums, counts and time range agree with the manifest.
Verified(m) == bundle[m].state \in {"fresh", "durable"}

\* Variant: the bundle is verified, but not against the source.
MatchesRecordsUnread(m) == Verified(m)

\* The manifest also agrees with the rows the source has now.
MatchesRecords(m) == Verified(m) /\ bundle[m].rows = MonthRows(m)

Archived(months) == UNION {MonthRows(m) : m \in months}

\* Everything from BEGIN to COMMIT: one transaction over one state of the
\* source.  A bundle that does not match, a range given twice or a count that
\* is not reconciled ends it without a result.
BuildCompact ==
    /\ compact = {}
    /\ compacting = {}
    /\ \E months \in SUBSET Month \ {{}} :
         /\ \A m \in months : MatchesRecords(m)
         /\ compacting' = {[months |-> months,
                            rows |-> stored \ Archived(months),
                            source |-> stored]}
    /\ UNCHANGED <<stored, bundle, draft, compact>>

PublishCompact ==
    /\ compacting # {}
    /\ compact' = compacting
    /\ compacting' = {}
    /\ UNCHANGED <<stored, bundle, draft>>

-----------------------------------------------------------------------------
\* An error or an interrupt removes the temporary file or directory.
GiveUp ==
    /\ draft # {} \/ compacting # {}
    /\ draft' = {}
    /\ compacting' = {}
    /\ UNCHANGED <<stored, bundle, compact>>

WriteBack(m) ==
    /\ bundle[m].state = "fresh"
    /\ bundle' = [bundle EXCEPT ![m].state = "durable"]
    /\ UNCHANGED <<stored, draft, compact, compacting>>

PowerLoss ==
    /\ \E lost \in SUBSET {m \in Month : bundle[m].state = "fresh"} :
         bundle' = [m \in Month |-> IF m \in lost THEN [bundle[m] EXCEPT !.state = "torn"]
                                                  ELSE bundle[m]]
    /\ draft' = {}
    /\ compacting' = {}
    /\ UNCHANGED <<stored, compact>>

Next ==
    \/ Store
    \/ \E m \in Month : CreateArchive(m)
    \/ PublishArchive
    \/ BuildCompact
    \/ PublishCompact
    \/ GiveUp
    \/ \E m \in Month : WriteBack(m)
    \/ PowerLoss

Spec == Init /\ [][Next]_vars

-----------------------------------------------------------------------------
\* The compact database and the bundles it was made with hold together every
\* row the source had, and no row twice, although rows were added to an
\* archived month after its bundle was made.  Only a bundle that a power loss
\* tore after it had been verified is excepted.
CompactIsWhole ==
    \A c \in compact :
        /\ \A r \in c.source \ c.rows :
             r[1] \in c.months /\ (r \in bundle[r[1]].rows \/ bundle[r[1]].state = "torn")
        /\ \A m \in c.months : bundle[m].rows \cap c.rows = {}
=============================================================================
