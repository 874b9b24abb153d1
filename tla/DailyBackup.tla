---------------------------- MODULE DailyBackup ----------------------------
(***************************************************************************)
(* The backup directory and the second half of run_daily.sh: compress,     *)
(* prune, back up, compress, prune.  A backup is a generation: its .db is   *)
(* put in place by Storage.backup with one rename, gzip then replaces it by *)
(* its .db.gz, which is neither atomic nor synced.  An operator may run     *)
(* `hedp backup` at any time, since that command does not take the jobs'    *)
(* lock, and may at any time compress a backup with                         *)
(* compress_verified_backup.py --remove-source, which replaces a .db by its *)
(* .db.gz only after it has read it back.                                   *)
(***************************************************************************)
EXTENDS Integers, FiniteSets

CONSTANTS
    MaxGen,     \* bound: how many backups are ever made
    Retention   \* BACKUP_RETENTION_COUNT

ASSUME MaxGenAssumption == MaxGen \in Nat
ASSUME RetentionAssumption == Retention \in Nat \ {0}

VARIABLES
    dir,       \* the backup directory exists
    file,      \* what is under each formal backup name
    gen,       \* how many backups have been made; names are dated
    pc,        \* where the script is
    todo,      \* generations compress_backups has still to compress
    obsolete,  \* names prune_backups has still to remove
    status,    \* the script's status flag
    tool,      \* generation whose .db the tool is about to remove, or 0
    unsynced,  \* generations whose .gz the system has still to write back
    overtaken, \* a backup by hand followed the script's own (history)
    accidents  \* what has befallen a .gz so far (history)

script == <<dir, gen, pc, todo, obsolete, status, overtaken>>
vars == <<script, file, tool, unsynced, accidents>>

Gen == 1..MaxGen
Name == Gen \X {"db", "gz"}
Content == {"none", "good", "torn"}
Place == {"idle", "compress1", "list1", "prune1", "backup", "compress2",
          "list2", "prune2", "backup_only", "end"}

\* "stopped": the runner stopped a gzip whose partial output stayed, and the
\* script went on.  "rewritten": gzip spoilt a .gz that the tool had verified
\* and whose .db it was about to remove.  "unwritten": a power loss spoilt a
\* .gz whose .db gzip had already removed.
Accident == {"stopped", "rewritten", "unwritten"}

\* The order of `sort`: by date, and a .db before its .db.gz.
Rank(n) == 2 * n[1] + IF n[2] = "gz" THEN 1 ELSE 0

Files == {n \in Name : file[n] # "none"}
Good == {n \in Name : file[n] = "good"}
Databases == {g \in Gen : file[<<g, "db">>] # "none"}   \* the glob *.db

Init ==
    /\ dir = FALSE
    /\ file = [n \in Name |-> "none"]
    /\ gen = 0
    /\ pc = "idle"
    /\ todo = {}
    /\ obsolete = {}
    /\ status = 0
    /\ tool = 0
    /\ unsynced = {}
    /\ overtaken = FALSE
    /\ accidents = {}

-----------------------------------------------------------------------------
\* The script has gone through the collecting commands, which may have
\* failed, and looks for the directory.
StartBackups ==
    /\ pc = "idle"
    /\ status' \in {0, 1}
    /\ pc' = IF dir THEN "compress1" ELSE "backup_only"
    /\ todo' = IF dir THEN Databases ELSE {}
    /\ UNCHANGED <<dir, file, gen, obsolete, tool, unsynced, overtaken, accidents>>

(* compress_backups *)

Compressing == pc \in {"compress1", "compress2"}

\* The file the loop has come to.
Current(g) == g \in todo /\ \A h \in todo : g <= h

\* gzip puts something else under the name of a .gz.
Spoils(g, left) == IF tool = g /\ left # "good" THEN {"rewritten"} ELSE {}

\* Variant: the source is removed before the output is closed.
GzipUnlinksFirst(g) ==
    /\ file' = [file EXCEPT ![<<g, "db">>] = "none", ![<<g, "gz">>] = "torn"]
    /\ unsynced' = unsynced \cup {g}

\* gzip closes its output, which it does not sync, and removes the source.
GzipReplaces(g) ==
    /\ file' = [file EXCEPT ![<<g, "db">>] = "none", ![<<g, "gz">>] = "good"]
    /\ unsynced' = unsynced \cup {g}

GzipSucceeds ==
    /\ Compressing
    /\ \E g \in todo \cap Databases :
         /\ Current(g)
         /\ GzipReplaces(g)
         /\ todo' = todo \ {g}
    /\ UNCHANGED <<dir, gen, pc, obsolete, status, tool, overtaken, accidents>>

\* What a gzip that ends early leaves of its output beside the source: nothing
\* when it cleans up, a part of it when SIGKILL comes first, all of it when it
\* is stopped just before it removes the source.
GzipLeaves(g, left) ==
    /\ file' = [file EXCEPT ![<<g, "gz">>] = left]
    /\ unsynced' = IF left = "none" THEN unsynced \ {g} ELSE unsynced \cup {g}

\* The first compression failed: no backup, no pruning.  The second one: the
\* status is set, the pruning follows.
CompressionFailed ==
    /\ status' = 1
    /\ pc' = IF pc = "compress1" THEN "end" ELSE "list2"
    /\ todo' = {}

\* The loop goes on to the next file.
NextFile(g) ==
    /\ todo' = todo \ {g}
    /\ UNCHANGED pc

\* gzip fails or is killed by the runner.  run_daily_command has lost the
\* exit status, so what ends the loop is that chmod finds no .gz file.
GzipFails ==
    /\ Compressing
    /\ \E g \in todo \cap Databases, left \in Content :
         /\ Current(g)
         /\ GzipLeaves(g, left)
         /\ IF left = "none" THEN CompressionFailed
                             ELSE NextFile(g) /\ status' = 1
         /\ accidents' = accidents \cup Spoils(g, left)
                          \cup IF left = "torn" THEN {"stopped"} ELSE {}
    /\ UNCHANGED <<dir, gen, obsolete, tool, overtaken>>

\* The tool has removed the .db since the loop listed it: it is skipped, or
\* gzip or one of the two chmod does not find it.
SourceIsGone ==
    /\ Compressing
    /\ \E g \in todo \ Databases :
         /\ Current(g)
         /\ \/ NextFile(g) /\ status' \in {status, 1}
            \/ CompressionFailed
    /\ UNCHANGED <<dir, file, gen, obsolete, tool, unsynced, overtaken, accidents>>

CompressDone ==
    /\ Compressing
    /\ todo = {}
    /\ pc' = IF pc = "compress1" THEN "list1" ELSE "list2"
    /\ UNCHANGED <<dir, file, gen, todo, obsolete, status, tool, unsynced, overtaken,
                   accidents>>

(* prune_backups *)

\* All but the newest Retention names, compressed or not.
Redundant == {n \in Files :
    Cardinality({m \in Files : Rank(m) > Rank(n)}) >= Retention}

ListObsolete ==
    /\ pc \in {"list1", "list2"}
    /\ obsolete' = Redundant
    /\ pc' = IF pc = "list1" THEN "prune1" ELSE "prune2"
    /\ UNCHANGED <<dir, file, gen, todo, status, tool, unsynced, overtaken, accidents>>

\* The name the loop has come to.
Oldest(n) == n \in obsolete /\ \A m \in obsolete : Rank(n) <= Rank(m)

RemoveOldest ==
    /\ pc \in {"prune1", "prune2"}
    /\ \E n \in obsolete \cap Files :
         /\ Oldest(n)
         /\ file' = [file EXCEPT ![n] = "none"]
         /\ unsynced' = IF n[2] = "gz" THEN unsynced \ {n[1]} ELSE unsynced
         /\ obsolete' = obsolete \ {n}
    /\ UNCHANGED <<dir, gen, pc, todo, status, tool, overtaken, accidents>>

\* rm does not find a name that the tool has removed: set -e ends the script.
PruneAborts ==
    /\ pc \in {"prune1", "prune2"}
    /\ \E n \in obsolete \ Files : Oldest(n)
    /\ pc' = "idle"
    /\ obsolete' = {}
    /\ UNCHANGED <<dir, file, gen, todo, status, tool, unsynced, overtaken, accidents>>

PruneDone ==
    /\ pc \in {"prune1", "prune2"}
    /\ obsolete = {}
    /\ pc' = IF pc = "prune1" THEN "backup" ELSE "end"
    /\ UNCHANGED <<dir, file, gen, todo, obsolete, status, tool, unsynced, overtaken,
                   accidents>>

(* hedp backup *)

\* Variant: the copy is written under its final name from the start, so that
\* a failing backup may leave a part of it there.
NewBackupInPlace ==
    /\ gen < MaxGen
    /\ gen' = gen + 1
    /\ \E c \in {"good", "torn"} : file' = [file EXCEPT ![<<gen + 1, "db">>] = c]
    /\ dir' = TRUE

\* Storage.backup: a complete copy under a new dated name, or nothing.  SQLite
\* syncs the copy before the rename.
NewBackup ==
    /\ gen < MaxGen
    /\ gen' = gen + 1
    /\ file' = [file EXCEPT ![<<gen + 1, "db">>] = "good"]
    /\ dir' = TRUE

\* Variant: the script ends without compressing the backup it has made.
BackupEndsUncompressed ==
    /\ pc' = IF pc = "backup" THEN "list2" ELSE "end"
    /\ todo' = {}

\* With the directory in place the script goes on whether the backup
\* succeeded or not: run_daily_command returns 0 either way.
BackupEnds ==
    /\ pc' = IF pc = "backup" THEN "compress2" ELSE "end"
    /\ todo' = IF pc = "backup" THEN Databases' ELSE {}

BackupSucceeds ==
    /\ pc \in {"backup", "backup_only"}
    /\ NewBackup
    /\ BackupEnds
    /\ overtaken' = FALSE
    /\ UNCHANGED <<obsolete, status, tool, unsynced, accidents>>

\* Too little space, an error or a timeout, before or after the directory is
\* made.
BackupFails ==
    /\ pc \in {"backup", "backup_only"}
    /\ dir' \in {dir, TRUE}
    /\ status' = 1
    /\ UNCHANGED <<file, gen, obsolete, tool, unsynced, overtaken, accidents>>
    /\ BackupEnds

EndRun ==
    /\ pc = "end"
    /\ pc' = "idle"
    /\ UNCHANGED <<dir, file, gen, todo, obsolete, status, tool, unsynced, overtaken,
                   accidents>>

\* `hedp backup` by hand: no lock, no compression, no pruning.
ManualBackup ==
    /\ NewBackup
    /\ overtaken' = TRUE
    /\ UNCHANGED <<pc, todo, obsolete, status, tool, unsynced, accidents>>

(* Kills and power losses *)

\* The script is killed.  Its gzip dies with it, or goes on in its own session
\* and ends by itself.
Crash ==
    /\ pc # "idle"
    /\ \/ UNCHANGED <<file, unsynced, accidents>>
       \/ /\ Compressing
          /\ \E g \in todo \cap Databases :
               /\ Current(g)
               /\ \/ GzipReplaces(g) /\ UNCHANGED accidents
                  \/ \E left \in Content :
                       /\ GzipLeaves(g, left)
                       /\ accidents' = accidents \cup Spoils(g, left)
    /\ pc' = "idle"
    /\ todo' = {}
    /\ obsolete' = {}
    /\ UNCHANGED <<dir, gen, status, tool, overtaken>>

\* The system writes the data of a .gz back.
WriteBack ==
    /\ \E g \in unsynced : unsynced' = unsynced \ {g}
    /\ UNCHANGED <<script, file, tool, accidents>>

\* The directory keeps its names, whose changes the file system journals in
\* order; any content that was not written back may be lost.  The script, its
\* gzip and the tool are gone (a gzip torn at its work is a Crash before).
PowerLoss ==
    /\ \E T \in SUBSET unsynced :
         /\ file' = [n \in Name |-> IF n[2] = "gz" /\ n[1] \in T THEN "torn" ELSE file[n]]
         /\ accidents' = accidents \cup IF T \subseteq Databases THEN {} ELSE {"unwritten"}
    /\ pc' = "idle"
    /\ todo' = {}
    /\ obsolete' = {}
    /\ tool' = 0
    /\ unsynced' = {}
    /\ UNCHANGED <<dir, gen, status, overtaken>>

(* compress_verified_backup.py --remove-source *)

\* Variant: an existing .gz is taken for granted.
VerifiedCompressionTrusting(g) ==
    file' = [file EXCEPT ![<<g, "gz">>] = IF @ = "none" THEN "good" ELSE @]

\* The .gz is read back and compared with the .db, one that is missing after
\* it has been written to a hidden partial file, synced and renamed.  A .gz
\* that differs ends the tool with both files kept.
VerifiedCompression(g) ==
    /\ file[<<g, "gz">>] # "torn"
    /\ file' = [file EXCEPT ![<<g, "gz">>] = "good"]

ToolCompresses ==
    /\ tool = 0
    /\ \E g \in Databases : VerifiedCompression(g) /\ tool' = g
    /\ UNCHANGED <<script, unsynced, accidents>>

\* source.unlink(), or the tool is stopped before it.
ToolEnds ==
    /\ tool # 0
    /\ \/ file' = [file EXCEPT ![<<tool, "db">>] = "none"]
       \/ UNCHANGED file
    /\ tool' = 0
    /\ UNCHANGED <<script, unsynced, accidents>>

-----------------------------------------------------------------------------
Script ==
    \/ GzipSucceeds
    \/ GzipFails
    \/ SourceIsGone
    \/ CompressDone
    \/ ListObsolete
    \/ RemoveOldest
    \/ PruneAborts
    \/ PruneDone
    \/ BackupSucceeds
    \/ BackupFails
    \/ EndRun

Next ==
    \/ StartBackups
    \/ Script
    \/ ManualBackup
    \/ ToolCompresses
    \/ ToolEnds
    \/ Crash
    \/ WriteBack
    \/ PowerLoss

Spec == Init /\ [][Next]_vars

\* A script that is not killed goes on to its end.
FairSpec == Spec /\ WF_vars(Script)

-----------------------------------------------------------------------------
(* Properties *)

\* The types; a torn file is always a .gz that was being written from a .db.
TypeOK ==
    /\ dir \in BOOLEAN
    /\ file \in [Name -> Content]
    /\ gen \in 0..MaxGen
    /\ pc \in Place
    /\ todo \subseteq Gen
    /\ obsolete \subseteq Name
    /\ status \in {0, 1}
    /\ tool \in {0} \cup Gen
    /\ unsynced \subseteq Gen
    /\ overtaken \in BOOLEAN
    /\ accidents \subseteq Accident
    /\ \A g \in Gen : file[<<g, "db">>] # "torn"

\* A complete backup that goes leaves a complete one at least as new.
Outlived == \A n \in Good : file'[n] # "good" =>
                \E m \in Name : m[1] >= n[1] /\ file'[m] = "good"

\* docs/backup-capacity-recovery.md: older generations go only once the new
\* one is known to be good.  A complete backup disappears only if a complete
\* one of the same or a newer generation remains, also beside the partial
\* output of a stopped gzip, which the pruning counts as a name.  The tool and
\* a power loss may each take the only copy of a generation; that apart.
GoodBackupOutlived == [][accidents' \subseteq {"stopped"} => Outlived]_vars

\* Unless one of the three accidents has happened, every name that
\* prune_backups keeps when it lists the directory is complete: what a killed
\* gzip or a power loss has torn is compressed again before it is counted.
KeepsOnlyComplete ==
    accidents = {} /\ pc \in {"prune1", "prune2"} =>
        \A n \in Files \ obsolete : file[n] = "good"

\* A run through both compressions that reports no error, and that no manual
\* backup overtook, leaves the generation it made complete and compressed, no
\* other .db, and no more names than it should keep.
CleanRunIsTidy ==
    [][pc = "prune2" /\ pc' = "end" /\ status = 0 /\ ~overtaken =>
         /\ file[<<gen, "gz">>] = "good"
         /\ Databases = {}
         /\ Cardinality(Files) <= Retention]_vars
=============================================================================
